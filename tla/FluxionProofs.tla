---------------------------- MODULE FluxionProofs ----------------------------
(***************************************************************************)
(* Whose a worker process is, for any clusters, subsystems, graphs, calls   *)
(* in flight and bounds.                                                    *)
(***************************************************************************)
EXTENDS FluxionMatcher, OrderLemmas

Proc == [up : BOOLEAN, room : Nat, jobs : SUBSET Nat, next : Nat]

Shape ==
  /\ workers \in Seq(Proc) /\ contexts \in Seq(ClusterCtx)
  /\ requests \in [Requests -> Call \cup {None}]
  /\ \A r \in Requests : requests[r] # None =>
       /\ requests[r].name = None => /\ requests[r].ctx \in ClusterCtx
                                     /\ requests[r].ctx.id = requests[r].cluster
       /\ requests[r].name # None => requests[r].ctx \in Nat
  /\ \A c \in DOMAIN clusters :
       c \in Clusters /\ clusters[c] \in DOMAIN contexts /\ Context(c).id = c
  /\ \A a \in DOMAIN owner : owner[a] \in DOMAIN contexts

CtxHolds(c, w) == c \in DOMAIN clusters /\ w \in WorkersOf(Context(c))

CallWorkers(request) ==
  IF request.name = None THEN WorkersOf(request.ctx) ELSE {request.ctx}

CallHolds(r, w) == requests[r] # None /\ w \in CallWorkers(requests[r])

Up(w) == w \in DOMAIN workers /\ workers[w].up

\* A worker runs as long as somebody holds it, and one cluster or call does.
OneHolder ==
  /\ \A c, d \in Clusters : \A w : CtxHolds(c, w) /\ CtxHolds(d, w) => c = d
  /\ \A r, q \in Requests : \A w : CallHolds(r, w) /\ CallHolds(q, w) => r = q
  /\ \A r \in Requests, c \in Clusters : \A w : ~(CallHolds(r, w) /\ CtxHolds(c, w))
  /\ \A w : Up(w) <=> \/ \E c \in Clusters : CtxHolds(c, w)
                      \/ \E r \in Requests : CallHolds(r, w)

\* A context has a worker of its own for each subsystem.
OwnSlot(ctx) ==
  /\ \A n \in DOMAIN ctx.subs : ctx.subs[n] # ctx.cont
  /\ \A m, n \in DOMAIN ctx.subs : ctx.subs[m] = ctx.subs[n] => m = n

OwnSlots ==
  /\ \A c \in DOMAIN clusters : OwnSlot(Context(c))
  /\ \A r \in Requests : requests[r] # None /\ requests[r].name = None =>
       OwnSlot(requests[r].ctx)

IInv == Shape /\ OneHolder /\ OwnSlots /\ OwnersRegistered

-----------------------------------------------------------------------------

LEMMA NothingIsNone ==
  None \notin Clusters /\ None \notin Names /\ None \notin Nat /\ None # "containment" /\ None \notin Call
BY FluxionAssumption, CallAssumption

\* The partial maps of subsystems.
LEMMA SubsMember ==
  ASSUME NEW f
  PROVE  f \in UNION {[D -> Nat] : D \in SUBSET Names}
           <=> DOMAIN f \subseteq Names /\ f \in [DOMAIN f -> Nat]
<1>1. ASSUME f \in UNION {[D -> Nat] : D \in SUBSET Names}
      PROVE  DOMAIN f \subseteq Names /\ f \in [DOMAIN f -> Nat]
  <2>1. PICK D \in SUBSET Names : f \in [D -> Nat]
    BY <1>1
  <2> QED
    BY <2>1
<1>2. ASSUME DOMAIN f \subseteq Names, f \in [DOMAIN f -> Nat]
      PROVE  f \in UNION {[D -> Nat] : D \in SUBSET Names}
  BY <1>2
<1> QED
  BY <1>1, <1>2

\* close kills exactly the workers it is given.
LEMMA ClosedKills ==
  ASSUME Shape, NEW S
  PROVE  /\ Closed(S) \in Seq(Proc) /\ DOMAIN Closed(S) = DOMAIN workers
         /\ \A w \in DOMAIN workers : Closed(S)[w].up <=> workers[w].up /\ w \notin S
<1>1. workers \in Seq(Proc) /\ DOMAIN workers = 1..Len(workers) /\ Len(workers) \in Nat
  BY DEF Shape
<1>2. DOMAIN Closed(S) = DOMAIN workers
  BY DEF Closed
<1>3. ASSUME NEW w \in DOMAIN workers
      PROVE  Closed(S)[w] \in Proc /\ (Closed(S)[w].up <=> workers[w].up /\ w \notin S)
  <2>1. workers[w] \in Proc
    BY <1>1
  <2>2. CASE w \in S
    <3>1. Closed(S)[w] = [workers[w] EXCEPT !.up = FALSE, !.jobs = {}]
      BY <2>2 DEF Closed
    <3> QED
      BY <2>1, <2>2, <3>1 DEF Proc
  <2>3. CASE w \notin S
    BY <2>1, <2>3 DEF Closed
  <2> QED
    BY <2>2, <2>3
<1>4. Closed(S) \in [1..Len(workers) -> Proc]
  BY <1>1, <1>3 DEF Closed
<1>5. Closed(S) \in Seq(Proc)
  BY <1>1, <1>4
<1> QED
  BY <1>2, <1>3, <1>5

\* New workers come after the ones there are.
LEMMA Appended ==
  ASSUME NEW s \in Seq(Proc), NEW t \in Seq(Proc)
  PROVE  /\ s \o t \in Seq(Proc) /\ Len(s) \in Nat /\ Len(t) \in Nat
         /\ Len(s \o t) = Len(s) + Len(t) /\ DOMAIN (s \o t) = 1..Len(s) + Len(t)
         /\ \A i \in 1..Len(s) : (s \o t)[i] = s[i]
         /\ \A i \in 1..Len(t) : (s \o t)[Len(s) + i] = t[i]
OBVIOUS

\* So do the workers that a step leaves running.
LEMMA ClosedUp ==
  ASSUME Shape, NEW S, workers' = Closed(S)
  PROVE  workers' \in Seq(Proc) /\ \A w : Up(w)' <=> Up(w) /\ w \notin S
BY ClosedKills DEF Up

\* Registered ids have contexts of their own.
LEMMA ContextsApart ==
  ASSUME Shape, NEW c \in DOMAIN clusters, NEW d \in DOMAIN clusters, c # d
  PROVE  clusters[c] # clusters[d]
BY DEF Shape, Context

\* A step that leaves workers, contexts and calls alone.
LEMMA SameHolders ==
  ASSUME IInv, UNCHANGED <<contexts, clusters, requests>>,
         workers' \in Seq(Proc), \A w : Up(w)' <=> Up(w),
         \A a \in DOMAIN owner' : owner'[a] \in DOMAIN contexts /\ contexts[owner'[a]].id \in DOMAIN clusters
  PROVE  IInv'
<1>1. Shape'
  BY DEF IInv, Shape, Context
<1>2. \A c, w : CtxHolds(c, w)' <=> CtxHolds(c, w)
  BY DEF CtxHolds, Context
<1>3. \A r, w : CallHolds(r, w)' <=> CallHolds(r, w)
  BY DEF CallHolds
<1>4. OneHolder'
  BY <1>2, <1>3 DEF IInv, OneHolder
<1>5. OwnSlots' /\ OwnersRegistered'
  BY DEF IInv, OwnSlots, OwnersRegistered, Context
<1> QED
  BY <1>1, <1>4, <1>5 DEF IInv

\* A call is done.
LEMMA DoneType ==
  ASSUME Shape, NEW r \in Requests, Done(r)
  PROVE  /\ requests' \in [Requests -> Call \cup {None}]
         /\ \A q \in Requests : requests'[q] = IF q = r THEN None ELSE requests[q]
BY DEF Shape, Done

\* A call arrives in an empty place.
LEMMA ArriveType ==
  ASSUME Shape, NEW request \in Call, Arrive(request)
  PROVE  \E r \in Requests :
           /\ requests[r] = None
           /\ requests' \in [Requests -> Call \cup {None}]
           /\ \A q \in Requests : requests'[q] = IF q = r THEN request ELSE requests[q]
BY DEF Shape, Arrive

\* A call that has spawned workers holds them, and nobody else does.
LEMMA SpawnStep ==
  ASSUME IInv, NEW request \in Call, NEW new \in Seq(Proc),
         workers' = workers \o new,
         \A i \in 1..Len(new) : new[i].up,
         Arrive(request),
         \A w : w \in CallWorkers(request) <=> w \in Len(workers) + 1..Len(workers) + Len(new),
         request.name = None => /\ request.ctx \in ClusterCtx /\ request.ctx.id = request.cluster
                                /\ OwnSlot(request.ctx),
         request.name # None => request.ctx \in Nat,
         UNCHANGED <<contexts, clusters, owner>>
  PROVE  IInv'
<1>1. PICK r \in Requests :
        /\ requests[r] = None
        /\ requests' \in [Requests -> Call \cup {None}]
        /\ \A q \in Requests : requests'[q] = IF q = r THEN request ELSE requests[q]
  BY ArriveType DEF IInv
<1>2. /\ workers \in Seq(Proc) /\ workers' \in Seq(Proc)
      /\ Len(workers) \in Nat /\ Len(new) \in Nat
      /\ DOMAIN workers = 1..Len(workers)
      /\ DOMAIN workers' = 1..Len(workers) + Len(new)
      /\ \A w \in DOMAIN workers : workers'[w] = workers[w]
      /\ \A i \in 1..Len(new) : workers'[Len(workers) + i] = new[i]
  BY DEF IInv, Shape
<1>3. \A w : Up(w)' <=> Up(w) \/ w \in CallWorkers(request)
  <2>1. ASSUME NEW w \in Len(workers) + 1..Len(workers) + Len(new) PROVE Up(w)'
    <3>1. w - Len(workers) \in 1..Len(new) /\ w = Len(workers) + (w - Len(workers))
      BY <1>2
    <3>2. workers'[w] = new[w - Len(workers)] /\ w \in DOMAIN workers'
      BY <1>2, <3>1
    <3> QED
      BY <3>1, <3>2 DEF Up
  <2>2. ASSUME NEW w, Up(w)', w \notin Len(workers) + 1..Len(workers) + Len(new) PROVE Up(w)
    <3>1. w \in 1..Len(workers) + Len(new)
      BY <1>2, <2>2 DEF Up
    <3>2. w \in DOMAIN workers
      BY <1>2, <2>2, <3>1
    <3> QED
      BY <1>2, <2>2, <3>2 DEF Up
  <2>3. ASSUME NEW w, Up(w) PROVE Up(w)'
    BY <1>2, <2>3 DEF Up
  <2> QED
    BY <2>1, <2>2, <2>3
<1>4. \A w \in CallWorkers(request) : ~Up(w)
  BY <1>2 DEF Up
<1>5. request # None
  BY NothingIsNone
<1>6. \A c, w : CtxHolds(c, w)' <=> CtxHolds(c, w)
  BY DEF CtxHolds, Context
<1>7. \A q \in Requests : \A w :
        CallHolds(q, w)' <=> IF q = r THEN w \in CallWorkers(request) ELSE CallHolds(q, w)
  BY <1>1, <1>5 DEF CallHolds
<1>8. \A w : ~CallHolds(r, w)
  BY <1>1 DEF CallHolds
<1>9. Shape'
  BY <1>1, <1>2 DEF IInv, Shape, Context
<1>10. OneHolder'
  <2>1. \A w : w \in CallWorkers(request) =>
          /\ \A c \in Clusters : ~CtxHolds(c, w)
          /\ \A q \in Requests : ~CallHolds(q, w)
    BY <1>4 DEF IInv, OneHolder
  <2>2. \A s, q \in Requests : \A w : CallHolds(s, w)' /\ CallHolds(q, w)' => s = q
    BY <1>7, <2>1 DEF IInv, OneHolder
  <2>3. \A q \in Requests, c \in Clusters : \A w : ~(CallHolds(q, w)' /\ CtxHolds(c, w)')
    BY <1>6, <1>7, <2>1 DEF IInv, OneHolder
  <2>4. \A w : Up(w)' <=> \/ \E c \in Clusters : CtxHolds(c, w)'
                          \/ \E q \in Requests : CallHolds(q, w)'
    BY <1>3, <1>6, <1>7, <1>8 DEF IInv, OneHolder
  <2>5. \A c, d \in Clusters : \A w : CtxHolds(c, w)' /\ CtxHolds(d, w)' => c = d
    BY <1>6 DEF IInv, OneHolder
  <2> QED
    BY <2>2, <2>3, <2>4, <2>5 DEF OneHolder
<1>11. OwnSlots'
  BY <1>1 DEF IInv, OwnSlots, Context
<1>12. OwnersRegistered'
  BY DEF IInv, OwnersRegistered
<1> QED
  BY <1>9, <1>10, <1>11, <1>12 DEF IInv

\* The order in which a cluster's auxiliary workers are spawned.
LEMMA NamesInOrder ==
  ASSUME NEW D \in SUBSET Names
  PROVE  /\ Cardinality(D) \in Nat /\ SetToSeq(D) \in [1..Cardinality(D) -> D]
         /\ \A i, j \in 1..Cardinality(D) : SetToSeq(D)[i] = SetToSeq(D)[j] => i = j
         /\ \A name \in D : \E i \in 1..Cardinality(D) : SetToSeq(D)[i] = name
<1> DEFINE n == Cardinality(D)
<1> DEFINE f == SetToSeq(D)
<1>1. IsFiniteSet(D)
  BY FluxionAssumption, FS_Subset
<1>2. n \in Nat /\ ExistsBijection(1..n, D)
  BY <1>1, FS_CardinalityType
<1>3. \E g \in [1..n -> D] : IsInjective(g)
  BY <1>2 DEF ExistsBijection, Bijection, Injection, Surjection
<1>4. f \in [1..n -> D] /\ IsInjective(f)
  BY <1>3 DEF SetToSeq
<1>5. IsFiniteSet(1..n) /\ Cardinality(1..n) = n
  <2>1. 1 \in Int /\ n \in Int
    BY <1>2
  <2> QED
    BY <1>2, <2>1, FS_Interval
<1>6. f \in Injection(1..n, D)
  BY <1>4 DEF Injection
<1>7. f \in Surjection(1..n, D)
  BY <1>1, <1>5, <1>6, FS_Injection
<1>8. \A name \in D : \E i \in 1..n : f[i] = name
  BY <1>7 DEF Surjection
<1>9. \A i, j \in 1..n : f[i] = f[j] => i = j
  BY <1>4 DEF IsInjective
<1> QED
  BY <1>2, <1>4, <1>8, <1>9

LEMMA AddClusterSpawnStep ==
  ASSUME IInv, NEW c \in Clusters, NEW descriptive \in BOOLEAN, NEW g \in Graphs \cup {None},
         NEW D \in SUBSET Names, NEW aux \in [D -> Graphs],
         AddClusterSpawn(c, descriptive, g, aux)
  PROVE  IInv'
<1> DEFINE n == Len(workers)
<1> DEFINE cont == IF g = None THEN <<>> ELSE <<Spawned(g)>>
<1> DEFINE names == SetToSeq(DOMAIN aux)
<1> DEFINE k == Cardinality(D)
<1> DEFINE auxiliary == [i \in DOMAIN names |-> Spawned(aux[names[i]])]
<1> DEFINE spawned == cont \o auxiliary
<1> DEFINE ix(name) == CHOOSE i \in DOMAIN names : names[i] = name
<1> DEFINE subs == [name \in DOMAIN aux |-> n + Len(cont) + ix(name)]
<1> DEFINE ctx == [id |-> c, descriptive |-> descriptive,
                   cont |-> IF g = None THEN None ELSE n + 1, subs |-> subs]
<1>15. DOMAIN aux = D
  OBVIOUS
<1>1. /\ k \in Nat /\ names \in [1..k -> D] /\ DOMAIN names = 1..k
      /\ \A i, j \in 1..k : names[i] = names[j] => i = j
      /\ \A name \in D : \E i \in 1..k : names[i] = name
  BY <1>15, NamesInOrder
<1>2. n \in Nat /\ workers \in Seq(Proc) /\ DOMAIN workers = 1..n
  BY DEF IInv, Shape
<1>3. \A room \in Graphs : Spawned(room) \in Proc /\ Spawned(room).up
  BY FluxionAssumption DEF Spawned, Proc
<1>4. /\ cont \in Seq(Proc) /\ Len(cont) = (IF g = None THEN 0 ELSE 1)
      /\ \A i \in 1..Len(cont) : cont[i].up
  BY <1>3
<1>5. /\ auxiliary \in Seq(Proc) /\ Len(auxiliary) = k
      /\ \A i \in 1..k : auxiliary[i].up
  <2>1. \A i \in 1..k : auxiliary[i] \in Proc /\ auxiliary[i].up
    BY <1>1, <1>3
  <2>2. auxiliary \in [1..k -> Proc]
    BY <1>1, <2>1
  <2> QED
    BY <1>1, <2>1, <2>2
<1> HIDE DEF auxiliary
<1>6. /\ spawned \in Seq(Proc) /\ Len(spawned) = Len(cont) + k
      /\ \A i \in 1..Len(spawned) : spawned[i].up
  <2> HIDE DEF cont
  <2>1. /\ spawned \in Seq(Proc) /\ Len(spawned) = Len(cont) + k /\ Len(cont) \in Nat
        /\ \A i \in 1..Len(cont) : spawned[i] = cont[i]
        /\ \A i \in 1..k : spawned[Len(cont) + i] = auxiliary[i]
    <3> HIDE DEF k, names
    <3> QED
      BY <1>4, <1>5, Appended
  <2> HIDE DEF spawned, k
  <2>2. ASSUME NEW i \in 1..Len(spawned) PROVE spawned[i].up
    <3>1. CASE i <= Len(cont)
      BY <1>4, <1>5, <2>1, <3>1
    <3>2. CASE i > Len(cont)
      <4>1. i - Len(cont) \in 1..k
        BY <1>1, <2>1, <3>2
      <4>2. spawned[i] = auxiliary[i - Len(cont)]
        <5>1. i = Len(cont) + (i - Len(cont))
          BY <1>1, <2>1
        <5> QED
          BY <2>1, <4>1, <5>1
      <4> QED
        BY <1>5, <4>1, <4>2
    <3> QED
      BY <2>1, <3>1, <3>2
  <2> QED
    BY <2>1, <2>2
<1>7. \A name \in D : ix(name) \in 1..k /\ names[ix(name)] = name
  BY <1>1
<1>8. \A i \in 1..k : names[i] \in D /\ ix(names[i]) = i
  <2> SUFFICES ASSUME NEW i \in 1..k PROVE names[i] \in D /\ ix(names[i]) = i
    OBVIOUS
  <2>1. names[i] \in D
    BY <1>1
  <2>2. ix(names[i]) \in 1..k /\ names[ix(names[i])] = names[i]
    BY <1>7, <2>1
  <2> HIDE DEF ix, names
  <2> QED
    BY <1>1, <2>1, <2>2
<1> DEFINE m == Len(cont)
<1>9. m \in Nat /\ (g = None => m = 0) /\ (g # None => m = 1) /\ Len(spawned) = m + k
  BY <1>4, <1>6
<1> HIDE DEF ix, spawned, m
<1>10. /\ subs \in [D -> Nat] /\ \A name \in D : subs[name] = n + m + ix(name)
  BY <1>2, <1>7, <1>9, <1>15 DEF m
<1> HIDE DEF subs, n, k, cont, names
<1>11. ctx \in ClusterCtx /\ ctx.subs = subs /\ DOMAIN subs = D
  <2>1. subs \in UNION {[E -> Nat] : E \in SUBSET Names}
    BY <1>10
  <2>2. (IF g = None THEN None ELSE n + 1) \in Nat \cup {None}
    BY <1>2
  <2> QED
    BY <1>10, <2>1, <2>2 DEF ClusterCtx
<1>12. OwnSlot(ctx)
  <2>1. ASSUME NEW name \in D PROVE subs[name] # ctx.cont
    <3>1. subs[name] \in Nat
      BY <1>10
    <3>2. CASE g = None
      BY <3>1, <3>2, NothingIsNone
    <3>3. CASE g # None
      <4>1. ctx.cont = n + 1 /\ m = 1
        BY <1>9, <3>3
      <4>2. subs[name] = n + m + ix(name) /\ ix(name) \in 1..k
        BY <1>7, <1>10
      <4> HIDE DEF ctx
      <4> QED
        BY <1>1, <1>2, <4>1, <4>2
    <3> QED
      BY <3>2, <3>3
  <2>2. ASSUME NEW a \in D, NEW b \in D, subs[a] = subs[b] PROVE a = b
    <3>1. ix(a) = ix(b)
      BY <1>1, <1>2, <1>7, <1>9, <1>10, <2>2
    <3> QED
      BY <1>7, <3>1
  <2> QED
    BY <1>11, <2>1, <2>2 DEF OwnSlot
<1> DEFINE request == [cluster |-> c, name |-> None, ctx |-> ctx]
<1>13. request \in Call /\ CallWorkers(request) = WorkersOf(ctx)
  <2> HIDE DEF ctx
  <2> QED
    BY <1>11 DEF Call, CallWorkers
<1>14. \A w : w \in WorkersOf(ctx) <=> w \in n + 1..n + Len(spawned)
  <2>1. ASSUME NEW w \in WorkersOf(ctx) PROVE w \in n + 1..n + Len(spawned)
    <3>1. CASE w = ctx.cont
      <4>1. g # None
        BY <2>1, <3>1 DEF WorkersOf
      <4>2. w = n + 1 /\ m = 1
        BY <1>9, <3>1, <4>1
      <4> QED
        BY <1>1, <1>2, <1>9, <4>2
    <3>2. CASE \E name \in D : w = subs[name]
      BY <1>1, <1>2, <1>7, <1>9, <1>10, <3>2
    <3> QED
      BY <1>11, <2>1, <3>1, <3>2 DEF WorkersOf
  <2>2. ASSUME NEW w \in n + 1..n + Len(spawned) PROVE w \in WorkersOf(ctx)
    <3>1. w # None
      BY <1>1, <1>2, <1>9, NothingIsNone
    <3>2. CASE g # None /\ w = n + 1
      BY <3>1, <3>2 DEF WorkersOf
    <3>3. CASE ~(g # None /\ w = n + 1)
      <4>1. w - n - m \in 1..k /\ w = n + m + (w - n - m)
        BY <1>1, <1>2, <1>9, <3>3
      <4>2. names[w - n - m] \in D /\ ix(names[w - n - m]) = w - n - m
        BY <1>8, <4>1
      <4>3. w = subs[names[w - n - m]]
        BY <1>10, <4>1, <4>2
      <4> QED
        BY <1>11, <3>1, <4>2, <4>3 DEF WorkersOf
    <3> QED
      BY <3>2, <3>3
  <2> QED
    BY <2>1, <2>2
<1>16. /\ UNCHANGED <<contexts, clusters, order, owner, grants>>
       /\ \/ workers' = workers \o spawned /\ Arrive(request)
          \/ /\ \E l \in 0..(Len(spawned) - 1) :
                   workers' = workers \o [i \in 1..l |-> [spawned[i] EXCEPT !.up = FALSE]]
             /\ UNCHANGED requests
  BY DEF AddClusterSpawn, n, cont, names, auxiliary, spawned, ix, subs
<1> HIDE DEF ctx
<1>17. CASE workers' = workers \o spawned /\ Arrive(request)
  <2>1. request.name = None /\ request.ctx = ctx /\ request.cluster = c
    OBVIOUS
  <2>2. ctx.id = c
    BY DEF ctx
  <2> HIDE DEF request
  <2> QED
    BY <1>6, <1>11, <1>12, <1>13, <1>14, <1>16, <1>17, <2>1, <2>2, SpawnStep DEF n
<1>18. ASSUME NEW l \in 0..(Len(spawned) - 1), UNCHANGED requests,
              workers' = workers \o [i \in 1..l |-> [spawned[i] EXCEPT !.up = FALSE]]
       PROVE IInv'
  <2> DEFINE dead == [i \in 1..l |-> [spawned[i] EXCEPT !.up = FALSE]]
  <2>1. l \in Nat /\ l < Len(spawned)
    BY <1>6, <1>1, <1>9
  <2>2. \A i \in 1..l : dead[i] \in Proc /\ ~dead[i].up
    <3> SUFFICES ASSUME NEW i \in 1..l PROVE dead[i] \in Proc /\ ~dead[i].up
      OBVIOUS
    <3>1. spawned[i] \in Proc
      BY <1>6, <2>1
    <3> QED
      BY <3>1 DEF Proc
  <2>3. dead \in Seq(Proc) /\ Len(dead) = l
    <3>1. dead \in [1..l -> Proc]
      BY <2>2
    <3> QED
      BY <2>1, <3>1
  <2>4. workers' = workers \o dead
    BY <1>18
  <2> HIDE DEF dead
  <2>5. /\ workers' \in Seq(Proc) /\ DOMAIN workers' = 1..n + l
        /\ \A w \in 1..n : workers'[w] = workers[w]
        /\ \A i \in 1..l : workers'[n + i] = dead[i]
    BY <1>2, <2>3, <2>4, Appended DEF n
  <2>6. ASSUME NEW w, Up(w)' PROVE Up(w)
    <3>1. w \in 1..n + l /\ workers'[w].up
      BY <2>5, <2>6 DEF Up
    <3>2. CASE w \in 1..n
      BY <1>2, <2>5, <3>1, <3>2 DEF Up
    <3>3. CASE w \notin 1..n
      <4>1. w - n \in 1..l /\ w = n + (w - n)
        BY <1>2, <2>1, <3>1, <3>3
      <4> QED
        BY <2>2, <2>5, <3>1, <4>1
    <3> QED
      BY <3>2, <3>3
  <2>7. ASSUME NEW w, Up(w) PROVE Up(w)'
    BY <1>2, <2>1, <2>5, <2>7 DEF Up
  <2>8. \A a \in DOMAIN owner' :
          owner'[a] \in DOMAIN contexts /\ contexts[owner'[a]].id \in DOMAIN clusters
    BY <1>16 DEF IInv, Shape, OwnersRegistered
  <2> QED
    BY <1>16, <1>18, <2>5, <2>6, <2>7, <2>8, SameHolders
<1> QED
  BY <1>16, <1>17, <1>18

LEMMA AddSubsystemSpawnStep ==
  ASSUME IInv, NEW c \in Clusters, NEW name \in Names \cup {"containment"}, NEW g \in Graphs,
         AddSubsystemSpawn(c, name, g)
  PROVE  IInv'
<1> DEFINE new == <<Spawned(g)>>
<1> DEFINE n == Len(workers)
<1> DEFINE request == [cluster |-> c, name |-> name, ctx |-> n + 1]
<1>1. n \in Nat /\ workers \in Seq(Proc)
  BY DEF IInv, Shape
<1>2. Spawned(g) \in Proc /\ Spawned(g).up
  BY FluxionAssumption DEF Spawned, Proc
<1>3. new \in Seq(Proc) /\ Len(new) = 1 /\ \A i \in 1..Len(new) : new[i].up
  BY <1>2
<1>4. workers' = workers \o new
  BY <1>1, <1>2 DEF AddSubsystemSpawn
<1>5. /\ request \in Call /\ request.name # None /\ request.ctx \in Nat
      /\ CallWorkers(request) = {n + 1}
  BY <1>1, NothingIsNone DEF Call, CallWorkers
<1>6. Arrive(request) /\ UNCHANGED <<contexts, clusters, owner>>
  BY DEF AddSubsystemSpawn
<1>7. \A w : w \in CallWorkers(request) <=> w \in n + 1..n + Len(new)
  BY <1>1, <1>3, <1>5
<1> HIDE DEF request, new
<1> QED
  BY <1>3, <1>4, <1>5, <1>6, <1>7, SpawnStep

-----------------------------------------------------------------------------

\* Workers S are closed, and those of N go from a call to cluster c.
LEMMA Handover ==
  ASSUME OneHolder, NEW c \in Clusters, NEW S, NEW N,
         \A d \in Clusters : \A w :
           CtxHolds(d, w)' <=> (CtxHolds(d, w) /\ w \notin S) \/ (d = c /\ w \in N),
         \A q \in Requests : \A w : CallHolds(q, w)' <=> CallHolds(q, w) /\ w \notin S /\ w \notin N,
         \A w : Up(w)' <=> Up(w) /\ w \notin S,
         \A w \in N : w \notin S /\ \E q \in Requests : CallHolds(q, w)
  PROVE  OneHolder'
<1>1. \A w \in N : Up(w) /\ \A d \in Clusters : ~CtxHolds(d, w)
  BY DEF OneHolder
<1>2. \A d, e \in Clusters : \A w : CtxHolds(d, w)' /\ CtxHolds(e, w)' => d = e
  BY <1>1 DEF OneHolder
<1>3. \A q, s \in Requests : \A w : CallHolds(q, w)' /\ CallHolds(s, w)' => q = s
  BY DEF OneHolder
<1>4. \A q \in Requests, d \in Clusters : \A w : ~(CallHolds(q, w)' /\ CtxHolds(d, w)')
  BY DEF OneHolder
<1>5. ASSUME NEW w
      PROVE  Up(w)' <=> \/ \E d \in Clusters : CtxHolds(d, w)'
                        \/ \E q \in Requests : CallHolds(q, w)'
  <2>1. Up(w) <=> \/ \E d \in Clusters : CtxHolds(d, w)
                  \/ \E q \in Requests : CallHolds(q, w)
    BY DEF OneHolder
  <2>2. CASE w \in N
    BY <1>1, <2>2
  <2>3. CASE w \notin N
    BY <2>1, <2>3
  <2> QED
    BY <2>2, <2>3
<1> QED
  BY <1>2, <1>3, <1>4, <1>5 DEF OneHolder

\* What a call holds, as long as it is not done.
LEMMA DoneHolds ==
  ASSUME Shape, NEW r \in Requests, Done(r)
  PROVE  \A q \in Requests : \A w : CallHolds(q, w)' <=> q # r /\ CallHolds(q, w)
BY DoneType DEF CallHolds

LEMMA AddClusterCommitStep ==
  ASSUME IInv, NEW r \in Requests, AddClusterCommit(r)
  PROVE  IInv'
<1> DEFINE request == requests[r]
<1> DEFINE c == request.cluster
<1> DEFINE S == IF c \in DOMAIN clusters THEN WorkersOf(Context(c)) ELSE {}
<1>1. /\ request # None /\ request.name = None
      /\ contexts' = Append(contexts, request.ctx)
      /\ clusters' = Put(clusters, c, Len(contexts) + 1)
      /\ c \in DOMAIN clusters => workers' = Closed(WorkersOf(Context(c)))
      /\ c \notin DOMAIN clusters => workers' = workers
      /\ Done(r) /\ owner' = owner
  BY DEF AddClusterCommit
<1>2. request.ctx \in ClusterCtx /\ request.ctx.id = c /\ OwnSlot(request.ctx) /\ c \in Clusters
  BY <1>1 DEF IInv, Shape, OwnSlots, Call
<1>3. workers' \in Seq(Proc) /\ \A w : Up(w)' <=> Up(w) /\ w \notin S
  BY <1>1, ClosedUp DEF IInv, Shape, Up
<1>4. /\ contexts \in Seq(ClusterCtx) /\ contexts' \in Seq(ClusterCtx)
      /\ DOMAIN contexts \subseteq DOMAIN contexts' /\ Len(contexts) + 1 \in DOMAIN contexts'
      /\ \A i \in DOMAIN contexts : contexts'[i] = contexts[i]
      /\ contexts'[Len(contexts) + 1] = request.ctx
  BY <1>1, <1>2 DEF IInv, Shape
<1>5. /\ DOMAIN clusters' = DOMAIN clusters \cup {c}
      /\ \A d \in DOMAIN clusters' :
           clusters'[d] = IF d = c THEN Len(contexts) + 1 ELSE clusters[d]
  BY <1>1 DEF Put
<1> HIDE DEF c, request
<1>6. \A d \in DOMAIN clusters' :
        Context(d)' = IF d = c THEN request.ctx ELSE Context(d)
  BY <1>4, <1>5 DEF IInv, Shape, Context
<1>7. Shape'
  <2>1. /\ requests' \in [Requests -> Call \cup {None}]
        /\ \A q \in Requests : requests'[q] = IF q = r THEN None ELSE requests[q]
    BY <1>1, DoneType DEF IInv
  <2>2. \A q \in Requests : requests'[q] # None =>
          /\ requests'[q].name = None => /\ requests'[q].ctx \in ClusterCtx
                                         /\ requests'[q].ctx.id = requests'[q].cluster
          /\ requests'[q].name # None => requests'[q].ctx \in Nat
    BY <2>1 DEF IInv, Shape
  <2>3. \A d \in DOMAIN clusters' :
          d \in Clusters /\ clusters'[d] \in DOMAIN contexts' /\ Context(d)'.id = d
    BY <1>2, <1>4, <1>5, <1>6 DEF IInv, Shape
  <2>4. \A a \in DOMAIN owner' : owner'[a] \in DOMAIN contexts'
    BY <1>1, <1>4 DEF IInv, Shape
  <2> QED
    BY <1>3, <1>4, <2>1, <2>2, <2>3, <2>4 DEF Shape
<1>8. OneHolder'
  <2> DEFINE N == WorkersOf(request.ctx)
  <2>1. \A w : CallHolds(r, w) <=> w \in N
    BY <1>1 DEF CallHolds, CallWorkers, request
  <2>2. \A q \in Requests : \A w : CallHolds(q, w)' <=> q # r /\ CallHolds(q, w)
    BY <1>1, DoneHolds DEF IInv
  <2>3. \A w : w \in S <=> CtxHolds(c, w)
    BY DEF CtxHolds
  <2>4. \A d \in Clusters : \A w :
          CtxHolds(d, w)' <=> IF d = c THEN w \in N ELSE CtxHolds(d, w)
    BY <1>5, <1>6 DEF CtxHolds
  <2> HIDE DEF N, S
  <2>5. \A d \in Clusters : \A w :
          CtxHolds(d, w)' <=> (CtxHolds(d, w) /\ w \notin S) \/ (d = c /\ w \in N)
    BY <1>2, <2>3, <2>4 DEF IInv, OneHolder
  <2>6. \A q \in Requests : \A w :
          CallHolds(q, w)' <=> CallHolds(q, w) /\ w \notin S /\ w \notin N
    BY <1>2, <2>1, <2>2, <2>3 DEF IInv, OneHolder
  <2>7. \A w \in N : w \notin S /\ \E q \in Requests : CallHolds(q, w)
    BY <1>2, <2>1, <2>3 DEF IInv, OneHolder
  <2> QED
    BY <1>2, <1>3, <2>5, <2>6, <2>7, Handover DEF IInv
<1>9. OwnSlots'
  <2>1. \A d \in DOMAIN clusters' : OwnSlot(Context(d)')
    BY <1>2, <1>5, <1>6 DEF IInv, OwnSlots
  <2>2. \A q \in Requests : requests'[q] # None /\ requests'[q].name = None =>
          OwnSlot(requests'[q].ctx)
    BY <1>1, DoneType DEF IInv, OwnSlots
  <2> QED
    BY <2>1, <2>2 DEF OwnSlots, OwnSlot
<1>10. OwnersRegistered'
  BY <1>1, <1>4, <1>5 DEF IInv, Shape, OwnersRegistered
<1> QED
  BY <1>7, <1>8, <1>9, <1>10 DEF IInv

LEMMA RemoveClusterStep ==
  ASSUME IInv, NEW c \in Clusters, RemoveCluster(c)
  PROVE  IInv'
<1> DEFINE S == IF c \in DOMAIN clusters THEN WorkersOf(Context(c)) ELSE {}
<1>1. /\ c \in DOMAIN clusters => workers' = Closed(WorkersOf(Context(c)))
      /\ c \notin DOMAIN clusters => workers' = workers
      /\ DOMAIN clusters' = DOMAIN clusters \ {c}
      /\ \A d \in DOMAIN clusters' : clusters'[d] = clusters[d]
      /\ contexts' = contexts /\ requests' = requests
  BY DEF RemoveCluster, Drop
<1>2. /\ DOMAIN owner' \subseteq DOMAIN owner
      /\ \A a \in DOMAIN owner' : owner'[a] = owner[a] /\ contexts[owner[a]].id # c
  BY DEF RemoveCluster, Drop
<1>3. workers' \in Seq(Proc) /\ \A w : Up(w)' <=> Up(w) /\ w \notin S
  BY <1>1, ClosedUp DEF IInv, Shape, Up
<1>4. \A d \in DOMAIN clusters' : d \in DOMAIN clusters /\ d # c /\ Context(d)' = Context(d)
  BY <1>1 DEF Context
<1>5. Shape'
  <2>1. \A d \in DOMAIN clusters' :
          d \in Clusters /\ clusters'[d] \in DOMAIN contexts' /\ Context(d)'.id = d
    BY <1>1, <1>4 DEF IInv, Shape
  <2>2. \A a \in DOMAIN owner' : owner'[a] \in DOMAIN contexts'
    BY <1>1, <1>2 DEF IInv, Shape
  <2> QED
    BY <1>1, <1>3, <2>1, <2>2 DEF IInv, Shape
<1>6. OneHolder'
  <2>1. \A w : w \in S <=> CtxHolds(c, w)
    BY DEF CtxHolds
  <2>2. \A d \in Clusters : \A w : CtxHolds(d, w)' <=> d # c /\ CtxHolds(d, w)
    BY <1>1, <1>4 DEF CtxHolds
  <2>3. \A q \in Requests : \A w : CallHolds(q, w)' <=> CallHolds(q, w)
    BY <1>1 DEF CallHolds
  <2> DEFINE N == {}
  <2> HIDE DEF S
  <2>4. \A d \in Clusters : \A w :
          CtxHolds(d, w)' <=> (CtxHolds(d, w) /\ w \notin S) \/ (d = c /\ w \in N)
    BY <2>1, <2>2 DEF IInv, OneHolder
  <2>5. \A q \in Requests : \A w :
          CallHolds(q, w)' <=> CallHolds(q, w) /\ w \notin S /\ w \notin N
    BY <2>1, <2>3 DEF IInv, OneHolder
  <2>6. \A w \in N : w \notin S /\ \E q \in Requests : CallHolds(q, w)
    OBVIOUS
  <2> HIDE DEF N
  <2> QED
    BY <1>3, <2>4, <2>5, <2>6, Handover DEF IInv
<1>7. OwnSlots'
  BY <1>1, <1>4 DEF IInv, OwnSlots, OwnSlot
<1>8. OwnersRegistered'
  BY <1>1, <1>2 DEF IInv, OwnersRegistered
<1> QED
  BY <1>5, <1>6, <1>7, <1>8 DEF IInv

\* A context of a registered cluster is changed in place.
LEMMA ContextChanged ==
  ASSUME Shape, NEW c \in DOMAIN clusters, NEW ctx \in ClusterCtx, ctx.id = c,
         contexts' = [contexts EXCEPT ![clusters[c]] = ctx], UNCHANGED clusters
  PROVE  /\ contexts' \in Seq(ClusterCtx) /\ DOMAIN contexts' = DOMAIN contexts
         /\ \A i \in DOMAIN contexts : contexts'[i].id = contexts[i].id
         /\ \A d \in DOMAIN clusters : Context(d)' = IF d = c THEN ctx ELSE Context(d)
<1>1. /\ contexts \in Seq(ClusterCtx) /\ clusters[c] \in DOMAIN contexts
      /\ contexts[clusters[c]].id = c
  BY DEF Shape, Context
<1>2. contexts' \in Seq(ClusterCtx) /\ DOMAIN contexts' = DOMAIN contexts
  BY <1>1
<1>3. \A i \in DOMAIN contexts : contexts'[i] = IF i = clusters[c] THEN ctx ELSE contexts[i]
  BY <1>1
<1>4. \A i \in DOMAIN contexts : contexts'[i].id = contexts[i].id
  BY <1>1, <1>3
<1>5. ASSUME NEW d \in DOMAIN clusters
      PROVE  Context(d)' = IF d = c THEN ctx ELSE Context(d)
  <2>1. clusters[d] \in DOMAIN contexts /\ (d # c => clusters[d] # clusters[c])
    BY ContextsApart DEF Shape
  <2> QED
    BY <1>3, <2>1 DEF Context
<1> QED
  BY <1>2, <1>4, <1>5

\* A subsystem's worker is replaced or removed: S are closed, N installed.
LEMMA SubsystemStep ==
  ASSUME IInv, NEW c \in DOMAIN clusters, NEW ctx \in ClusterCtx, ctx.id = c, OwnSlot(ctx),
         NEW S, NEW N,
         contexts' = [contexts EXCEPT ![clusters[c]] = ctx],
         workers' = Closed(S),
         \A w \in S : CtxHolds(c, w),
         \A w : w \in WorkersOf(ctx) <=> (CtxHolds(c, w) /\ w \notin S) \/ w \in N,
         \A w \in N : \E q \in Requests : CallHolds(q, w),
         \A q \in Requests : \A w : CallHolds(q, w)' <=> CallHolds(q, w) /\ w \notin N,
         requests' \in [Requests -> Call \cup {None}],
         \A q \in Requests : requests'[q] # None => requests'[q] = requests[q],
         UNCHANGED <<clusters, owner>>
  PROVE  IInv'
<1>1. c \in Clusters
  BY DEF IInv, Shape
<1>2. workers' \in Seq(Proc) /\ \A w : Up(w)' <=> Up(w) /\ w \notin S
  BY ClosedUp DEF IInv
<1>3. /\ contexts' \in Seq(ClusterCtx) /\ DOMAIN contexts' = DOMAIN contexts
      /\ \A i \in DOMAIN contexts : contexts'[i].id = contexts[i].id
      /\ \A d \in DOMAIN clusters : Context(d)' = IF d = c THEN ctx ELSE Context(d)
  BY ContextChanged DEF IInv
<1>4. Shape'
  <2>1. \A d \in DOMAIN clusters' :
          d \in Clusters /\ clusters'[d] \in DOMAIN contexts' /\ Context(d)'.id = d
    BY <1>3 DEF IInv, Shape
  <2>2. \A a \in DOMAIN owner' : owner'[a] \in DOMAIN contexts'
    BY <1>3 DEF IInv, Shape
  <2>3. \A q \in Requests : requests'[q] # None =>
          /\ requests'[q].name = None => /\ requests'[q].ctx \in ClusterCtx
                                         /\ requests'[q].ctx.id = requests'[q].cluster
          /\ requests'[q].name # None => requests'[q].ctx \in Nat
    BY DEF IInv, Shape
  <2> QED
    BY <1>2, <1>3, <2>1, <2>2, <2>3 DEF Shape
<1>5. OneHolder'
  <2>1. \A d \in Clusters : \A w :
          CtxHolds(d, w)' <=> IF d = c THEN w \in WorkersOf(ctx) ELSE CtxHolds(d, w)
    BY <1>3 DEF CtxHolds
  <2>2. \A d \in Clusters : \A w :
          CtxHolds(d, w)' <=> (CtxHolds(d, w) /\ w \notin S) \/ (d = c /\ w \in N)
    BY <1>1, <2>1 DEF IInv, OneHolder
  <2>3. \A q \in Requests : \A w :
          CallHolds(q, w)' <=> CallHolds(q, w) /\ w \notin S /\ w \notin N
    BY <1>1 DEF IInv, OneHolder
  <2>4. \A w \in N : w \notin S /\ \E q \in Requests : CallHolds(q, w)
    BY <1>1 DEF IInv, OneHolder
  <2>5. OneHolder /\ \A w : Up(w)' <=> Up(w) /\ w \notin S
    BY <1>2 DEF IInv
  <2> QED
    BY ONLY <1>1, <2>2, <2>3, <2>4, <2>5, Handover
<1>6. OwnSlots'
  <2>1. \A d \in DOMAIN clusters' : OwnSlot(Context(d)')
    BY <1>3 DEF IInv, OwnSlots
  <2>2. \A q \in Requests : requests'[q] # None /\ requests'[q].name = None =>
          OwnSlot(requests'[q].ctx)
    BY DEF IInv, OwnSlots
  <2> QED
    BY <2>1, <2>2 DEF OwnSlots, OwnSlot
<1>7. OwnersRegistered'
  BY <1>3 DEF IInv, Shape, OwnersRegistered
<1> QED
  BY <1>4, <1>5, <1>6, <1>7 DEF IInv

\* The contexts the two operations on subsystems make.
LEMMA ContextUpdates ==
  ASSUME NEW ctx \in ClusterCtx, OwnSlot(ctx)
  PROVE  /\ \A n \in DOMAIN ctx.subs : ctx.subs[n] \in Nat
         /\ \A w \in Nat \cup {None} : w \notin WorkersOf(ctx) =>
              LET new == [ctx EXCEPT !.cont = w]
              IN /\ new \in ClusterCtx /\ new.id = ctx.id /\ OwnSlot(new)
                 /\ \A v : v \in WorkersOf(new) <=>
                      (v \in WorkersOf(ctx) /\ v \notin {ctx.cont} \ {None}) \/ v \in {w} \ {None}
         /\ \A w \in Nat, name \in Names : w \notin WorkersOf(ctx) =>
              LET new == [ctx EXCEPT !.subs = Put(@, name, w)]
              IN /\ new \in ClusterCtx /\ new.id = ctx.id /\ OwnSlot(new)
                 /\ \A v : v \in WorkersOf(new) <=>
                      \/ v \in WorkersOf(ctx) /\ v \notin {ctx.subs[n] : n \in DOMAIN ctx.subs \cap {name}}
                      \/ v \in {w}
         /\ \A name \in DOMAIN ctx.subs :
              LET new == [ctx EXCEPT !.subs = Drop(@, {name})]
              IN /\ new \in ClusterCtx /\ new.id = ctx.id /\ OwnSlot(new)
                 /\ \A v : v \in WorkersOf(new) <=>
                      v \in WorkersOf(ctx) /\ v \notin {ctx.subs[name]}
<1>1. /\ DOMAIN ctx.subs \subseteq Names /\ ctx.subs \in [DOMAIN ctx.subs -> Nat]
      /\ ctx.cont \in Nat \cup {None}
      /\ ctx = [id |-> ctx.id, descriptive |-> ctx.descriptive, cont |-> ctx.cont, subs |-> ctx.subs]
      /\ ctx.id \in Clusters /\ ctx.descriptive \in BOOLEAN
  BY SubsMember DEF ClusterCtx
<1>2. \A n \in DOMAIN ctx.subs :
        ctx.subs[n] \in Nat /\ ctx.subs[n] # None /\ ctx.subs[n] \in WorkersOf(ctx)
  BY <1>1, NothingIsNone DEF WorkersOf
<1>3. ASSUME NEW w \in Nat \cup {None}, w \notin WorkersOf(ctx)
      PROVE  LET new == [ctx EXCEPT !.cont = w]
             IN /\ new \in ClusterCtx /\ new.id = ctx.id /\ OwnSlot(new)
                /\ \A v : v \in WorkersOf(new) <=>
                     (v \in WorkersOf(ctx) /\ v \notin {ctx.cont} \ {None}) \/ v \in {w} \ {None}
  <2> DEFINE new == [ctx EXCEPT !.cont = w]
  <2>1. new \in ClusterCtx /\ new.id = ctx.id /\ new.cont = w /\ new.subs = ctx.subs
    BY DEF ClusterCtx
  <2> HIDE DEF new
  <2>2. OwnSlot(new)
    BY <1>2, <1>3, <2>1 DEF OwnSlot
  <2>3. ASSUME NEW v
        PROVE  v \in WorkersOf(new) <=>
                 (v \in WorkersOf(ctx) /\ v \notin {ctx.cont} \ {None}) \/ v \in {w} \ {None}
    BY <1>2, <2>1 DEF WorkersOf, OwnSlot
  <2> QED
    BY <2>1, <2>2, <2>3 DEF new
<1>4. ASSUME NEW w \in Nat, NEW name \in Names, w \notin WorkersOf(ctx)
      PROVE  LET new == [ctx EXCEPT !.subs = Put(@, name, w)]
             IN /\ new \in ClusterCtx /\ new.id = ctx.id /\ OwnSlot(new)
                /\ \A v : v \in WorkersOf(new) <=>
                     \/ v \in WorkersOf(ctx) /\ v \notin {ctx.subs[n] : n \in DOMAIN ctx.subs \cap {name}}
                     \/ v \in {w}
  <2> DEFINE new == [ctx EXCEPT !.subs = Put(@, name, w)]
  <2> DEFINE subs == Put(ctx.subs, name, w)
  <2>1. /\ DOMAIN subs = DOMAIN ctx.subs \cup {name} /\ subs \in [DOMAIN subs -> Nat]
        /\ \A n \in DOMAIN subs : subs[n] = IF n = name THEN w ELSE ctx.subs[n]
    BY <1>1 DEF Put
  <2> HIDE DEF subs
  <2>2. subs \in UNION {[D -> Nat] : D \in SUBSET Names}
    BY <1>1, <2>1, SubsMember
  <2>3. new \in ClusterCtx /\ new.id = ctx.id /\ new.cont = ctx.cont /\ new.subs = subs
    <3>1. new = [id |-> ctx.id, descriptive |-> ctx.descriptive, cont |-> ctx.cont, subs |-> subs]
      BY <1>1 DEF subs
    <3> HIDE DEF new
    <3> QED
      BY <1>1, <2>2, <3>1 DEF ClusterCtx
  <2> HIDE DEF new
  <2>4. w # ctx.cont /\ w # None /\ \A n \in DOMAIN ctx.subs : ctx.subs[n] # w
    BY <1>2, <1>4, NothingIsNone DEF WorkersOf
  <2>5. OwnSlot(new)
    BY <2>1, <2>3, <2>4 DEF OwnSlot
  <2>6. ASSUME NEW v
        PROVE  v \in WorkersOf(new) <=>
                 \/ v \in WorkersOf(ctx) /\ v \notin {ctx.subs[n] : n \in DOMAIN ctx.subs \cap {name}}
                 \/ v \in {w}
    <3>1. v \in WorkersOf(new) <=>
            v # None /\ (v = ctx.cont \/ \E n \in DOMAIN subs : v = subs[n])
      BY <2>3 DEF WorkersOf
    <3>2. v \in WorkersOf(ctx) <=>
            v # None /\ (v = ctx.cont \/ \E n \in DOMAIN ctx.subs : v = ctx.subs[n])
      BY DEF WorkersOf
    <3>3. v \in {ctx.subs[n] : n \in DOMAIN ctx.subs \cap {name}} <=>
            name \in DOMAIN ctx.subs /\ v = ctx.subs[name]
      OBVIOUS
    <3>4. \A m, n \in DOMAIN ctx.subs : ctx.subs[m] = ctx.subs[n] => m = n
      BY DEF OwnSlot
    <3>5. \A n \in DOMAIN ctx.subs : ctx.subs[n] # ctx.cont
      BY DEF OwnSlot
    <3> QED
      BY <2>1, <2>4, <3>1, <3>2, <3>3, <3>4, <3>5
  <2> QED
    BY <2>3, <2>5, <2>6 DEF new
<1>5. ASSUME NEW name \in DOMAIN ctx.subs
      PROVE  LET new == [ctx EXCEPT !.subs = Drop(@, {name})]
             IN /\ new \in ClusterCtx /\ new.id = ctx.id /\ OwnSlot(new)
                /\ \A v : v \in WorkersOf(new) <=>
                     v \in WorkersOf(ctx) /\ v \notin {ctx.subs[name]}
  <2> DEFINE new == [ctx EXCEPT !.subs = Drop(@, {name})]
  <2> DEFINE subs == Drop(ctx.subs, {name})
  <2>1. /\ DOMAIN subs = DOMAIN ctx.subs \ {name} /\ subs \in [DOMAIN subs -> Nat]
        /\ \A n \in DOMAIN subs : subs[n] = ctx.subs[n]
    BY <1>1 DEF Drop
  <2> HIDE DEF subs
  <2>2. subs \in UNION {[D -> Nat] : D \in SUBSET Names}
    BY <1>1, <2>1, SubsMember
  <2>3. new \in ClusterCtx /\ new.id = ctx.id /\ new.cont = ctx.cont /\ new.subs = subs
    <3>1. new = [id |-> ctx.id, descriptive |-> ctx.descriptive, cont |-> ctx.cont, subs |-> subs]
      BY <1>1 DEF subs
    <3> HIDE DEF new
    <3> QED
      BY <1>1, <2>2, <3>1 DEF ClusterCtx
  <2> HIDE DEF new
  <2>4. OwnSlot(new)
    BY <2>1, <2>3 DEF OwnSlot
  <2>5. ASSUME NEW v
        PROVE  v \in WorkersOf(new) <=> v \in WorkersOf(ctx) /\ v \notin {ctx.subs[name]}
    <3>1. v \in WorkersOf(new) <=>
            v # None /\ (v = ctx.cont \/ \E n \in DOMAIN subs : v = subs[n])
      BY <2>3 DEF WorkersOf
    <3>2. v \in WorkersOf(ctx) <=>
            v # None /\ (v = ctx.cont \/ \E n \in DOMAIN ctx.subs : v = ctx.subs[n])
      BY DEF WorkersOf
    <3>3. /\ \A m, n \in DOMAIN ctx.subs : ctx.subs[m] = ctx.subs[n] => m = n
          /\ \A n \in DOMAIN ctx.subs : ctx.subs[n] # ctx.cont
      BY DEF OwnSlot
    <3> QED
      BY <2>1, <3>1, <3>2, <3>3
  <2> QED
    BY <2>3, <2>4, <2>5 DEF new
<1> QED
  BY <1>2, <1>3, <1>4, <1>5

\* What is known of the context of a registered cluster.
LEMMA RegisteredContext ==
  ASSUME IInv, NEW c \in DOMAIN clusters
  PROVE  /\ c \in Clusters /\ Context(c) \in ClusterCtx /\ Context(c).id = c /\ OwnSlot(Context(c))
         /\ clusters[c] \in DOMAIN contexts /\ contexts \in Seq(ClusterCtx)
         /\ \A w : w \in WorkersOf(Context(c)) <=> CtxHolds(c, w)
BY DEF IInv, Shape, OwnSlots, Context, CtxHolds

LEMMA AddSubsystemCommitStep ==
  ASSUME IInv, NEW r \in Requests, AddSubsystemCommit(r)
  PROVE  IInv'
<1> DEFINE c == requests[r].cluster
<1> DEFINE name == requests[r].name
<1> DEFINE w == requests[r].ctx
<1>1. /\ requests[r] # None /\ name # None
      /\ \/ /\ c \notin DOMAIN clusters
            /\ workers' = Closed({w}) /\ UNCHANGED contexts
         \/ /\ c \in DOMAIN clusters /\ name = "containment"
            /\ workers' = Closed({Context(c).cont} \ {None})
            /\ contexts' = [contexts EXCEPT ![clusters[c]].cont = w]
         \/ /\ c \in DOMAIN clusters /\ name # "containment"
            /\ workers' = Closed({Context(c).subs[n] : n \in DOMAIN Context(c).subs \cap {name}})
            /\ contexts' = [contexts EXCEPT ![clusters[c]].subs = Put(@, name, w)]
      /\ Done(r) /\ UNCHANGED <<clusters, owner>>
  BY DEF AddSubsystemCommit
<1>2. /\ w \in Nat /\ w # None /\ c \in Clusters /\ name \in Names \cup {"containment"}
      /\ \A v : CallHolds(r, v) <=> v \in {w}
  BY <1>1, NothingIsNone DEF IInv, Shape, Call, CallHolds, CallWorkers
<1>3. /\ requests' \in [Requests -> Call \cup {None}]
      /\ \A q \in Requests : requests'[q] # None => requests'[q] = requests[q]
  BY <1>1, DoneType DEF IInv
<1> HIDE DEF c, name, w
<1>4. \A q \in Requests : \A v : CallHolds(q, v)' <=> CallHolds(q, v) /\ v \notin {w}
  <2>1. \A q \in Requests : \A v : CallHolds(q, v)' <=> q # r /\ CallHolds(q, v)
    BY <1>1, DoneHolds DEF IInv
  <2> QED
    BY <1>2, <2>1 DEF IInv, OneHolder
<1>5. \A v \in {w} : \E q \in Requests : CallHolds(q, v)
  BY <1>2
<1>6. \A d \in DOMAIN clusters : w \notin WorkersOf(Context(d))
  BY <1>2, RegisteredContext DEF IInv, OneHolder
<1>7. CASE c \notin DOMAIN clusters
  <2>1. workers' = Closed({w}) /\ contexts' = contexts
    BY <1>1, <1>7
  <2>2. workers' \in Seq(Proc) /\ \A v : Up(v)' <=> Up(v) /\ v \notin {w}
    BY <2>1, ClosedUp DEF IInv
  <2>3. Shape'
    BY <1>1, <1>3, <2>1, <2>2 DEF IInv, Shape, Context
  <2>4. \A d \in Clusters : \A v : CtxHolds(d, v)' <=> CtxHolds(d, v) /\ v \notin {w}
    BY <1>1, <1>6, <2>1 DEF CtxHolds, Context
  <2>5. OneHolder'
    <3> DEFINE N == {}
    <3> DEFINE S == {w}
    <3>1. \A v \in N : v \notin S /\ \E q \in Requests : CallHolds(q, v)
      OBVIOUS
    <3>2. \A d \in Clusters : \A v :
            CtxHolds(d, v)' <=> (CtxHolds(d, v) /\ v \notin S) \/ (d = c /\ v \in N)
      BY <2>4
    <3>3. \A q \in Requests : \A v :
            CallHolds(q, v)' <=> CallHolds(q, v) /\ v \notin S /\ v \notin N
      BY <1>4
    <3>4. \A v : Up(v)' <=> Up(v) /\ v \notin S
      BY <2>2
    <3>5. OneHolder
      BY DEF IInv
    <3>6. c \in Clusters
      BY <1>2
    <3> HIDE DEF N, S
    <3> QED
      BY ONLY <3>1, <3>2, <3>3, <3>4, <3>5, <3>6, Handover
  <2>6. OwnSlots' /\ OwnersRegistered'
    BY <1>1, <1>3, <2>1 DEF IInv, OwnSlots, OwnersRegistered, Context
  <2> QED
    BY <2>3, <2>5, <2>6 DEF IInv
<1>8. CASE c \in DOMAIN clusters /\ name = "containment"
  <2> DEFINE ctx == [Context(c) EXCEPT !.cont = w]
  <2> DEFINE S == {Context(c).cont} \ {None}
  <2>1. /\ ctx \in ClusterCtx /\ ctx.id = c /\ OwnSlot(ctx)
        /\ \A v : v \in WorkersOf(ctx) <=>
             (v \in WorkersOf(Context(c)) /\ v \notin S) \/ v \in {w} \ {None}
    BY <1>2, <1>6, <1>8, RegisteredContext, ContextUpdates
  <2>2. \A v \in S : v \in WorkersOf(Context(c))
    BY DEF WorkersOf
  <2>3. contexts' = [contexts EXCEPT ![clusters[c]] = ctx] /\ workers' = Closed(S)
    BY <1>1, <1>8, RegisteredContext DEF Context
  <2> HIDE DEF ctx, S
  <2>4. /\ \A v \in S : CtxHolds(c, v)
        /\ \A v : v \in WorkersOf(ctx) <=> (CtxHolds(c, v) /\ v \notin S) \/ v \in {w}
    BY <1>2, <1>8, <2>1, <2>2, RegisteredContext
  <2> QED
    BY <1>1, <1>3, <1>4, <1>5, <1>8, <2>1, <2>3, <2>4, SubsystemStep
<1>9. CASE c \in DOMAIN clusters /\ name # "containment"
  <2> DEFINE ctx == [Context(c) EXCEPT !.subs = Put(@, name, w)]
  <2> DEFINE S == {Context(c).subs[n] : n \in DOMAIN Context(c).subs \cap {name}}
  <2>1. /\ ctx \in ClusterCtx /\ ctx.id = c /\ OwnSlot(ctx)
        /\ \A v : v \in WorkersOf(ctx) <=>
             (v \in WorkersOf(Context(c)) /\ v \notin S) \/ v \in {w}
        /\ \A n \in DOMAIN Context(c).subs : Context(c).subs[n] \in Nat
    BY <1>2, <1>6, <1>9, RegisteredContext, ContextUpdates
  <2>2. \A v \in S : v \in WorkersOf(Context(c))
    BY <2>1, NothingIsNone DEF WorkersOf
  <2>3. contexts' = [contexts EXCEPT ![clusters[c]] = ctx] /\ workers' = Closed(S)
    BY <1>1, <1>9, RegisteredContext DEF Context
  <2> HIDE DEF ctx, S
  <2>4. /\ \A v \in S : CtxHolds(c, v)
        /\ \A v : v \in WorkersOf(ctx) <=> (CtxHolds(c, v) /\ v \notin S) \/ v \in {w}
    BY <1>9, <2>1, <2>2, RegisteredContext
  <2> QED
    BY <1>1, <1>3, <1>4, <1>5, <1>9, <2>1, <2>3, <2>4, SubsystemStep
<1> QED
  BY <1>7, <1>8, <1>9

LEMMA RemoveSubsystemStep ==
  ASSUME IInv, NEW c \in Clusters, NEW name \in Names \cup {"containment"}, RemoveSubsystem(c, name)
  PROVE  IInv'
<1> DEFINE N == {}
<1>1. /\ c \in DOMAIN clusters
      /\ \/ /\ workers' = Closed({Context(c).cont} \ {None})
            /\ contexts' = [contexts EXCEPT ![clusters[c]].cont = None]
         \/ /\ name \in DOMAIN Context(c).subs
            /\ workers' = Closed({Context(c).subs[name]})
            /\ contexts' = [contexts EXCEPT ![clusters[c]].subs = Drop(@, {name})]
      /\ UNCHANGED <<clusters, owner, requests>>
  BY DEF RemoveSubsystem
<1>2. /\ \A v \in N : \E q \in Requests : CallHolds(q, v)
      /\ \A q \in Requests : \A v : CallHolds(q, v)' <=> CallHolds(q, v) /\ v \notin N
      /\ requests' \in [Requests -> Call \cup {None}]
      /\ \A q \in Requests : requests'[q] # None => requests'[q] = requests[q]
  BY <1>1 DEF IInv, Shape, CallHolds
<1>3. ASSUME workers' = Closed({Context(c).cont} \ {None}),
             contexts' = [contexts EXCEPT ![clusters[c]].cont = None]
      PROVE  IInv'
  <2> DEFINE ctx == [Context(c) EXCEPT !.cont = None]
  <2> DEFINE S == {Context(c).cont} \ {None}
  <2>1. /\ ctx \in ClusterCtx /\ ctx.id = c /\ OwnSlot(ctx)
        /\ \A v : v \in WorkersOf(ctx) <=>
             (v \in WorkersOf(Context(c)) /\ v \notin S) \/ v \in {None} \ {None}
    <3>1. None \notin WorkersOf(Context(c)) /\ None \in Nat \cup {None}
      BY DEF WorkersOf
    <3> QED
      BY <1>1, <3>1, RegisteredContext, ContextUpdates
  <2>2. \A v \in S : v \in WorkersOf(Context(c))
    BY DEF WorkersOf
  <2>3. contexts' = [contexts EXCEPT ![clusters[c]] = ctx] /\ workers' = Closed(S)
    BY <1>1, <1>3, RegisteredContext DEF Context
  <2> HIDE DEF ctx, S
  <2>4. /\ \A v \in S : CtxHolds(c, v)
        /\ \A v : v \in WorkersOf(ctx) <=> (CtxHolds(c, v) /\ v \notin S) \/ v \in N
    BY <1>1, <2>1, <2>2, RegisteredContext
  <2> HIDE DEF N
  <2> QED
    BY <1>1, <1>2, <2>1, <2>3, <2>4, SubsystemStep
<1>4. ASSUME name \in DOMAIN Context(c).subs,
             workers' = Closed({Context(c).subs[name]}),
             contexts' = [contexts EXCEPT ![clusters[c]].subs = Drop(@, {name})]
      PROVE  IInv'
  <2> DEFINE ctx == [Context(c) EXCEPT !.subs = Drop(@, {name})]
  <2> DEFINE S == {Context(c).subs[name]}
  <2>1. /\ ctx \in ClusterCtx /\ ctx.id = c /\ OwnSlot(ctx)
        /\ \A v : v \in WorkersOf(ctx) <=> v \in WorkersOf(Context(c)) /\ v \notin S
        /\ Context(c).subs[name] \in Nat
    BY <1>1, <1>4, RegisteredContext, ContextUpdates
  <2>2. \A v \in S : v \in WorkersOf(Context(c))
    BY <1>4, <2>1, NothingIsNone DEF WorkersOf
  <2>3. contexts' = [contexts EXCEPT ![clusters[c]] = ctx] /\ workers' = Closed(S)
    BY <1>1, <1>4, RegisteredContext DEF Context
  <2> HIDE DEF ctx, S
  <2>4. /\ \A v \in S : CtxHolds(c, v)
        /\ \A v : v \in WorkersOf(ctx) <=> (CtxHolds(c, v) /\ v \notin S) \/ v \in N
    BY <1>1, <2>1, <2>2, RegisteredContext
  <2> HIDE DEF N
  <2> QED
    BY <1>1, <1>2, <2>1, <2>3, <2>4, SubsystemStep
<1> QED
  BY <1>1, <1>3, <1>4

LEMMA FunctionSeq ==
  ASSUME NEW T, NEW n \in Nat, NEW f \in [1..n -> T]
  PROVE  f \in Seq(T)
OBVIOUS

\* Jobs come and go in a worker that goes on running.
LEMMA JobsStep ==
  ASSUME Shape, NEW w \in DOMAIN workers, NEW jobs \in SUBSET Nat, NEW next \in Nat,
         workers' = [workers EXCEPT ![w].jobs = jobs, ![w].next = next]
  PROVE  workers' \in Seq(Proc) /\ \A v : Up(v)' <=> Up(v)
<1>1. workers \in Seq(Proc) /\ workers[w] \in Proc
  BY DEF Shape
<1>2. /\ DOMAIN workers' = DOMAIN workers
      /\ \A v \in DOMAIN workers : workers'[v] \in Proc /\ workers'[v].up = workers[v].up
  <2> SUFFICES ASSUME NEW v \in DOMAIN workers
               PROVE  workers'[v] \in Proc /\ workers'[v].up = workers[v].up
    OBVIOUS
  <2>1. workers[v] \in Proc
    BY <1>1
  <2>2. CASE v = w
    <3>1. workers'[v] = [workers[w] EXCEPT !.jobs = jobs, !.next = next]
      BY <2>2
    <3> QED
      BY <1>1, <2>2, <3>1 DEF Proc
  <2>3. CASE v # w
    BY <2>1, <2>3
  <2> QED
    BY <2>2, <2>3
<1>3. workers' \in Seq(Proc)
  <2>1. DOMAIN workers = 1..Len(workers) /\ Len(workers) \in Nat
    BY <1>1
  <2>2. workers' \in [1..Len(workers) -> Proc]
    BY <1>2, <2>1
  <2> QED
    BY <2>1, <2>2, FunctionSeq
<1> QED
  BY <1>2, <1>3 DEF Up

LEMMA AllocateStep ==
  ASSUME IInv, NEW c \in Clusters, Allocate(c)
  PROVE  IInv'
<1> DEFINE w == Context(c).cont
<1> DEFINE id == workers[w].next
<1>1. /\ c \in DOMAIN clusters /\ w # None
      /\ workers' = [workers EXCEPT ![w].jobs = @ \cup {id}, ![w].next = @ + 1]
      /\ owner' = Put(owner, id, clusters[c])
      /\ UNCHANGED <<contexts, clusters, requests>>
  BY DEF Allocate
<1>2. Up(w)
  <2>1. w \in WorkersOf(Context(c))
    BY <1>1 DEF WorkersOf
  <2> QED
    BY <1>1, <2>1 DEF IInv, OneHolder, CtxHolds
<1>3. w \in DOMAIN workers /\ workers[w].jobs \in SUBSET Nat /\ workers[w].next \in Nat
  <2>1. w \in DOMAIN workers /\ workers[w] \in Proc
    BY <1>2 DEF IInv, Shape, Up
  <2> QED
    BY <2>1 DEF Proc
<1> HIDE DEF w
<1>4. workers' \in Seq(Proc) /\ \A v : Up(v)' <=> Up(v)
  <2>1. workers' = [workers EXCEPT ![w].jobs = workers[w].jobs \cup {id},
                                   ![w].next = workers[w].next + 1]
    BY <1>1, <1>3
  <2>2. workers[w].jobs \cup {id} \in SUBSET Nat /\ workers[w].next + 1 \in Nat /\ Shape
    BY <1>3 DEF IInv
  <2> HIDE DEF id
  <2> QED
    BY <1>3, <2>1, <2>2, JobsStep
<1>5. \A a \in DOMAIN owner' :
        owner'[a] \in DOMAIN contexts /\ contexts[owner'[a]].id \in DOMAIN clusters
  <2>1. clusters[c] \in DOMAIN contexts /\ contexts[clusters[c]].id = c
    BY <1>1 DEF IInv, Shape, Context
  <2>2. \A a \in DOMAIN owner' : owner'[a] = clusters[c] \/ (a \in DOMAIN owner /\ owner'[a] = owner[a])
    BY <1>1 DEF Put
  <2> QED
    BY <1>1, <2>1, <2>2 DEF IInv, Shape, OwnersRegistered
<1> QED
  BY <1>1, <1>4, <1>5, SameHolders

LEMMA FreeStep ==
  ASSUME IInv, NEW g \in DOMAIN grants, Free(g)
  PROVE  IInv'
<1> DEFINE id == grants[g].id
<1> DEFINE w == contexts[owner[id]].cont
<1>1. UNCHANGED <<contexts, clusters, requests>>
  BY DEF Free
<1>2. /\ \/ workers' = workers
         \/ /\ id \in DOMAIN owner /\ w # None /\ workers[w].up
            /\ workers' = [workers EXCEPT ![w].jobs = @ \ {id}]
      /\ owner' = owner \/ owner' = Drop(owner, {id})
  BY DEF Free
<1>3. \A a \in DOMAIN owner' :
        owner'[a] \in DOMAIN contexts /\ contexts[owner'[a]].id \in DOMAIN clusters
  BY <1>2 DEF IInv, Shape, OwnersRegistered, Drop
<1>4. workers' \in Seq(Proc) /\ \A v : Up(v)' <=> Up(v)
  <2>1. CASE workers' = workers
    BY <2>1 DEF IInv, Shape, Up
  <2>2. CASE workers' = [workers EXCEPT ![w].jobs = @ \ {id}]
    <3> HIDE DEF w, id
    <3>1. CASE w \in DOMAIN workers
      <4>1. workers \in Seq(Proc) /\ workers[w] \in Proc
        BY <3>1 DEF IInv, Shape
      <4>2. workers[w].jobs \ {id} \in SUBSET Nat /\ workers[w].next \in Nat
        BY <4>1 DEF Proc
      <4>3. workers' = [workers EXCEPT ![w].jobs = workers[w].jobs \ {id}, ![w].next = workers[w].next]
        <5>1. [workers[w] EXCEPT !.jobs = workers[w].jobs \ {id}]
                = [workers[w] EXCEPT !.jobs = workers[w].jobs \ {id}, !.next = workers[w].next]
          BY <4>1 DEF Proc
        <5> QED
          BY <2>2, <4>1, <5>1
      <4> QED
        BY <3>1, <4>2, <4>3, JobsStep DEF IInv
    <3>2. CASE w \notin DOMAIN workers
      <4>1. workers' = workers
        BY <2>2, <3>2 DEF IInv, Shape
      <4> QED
        BY <4>1 DEF IInv, Shape, Up
    <3> QED
      BY <3>1, <3>2
  <2> QED
    BY <1>2, <2>1, <2>2
<1> QED
  BY <1>1, <1>3, <1>4, SameHolders

-----------------------------------------------------------------------------

\* Whatever order racing calls come in, every worker process that runs has one
\* holder, a registered cluster or a call in flight, and every holder's workers
\* run (AddCluster, AddSubsystem, RemoveCluster, RemoveSubsystem,
\* fluxion.go:185-318).
THEOREM Inductive == Spec => []IInv
<1>1. Init => IInv
  <2> SUFFICES ASSUME Init PROVE IInv
    OBVIOUS
  <2>1. /\ workers \in Seq(Proc) /\ contexts \in Seq(ClusterCtx)
        /\ DOMAIN workers = {} /\ DOMAIN clusters = {} /\ DOMAIN owner = {}
        /\ \A r \in Requests : requests[r] = None
        /\ requests \in [Requests -> Call \cup {None}]
    BY DEF Init
  <2> QED
    BY <2>1 DEF IInv, Shape, OneHolder, OwnSlots, OwnersRegistered, Up, CtxHolds, CallHolds
<1>2. IInv /\ [Next]_vars => IInv'
  <2> SUFFICES ASSUME IInv, [Next]_vars PROVE IInv'
    OBVIOUS
  <2>1. ASSUME NEW c \in Clusters, NEW descriptive \in BOOLEAN, NEW g \in Graphs \cup {None},
               NEW D \in SUBSET Names, NEW aux \in [D -> Graphs],
               AddClusterSpawn(c, descriptive, g, aux)
        PROVE  IInv'
    BY <2>1, AddClusterSpawnStep
  <2>2. ASSUME NEW r \in Requests, AddClusterCommit(r) \/ AddSubsystemCommit(r)
        PROVE  IInv'
    BY <2>2, AddClusterCommitStep, AddSubsystemCommitStep
  <2>3. ASSUME NEW c \in Clusters, RemoveCluster(c) \/ Allocate(c)
        PROVE  IInv'
    BY <2>3, RemoveClusterStep, AllocateStep
  <2>4. ASSUME NEW c \in Clusters, NEW name \in Names \cup {"containment"},
               RemoveSubsystem(c, name) \/ \E g \in Graphs : AddSubsystemSpawn(c, name, g)
        PROVE  IInv'
    BY <2>4, RemoveSubsystemStep, AddSubsystemSpawnStep
  <2>5. ASSUME NEW g \in DOMAIN grants, Free(g)
        PROVE  IInv'
    BY <2>5, FreeStep
  <2>6. CASE UNCHANGED vars
    BY <2>6, SameHolders DEF vars, IInv, Shape, Up, OwnersRegistered
  <2> QED
    BY <2>1, <2>2, <2>3, <2>4, <2>5, <2>6 DEF Next
<1> QED
  BY <1>1, <1>2, PTL DEF Spec

\* The workers of the calls in flight, held by one of them each.
LEMMA InFlightHeld ==
  ASSUME IInv, NEW w
  PROVE  /\ w \in InFlight <=> \E r \in Requests : CallHolds(r, w)
         /\ w \in UNION {WorkersOf(Context(c)) : c \in DOMAIN clusters}
              <=> \E c \in Clusters : CtxHolds(c, w)
<1>1. w \in InFlight <=> \E r \in Requests : CallHolds(r, w)
  BY DEF InFlight, CallHolds, CallWorkers
<1>2. w \in UNION {WorkersOf(Context(c)) : c \in DOMAIN clusters}
        <=> \E c \in Clusters : CtxHolds(c, w)
  BY DEF IInv, Shape, CtxHolds
<1> QED
  BY <1>1, <1>2

\* No worker process is orphaned: one that runs serves a registered cluster or
\* a call in flight (fluxion.go:185-292).
THEOREM NoOrphans == Spec => []NoOrphanWorkers
<1>1. IInv => NoOrphanWorkers
  BY InFlightHeld DEF NoOrphanWorkers, IInv, OneHolder, Up
<1> QED
  BY <1>1, Inductive, PTL

\* A registered cluster and a call in flight never hold a worker that close
\* has killed (fluxion.go:245-318).
THEOREM NoneDead == Spec => []NoDeadWorkers
<1>1. IInv => NoDeadWorkers
  BY InFlightHeld DEF NoDeadWorkers, IInv, OneHolder, Up
<1> QED
  BY <1>1, Inductive, PTL

\* The owner map names no context of a cluster that RemoveCluster took out
\* (fluxion.go:237-241).
THEOREM OwnersForgotten == Spec => []OwnersRegistered
<1>1. IInv => OwnersRegistered
  BY DEF IInv
<1> QED
  BY <1>1, Inductive, PTL

-----------------------------------------------------------------------------
(* Types *)

Grant == [id : Nat, worker : Nat, freed : BOOLEAN]

\* A worker's job numbers come from its own counter, and each counted a grant.
JobsOK ==
  /\ workers \in Seq(Worker) /\ grants \in Seq(Grant) /\ Len(grants) <= MaxGrants
  /\ \A w \in DOMAIN workers : workers[w].next \in 1..Len(grants) + 1

OrderOK == Lists(order, DOMAIN clusters)

LEMMA SpawnedJobs ==
  ASSUME JobsOK, NEW new \in Seq(Worker), \A i \in 1..Len(new) : new[i].next = 1,
         workers' = workers \o new, UNCHANGED grants
  PROVE  JobsOK'
<1>1. /\ workers \in Seq(Worker) /\ Len(workers) \in Nat /\ Len(new) \in Nat
      /\ grants \in Seq(Grant) /\ Len(grants) \in Nat
  BY DEF JobsOK
<1>2. /\ workers' \in Seq(Worker) /\ DOMAIN workers' = 1..Len(workers) + Len(new)
      /\ \A i \in 1..Len(workers) : workers'[i] = workers[i]
      /\ \A i \in 1..Len(new) : workers'[Len(workers) + i] = new[i]
  BY <1>1
<1>3. ASSUME NEW w \in DOMAIN workers' PROVE workers'[w].next \in 1..Len(grants) + 1
  <2>1. CASE w \in 1..Len(workers)
    BY <1>1, <1>2, <2>1 DEF JobsOK
  <2>2. CASE w \notin 1..Len(workers)
    <3>1. w - Len(workers) \in 1..Len(new) /\ w = Len(workers) + (w - Len(workers))
      BY <1>1, <1>2, <2>2
    <3>2. workers'[w].next = 1
      BY <1>2, <3>1
    <3> QED
      BY <1>1, <3>2
  <2> QED
    BY <2>1, <2>2
<1> QED
  BY <1>1, <1>2, <1>3 DEF JobsOK

LEMMA SpawnedIsWorker ==
  ASSUME NEW g \in Graphs
  PROVE  Spawned(g) \in Worker /\ Spawned(g).next = 1
BY DEF Spawned, Worker

LEMMA AddClusterSpawnJobs ==
  ASSUME JobsOK, NEW c \in Clusters, NEW descriptive \in BOOLEAN, NEW g \in Graphs \cup {None},
         NEW D \in SUBSET Names, NEW aux \in [D -> Graphs],
         AddClusterSpawn(c, descriptive, g, aux)
  PROVE  JobsOK'
<1> DEFINE cont == IF g = None THEN <<>> ELSE <<Spawned(g)>>
<1> DEFINE names == SetToSeq(DOMAIN aux)
<1> DEFINE auxiliary == [i \in DOMAIN names |-> Spawned(aux[names[i]])]
<1> DEFINE spawned == cont \o auxiliary
<1> DEFINE k == Cardinality(D)
<1>1. DOMAIN aux = D /\ k \in Nat /\ names \in [1..k -> D] /\ DOMAIN names = 1..k
  BY NamesInOrder
<1>2. cont \in Seq(Worker) /\ \A i \in 1..Len(cont) : cont[i].next = 1
  BY SpawnedIsWorker
<1>3. auxiliary \in Seq(Worker) /\ Len(auxiliary) = k /\ \A i \in 1..k : auxiliary[i].next = 1
  <2>1. \A i \in 1..k : auxiliary[i] \in Worker /\ auxiliary[i].next = 1
    BY <1>1, SpawnedIsWorker
  <2>2. auxiliary \in [1..k -> Worker]
    BY <1>1, <2>1
  <2> QED
    BY <1>1, <2>1, <2>2
<1>4. spawned \in Seq(Worker) /\ \A i \in 1..Len(spawned) : spawned[i].next = 1
  <2> HIDE DEF cont, auxiliary, k
  <2>1. /\ spawned \in Seq(Worker) /\ Len(spawned) = Len(cont) + k /\ Len(cont) \in Nat
        /\ \A i \in 1..Len(cont) : spawned[i] = cont[i]
        /\ \A i \in 1..k : spawned[Len(cont) + i] = auxiliary[i]
    BY <1>1, <1>2, <1>3
  <2> HIDE DEF spawned
  <2>2. ASSUME NEW i \in 1..Len(spawned) PROVE spawned[i].next = 1
    <3>1. CASE i <= Len(cont)
      BY <1>2, <2>1, <3>1
    <3>2. CASE i > Len(cont)
      <4>1. i - Len(cont) \in 1..k /\ i = Len(cont) + (i - Len(cont))
        BY <1>1, <2>1, <3>2
      <4> QED
        BY <1>3, <2>1, <4>1
    <3> QED
      BY <2>1, <3>1, <3>2
  <2> QED
    BY <2>1, <2>2
<1>5. /\ UNCHANGED grants
      /\ \/ workers' = workers \o spawned
         \/ \E l \in 0..(Len(spawned) - 1) :
              workers' = workers \o [i \in 1..l |-> [spawned[i] EXCEPT !.up = FALSE]]
  BY DEF AddClusterSpawn
<1> HIDE DEF spawned
<1>6. ASSUME NEW l \in 0..(Len(spawned) - 1),
             workers' = workers \o [i \in 1..l |-> [spawned[i] EXCEPT !.up = FALSE]]
      PROVE  JobsOK'
  <2> DEFINE dead == [i \in 1..l |-> [spawned[i] EXCEPT !.up = FALSE]]
  <2>1. Len(spawned) \in Nat /\ l \in Nat /\ l < Len(spawned)
    BY <1>4
  <2>2. ASSUME NEW i \in 1..l PROVE dead[i] \in Worker /\ dead[i].next = 1
    <3>1. spawned[i] \in Worker /\ spawned[i].next = 1
      BY <1>4, <2>1
    <3> QED
      BY <3>1 DEF Worker
  <2>3. dead \in [1..l -> Worker]
    BY <2>2
  <2>4. dead \in Seq(Worker) /\ Len(dead) = l
    BY <2>1, <2>3
  <2>5. workers' = workers \o dead
    BY <1>6
  <2> HIDE DEF dead
  <2> QED
    BY <1>5, <2>2, <2>4, <2>5, SpawnedJobs
<1> QED
  BY <1>4, <1>5, <1>6, SpawnedJobs

LEMMA ClosedJobs ==
  ASSUME JobsOK, NEW S, workers' = Closed(S), UNCHANGED grants
  PROVE  JobsOK'
<1>1. workers \in Seq(Worker) /\ DOMAIN workers = 1..Len(workers) /\ Len(workers) \in Nat
  BY DEF JobsOK
<1>2. DOMAIN workers' = DOMAIN workers
  BY DEF Closed
<1>3. ASSUME NEW w \in DOMAIN workers
      PROVE  workers'[w] \in Worker /\ workers'[w].next = workers[w].next
  <2>1. workers[w] \in Worker
    BY <1>1
  <2>2. CASE w \in S
    <3>1. workers'[w] = [workers[w] EXCEPT !.up = FALSE, !.jobs = {}]
      BY <2>2 DEF Closed
    <3> QED
      BY <2>1, <3>1 DEF Worker
  <2>3. CASE w \notin S
    BY <2>1, <2>3 DEF Closed
  <2> QED
    BY <2>2, <2>3
<1>4. workers' \in [1..Len(workers) -> Worker]
  BY <1>1, <1>3 DEF Closed
<1>5. workers' \in Seq(Worker)
  BY <1>1, <1>4
<1> QED
  BY <1>2, <1>3, <1>5 DEF JobsOK

\* One worker's jobs and counter change.
LEMMA WorkerJobs ==
  ASSUME JobsOK, NEW w \in DOMAIN workers, NEW jobs \in SUBSET (1..MaxGrants), NEW next \in Nat,
         workers' = [workers EXCEPT ![w].jobs = jobs, ![w].next = next],
         grants' \in Seq(Grant), Len(grants) <= Len(grants'), Len(grants') <= MaxGrants,
         next \in 1..Len(grants') + 1
  PROVE  JobsOK'
<1>1. /\ workers \in Seq(Worker) /\ DOMAIN workers = 1..Len(workers) /\ Len(workers) \in Nat
      /\ Len(grants) \in Nat /\ Len(grants') \in Nat
  BY DEF JobsOK
<1>2. ASSUME NEW v \in DOMAIN workers
      PROVE  workers'[v] \in Worker /\ workers'[v].next \in 1..Len(grants') + 1
  <2>1. workers[v] \in Worker /\ workers[v].next \in 1..Len(grants) + 1
    BY <1>1 DEF JobsOK
  <2>2. CASE v = w
    <3>1. workers'[v] = [workers[w] EXCEPT !.jobs = jobs, !.next = next]
      BY <2>2
    <3> QED
      BY <2>1, <2>2, <3>1 DEF Worker
  <2>3. CASE v # w
    <3>1. workers'[v] = workers[v]
      BY <2>3
    <3> QED
      BY <1>1, <2>1, <3>1
  <2> QED
    BY <2>2, <2>3
<1>3. DOMAIN workers' = DOMAIN workers
  OBVIOUS
<1>4. workers' \in [1..Len(workers) -> Worker]
  BY <1>1, <1>2
<1>5. workers' \in Seq(Worker)
  BY <1>1, <1>4, FunctionSeq
<1> QED
  BY <1>2, <1>3, <1>5 DEF JobsOK

LEMMA AllocateJobs ==
  ASSUME IInv, JobsOK, NEW c \in Clusters, Allocate(c)
  PROVE  JobsOK'
<1> DEFINE w == Context(c).cont
<1> DEFINE id == workers[w].next
<1> DEFINE grant == [id |-> id, worker |-> w, freed |-> FALSE]
<1>1. /\ c \in DOMAIN clusters /\ w # None /\ Len(grants) < MaxGrants
      /\ workers' = [workers EXCEPT ![w].jobs = @ \cup {id}, ![w].next = @ + 1]
      /\ grants' = Append(grants, grant)
  BY DEF Allocate
<1>2. w \in DOMAIN workers
  <2>1. w \in WorkersOf(Context(c))
    BY <1>1 DEF WorkersOf
  <2> QED
    BY <1>1, <2>1 DEF IInv, OneHolder, CtxHolds, Up
<1>3. /\ workers[w] \in Worker /\ id \in 1..Len(grants) + 1 /\ w \in Nat
      /\ Len(grants) \in Nat /\ MaxGrants \in Nat /\ grants \in Seq(Grant)
  BY <1>2, FluxionAssumption DEF JobsOK
<1>4. /\ workers[w].jobs \cup {id} \in SUBSET (1..MaxGrants) /\ id + 1 \in Nat
      /\ grant \in Grant
  BY <1>1, <1>3 DEF Worker, Grant
<1> HIDE DEF w
<1>5. workers' = [workers EXCEPT ![w].jobs = workers[w].jobs \cup {id}, ![w].next = id + 1]
  BY <1>1, <1>2
<1> HIDE DEF id, grant
<1>6. grants' \in Seq(Grant) /\ Len(grants') = Len(grants) + 1
  BY <1>1, <1>3, <1>4
<1>7. Len(grants) <= Len(grants') /\ Len(grants') <= MaxGrants /\ id + 1 \in 1..Len(grants') + 1
  BY <1>1, <1>3, <1>6
<1> QED
  BY <1>2, <1>4, <1>5, <1>6, <1>7, WorkerJobs

LEMMA FreeJobs ==
  ASSUME JobsOK, NEW g \in DOMAIN grants, Free(g)
  PROVE  JobsOK'
<1> DEFINE id == grants[g].id
<1> DEFINE w == contexts[owner[id]].cont
<1>1. /\ grants' = [grants EXCEPT ![g].freed = TRUE]
      /\ \/ workers' = workers
         \/ workers' = [workers EXCEPT ![w].jobs = @ \ {id}]
  BY DEF Free
<1>2. grants' \in Seq(Grant) /\ Len(grants') = Len(grants)
  <2>1. grants \in Seq(Grant) /\ grants[g] \in Grant
    BY DEF JobsOK
  <2>2. [grants[g] EXCEPT !.freed = TRUE] \in Grant
    BY <2>1 DEF Grant
  <2>3. grants' = [grants EXCEPT ![g] = [grants[g] EXCEPT !.freed = TRUE]]
    BY <1>1
  <2> QED
    BY <2>1, <2>2, <2>3
<1> HIDE DEF w, id
<1>3. CASE workers' = workers
  BY <1>2, <1>3 DEF JobsOK
<1>4. CASE w \in DOMAIN workers /\ workers' = [workers EXCEPT ![w].jobs = @ \ {id}]
  <2>1. workers[w] \in Worker /\ workers[w].next \in 1..Len(grants) + 1 /\ Len(grants) \in Nat
    BY <1>4 DEF JobsOK
  <2>2. workers[w].jobs \ {id} \in SUBSET (1..MaxGrants) /\ workers[w].next \in Nat
    BY <2>1 DEF Worker
  <2>3. workers' = [workers EXCEPT ![w].jobs = workers[w].jobs \ {id}, ![w].next = workers[w].next]
    <3>1. [workers[w] EXCEPT !.jobs = workers[w].jobs \ {id}]
            = [workers[w] EXCEPT !.jobs = workers[w].jobs \ {id}, !.next = workers[w].next]
      BY <2>1 DEF Worker
    <3>2. workers \in Seq(Worker)
      BY DEF JobsOK
    <3> QED
      BY <1>4, <3>1, <3>2
  <2>4. /\ Len(grants) <= Len(grants') /\ Len(grants') <= MaxGrants
        /\ workers[w].next \in 1..Len(grants') + 1
    BY <1>2, <2>1 DEF JobsOK
  <2> QED
    BY ONLY JobsOK, <1>2, <1>4, <2>2, <2>3, <2>4, WorkerJobs
<1>5. CASE w \notin DOMAIN workers /\ workers' = [workers EXCEPT ![w].jobs = @ \ {id}]
  <2>1. workers' = workers
    BY <1>5 DEF JobsOK
  <2> QED
    BY <1>3, <2>1
<1> QED
  BY <1>1, <1>3, <1>4, <1>5

LEMMA NextJobs == ASSUME IInv, JobsOK, [Next]_vars PROVE JobsOK'
<1>1. ASSUME NEW c \in Clusters, NEW descriptive \in BOOLEAN, NEW g \in Graphs \cup {None},
             NEW D \in SUBSET Names, NEW aux \in [D -> Graphs],
             AddClusterSpawn(c, descriptive, g, aux)
      PROVE  JobsOK'
  BY <1>1, AddClusterSpawnJobs
<1>2. ASSUME NEW c, NEW name, NEW g \in Graphs, AddSubsystemSpawn(c, name, g) PROVE JobsOK'
  <2>1. <<Spawned(g)>> \in Seq(Worker) /\ \A i \in 1..Len(<<Spawned(g)>>) : <<Spawned(g)>>[i].next = 1
    BY SpawnedIsWorker
  <2>2. workers' = workers \o <<Spawned(g)>> /\ UNCHANGED grants
    BY <1>2, SpawnedIsWorker DEF AddSubsystemSpawn, JobsOK
  <2> QED
    BY <2>1, <2>2, SpawnedJobs
<1>3. ASSUME UNCHANGED <<workers, grants>> PROVE JobsOK'
  BY <1>3 DEF JobsOK
<1>4. ASSUME NEW r, AddClusterCommit(r) PROVE JobsOK'
  BY <1>3, <1>4, ClosedJobs DEF AddClusterCommit
<1>5. ASSUME NEW r, AddSubsystemCommit(r) PROVE JobsOK'
  BY <1>5, ClosedJobs DEF AddSubsystemCommit
<1>6. ASSUME NEW c, RemoveCluster(c) PROVE JobsOK'
  BY <1>3, <1>6, ClosedJobs DEF RemoveCluster
<1>7. ASSUME NEW c, NEW name, RemoveSubsystem(c, name) PROVE JobsOK'
  BY <1>7, ClosedJobs DEF RemoveSubsystem
<1> QED
  BY <1>1, <1>2, <1>3, <1>4, <1>5, <1>6, <1>7, AllocateJobs, FreeJobs DEF Next, vars

LEMMA NextOrder == ASSUME OrderOK, [Next]_vars PROVE OrderOK'
<1>1. ASSUME NEW r, AddClusterCommit(r) PROVE OrderOK'
  <2> DEFINE c == requests[r].cluster
  <2>1. DOMAIN clusters' = DOMAIN clusters \cup {c}
    BY <1>1 DEF AddClusterCommit, Put
  <2>2. CASE c \in DOMAIN clusters
    <3>1. DOMAIN clusters' = DOMAIN clusters /\ order' = order
      BY <1>1, <2>1, <2>2 DEF AddClusterCommit
    <3> QED
      BY <3>1 DEF OrderOK
  <2>3. CASE c \notin DOMAIN clusters
    <3>1. order' = Append(order, c)
      BY <1>1, <2>3 DEF AddClusterCommit
    <3>2. Lists(Append(order, c), DOMAIN clusters \cup {c})
      BY <2>3, ListsAppend DEF OrderOK
    <3> QED
      BY <2>1, <3>1, <3>2 DEF OrderOK
  <2> QED
    BY <2>2, <2>3
<1>2. ASSUME NEW c, RemoveCluster(c) PROVE OrderOK'
  <2>1. DOMAIN clusters' = DOMAIN clusters \ {c} /\ order' = RemoveFirst(order, c)
    BY <1>2 DEF RemoveCluster, Drop
  <2>2. CASE c \in DOMAIN clusters
    <3>1. Lists(RemoveFirst(order, c), DOMAIN clusters \ {c})
      BY <2>2, ListsRemove DEF OrderOK
    <3> QED
      BY <2>1, <3>1 DEF OrderOK
  <2>3. CASE c \notin DOMAIN clusters
    <3>1. RemoveFirst(order, c) = order /\ DOMAIN clusters \ {c} = DOMAIN clusters
      BY <2>3, ListsOthers DEF OrderOK
    <3> QED
      BY <2>1, <3>1 DEF OrderOK
  <2> QED
    BY <2>2, <2>3
<1>3. ASSUME UNCHANGED <<clusters, order>> PROVE OrderOK'
  BY <1>3 DEF OrderOK
<1> QED
  BY <1>1, <1>2, <1>3
  DEF Next, vars, AddClusterSpawn, AddSubsystemSpawn, AddSubsystemCommit, RemoveSubsystem, Allocate, Free

\* Contexts name workers that exist, ids are listed once, and a worker never
\* hands out more job numbers than there are grants (fluxion.go:185-460).
THEOREM TypeCorrect == Spec => []TypeOK
<1>1. Init => JobsOK /\ OrderOK
  <2>1. Init => JobsOK
    BY FluxionAssumption DEF Init, JobsOK
  <2>2. Init => OrderOK
    BY ListsEmpty DEF Init, OrderOK
  <2> QED
    BY <2>1, <2>2
<1>2. IInv /\ JobsOK /\ OrderOK => TypeOK
  <2> SUFFICES ASSUME IInv, JobsOK, OrderOK PROVE TypeOK
    OBVIOUS
  <2>1. \A w \in DOMAIN workers : workers[w] \in Worker
    BY DEF JobsOK
  <2>2. DOMAIN clusters = ToSet(order) /\ IsInjective(order)
    BY ListsAll DEF OrderOK
  <2>3. ASSUME NEW c \in DOMAIN clusters PROVE WorkersOf(Context(c)) \subseteq DOMAIN workers
    <3>1. c \in Clusters
      BY DEF IInv, Shape
    <3> QED
      BY <2>3, <3>1 DEF IInv, OneHolder, CtxHolds, Up
  <2> QED
    BY <2>1, <2>2, <2>3 DEF TypeOK, IInv, Shape
<1> QED
  BY <1>1, <1>2, Inductive, NextJobs, NextOrder, PTL DEF Spec

=============================================================================
