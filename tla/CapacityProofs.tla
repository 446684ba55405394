---------------------------- MODULE CapacityProofs ----------------------------
(* How many workers the pool has, who starts it and what is left of it: the    *)
(* ceiling and the floor of its size, a refused start(), and close().          *)
EXTENDS SandboxPoolProofs, FiniteSetTheorems

----------------------------------------------------------------------------
(* What start() does is done by one thread, once, before anything is served. *)

OneStarter ==
    \A c, d \in Callers : pc[c] \in StartStates /\ pc[d] \in StartStates => c = d

StartIsOver == started => StartLockFree /\ placed = {}

\* Nobody leases before the pool is started; the queue fills while it is published.
NothingServed ==
    ~started => /\ \A w \in Names : thread[w] = "none"
                /\ \A c \in Callers : pc[c] \notin {"lease"} \cup Custodian
                /\ \A w \in Names : free[w] > 0 => \E c \in Callers : pc[c] = "publish"

PlacedByStart ==
    placed # {} => \E c \in Callers : pc[c] \in {"warm", "spawning", "publish", "teardown"}

\* start() waits for one _try_spawn, its own.
SpawnedByStart ==
    \A n \in Names : InFlight(n) /\ parent[n] = 0 =>
        /\ \E c \in Callers : pc[c] = "spawning"
        /\ \A m \in Names : InFlight(m) /\ parent[m] = 0 => m = n

RoomToWarm ==
    \A c \in Callers : pc[c] \in {"warm", "spawning"} => Cardinality(placed) < PoolSize

StartInv ==
    /\ OneStarter /\ StartIsOver /\ NothingServed
    /\ PlacedByStart /\ SpawnedByStart /\ RoomToWarm

USE DEF CallerStates, StartStates, Custodian, DaemonStates, Minding, SpawnStates

\* There are finitely many names, hence of every set of workers.
LEMMA NamesAreFinite ==
    ASSUME NEW S, S \subseteq Names
    PROVE  IsFiniteSet(S) /\ Cardinality(S) \in Nat
  <1>1. IsFiniteSet(Names)
    BY FS_Interval, ClusterAssumption DEF Names
  <1>2. IsFiniteSet(S)
    BY <1>1, FS_Subset
  <1> QED BY <1>2, FS_CardinalityType

\* A step outside start(), or one that only serves a started pool.
LEMMA StartFrame ==
    ASSUME TypeOK, StartInv,
           UNCHANGED <<started, placed>>,
           \A c \in Callers : pc[c] \in StartStates \/ pc'[c] \in StartStates
                                 => pc'[c] = pc[c],
           \A n \in Names : (InFlight(n) /\ parent[n] = 0)' => InFlight(n) /\ parent[n] = 0,
           started \/ /\ \A c \in Callers : pc'[c] \notin {"lease"} \cup Custodian
                      /\ UNCHANGED thread
                      /\ \A w \in Names : free'[w] > 0 => free[w] > 0
    PROVE  StartInv'
  <1> USE DEF StartInv, TypeOK
  <1>1. OneStarter' /\ StartIsOver' /\ RoomToWarm'
    BY DEF OneStarter, StartIsOver, StartLockFree, RoomToWarm
  <1>2. NothingServed' /\ PlacedByStart'
    BY DEF NothingServed, PlacedByStart
  <1>3. SpawnedByStart'
    <2>1. \A c \in Callers : pc[c] = "spawning" => pc'[c] = "spawning"
      OBVIOUS
    <2> QED BY <2>1 DEF SpawnedByStart
  <1> QED BY <1>1, <1>2, <1>3

\* A call of the API.
LEMMA CallStartInv ==
    ASSUME TypeOK, StartInv, NEW c \in Callers, CallStart(c) \/ CallRun(c) \/ CallSession(c)
    PROVE  StartInv'
  <1>1. /\ pc[c] = "idle"
        /\ \E state \in {"start", "lease"} :
              pc' = [pc EXCEPT ![c] = state] /\ (state = "lease" => started)
        /\ UNCHANGED <<started, free, placed, thread, spawn, parent>>
    BY DEF CallStart, CallRun, CallSession, Call, Goto, controller, starting, daemons, spawning
  <1>2. started \/ \A d \in Callers : pc'[d] \notin {"lease"} \cup Custodian
    BY <1>1 DEF TypeOK, StartInv, NothingServed
  <1>3. \A d \in Callers : pc[d] \in StartStates \/ pc'[d] \in StartStates => pc'[d] = pc[d]
    BY <1>1 DEF TypeOK
  <1> QED BY <1>1, <1>2, <1>3, StartFrame DEF InFlight

\* A step of a request thread outside start(): the pool is started.
LEMMA RequestStartInv ==
    ASSUME TypeOK, StartInv, NEW c \in Callers, RequestStep(c)
    PROVE  StartInv'
  <1>1. pc[c] \in {"lease"} \cup Custodian
    BY DEF RequestStep, LeaseStep, Lease, LeaseTimesOut, RunStep, RunBegins, RunOk, RunTimesOut,
        RunRejected, RunFails, RunCollectTimesOut, RunInterrupted, RunDropped, SessionEnters,
        SessionCloses, CheckpointFails
  <1>2. \/ UNCHANGED pc
        \/ \E state \in {"idle"} \cup Custodian : pc' = [pc EXCEPT ![c] = state]
    BY DEF RequestStep, LeaseStep, Lease, LeaseTimesOut, RunStep, RunBegins, RunOk, RunTimesOut,
        RunRejected, RunFails, RunCollectTimesOut, RunInterrupted, RunDropped, SessionEnters,
        SessionCloses, CheckpointFails, EndHealthy, EndUnhealthy, Release, RetireNow, Goto
  <1>3. started
    BY <1>1 DEF StartInv, NothingServed
  <1>4. \A d \in Callers : pc[d] \in StartStates \/ pc'[d] \in StartStates => pc'[d] = pc[d]
    BY <1>1, <1>2 DEF TypeOK
  <1>5. UNCHANGED <<started, placed, spawn, parent>>
    BY DEF RequestStep, starting, spawning
  <1> QED BY <1>3, <1>4, <1>5, StartFrame DEF InFlight

\* A step of a daemon thread: the pool is started, what it spawns is its own.
LEMMA DaemonStartInv ==
    ASSUME TypeOK, CustodyInv, StartInv, NEW w \in Names, DaemonStep(w)
    PROVE  StartInv'
  <1>1. started
    BY DEF DaemonStep, CleanTests, WipeSucceeds, WipeFails, ReplaceDeletes, ReplaceHeals,
        StartInv, NothingServed
  <1>2. UNCHANGED <<started, placed, pc>>
    BY DEF DaemonStep, CleanTests, WipeSucceeds, WipeFails, ReplaceDeletes, ReplaceHeals,
        controller, pool, starting, requests
  <1>3. \A n \in Names : (InFlight(n) /\ parent[n] = 0)' => InFlight(n) /\ parent[n] = 0
    <2>1. CASE BeginSpawn(w)
      <3>1. w # 0
        BY DEF Names
      <3> QED BY <2>1, <3>1 DEF BeginSpawn, TypeOK, InFlight
    <2>2. CASE UNCHANGED <<spawn, parent>>
      BY <2>2 DEF InFlight
    <2> QED BY <2>1, <2>2 DEF DaemonStep, CleanTests, WipeSucceeds, WipeFails, ReplaceDeletes,
          ReplaceHeals, spawning
  <1> QED BY <1>1, <1>2, <1>3, StartFrame

\* What a _try_spawn reports to start().
LEMMA SpawnStartInv ==
    ASSUME TypeOK, CustodyInv, StartInv, NEW n \in Names, SpawnStep(n)
    PROVE  StartInv'
  <1> USE DEF TypeOK, StartInv
  <1>1. InFlight(n) /\ UNCHANGED <<started, parent>>
    BY DEF SpawnStep, SpawnClear, SpawnCreate, SpawnWatch, SpawnDrop, SpawnAbandon, InFlight
  <1>2. \E state \in SpawnStates \ {"unborn", "clear"} : spawn' = [spawn EXCEPT ![n] = state]
    BY DEF SpawnStep, SpawnClear, SpawnCreate, SpawnWatch, SpawnDrop, SpawnAbandon, Advance,
        Deliver, Refuse, Raise
  <1>3. \A m \in Names : (InFlight(m) /\ parent[m] = 0)' => InFlight(m) /\ parent[m] = 0
    BY <1>1, <1>2 DEF InFlight
  <1>4. CASE parent[n] # 0
    <2>1. started
      BY <1>1, <1>4 DEF CustodyInv, OneSpawnEach, NothingServed
    <2>2. UNCHANGED <<placed, pc>>
      BY <1>4 DEF SpawnStep, SpawnClear, SpawnCreate, SpawnWatch, SpawnDrop, SpawnAbandon,
          Advance, Deliver, Refuse, Raise, starting
    <2> QED BY <1>1, <1>3, <2>1, <2>2, StartFrame
  <1>5. CASE UNCHANGED <<free, placed, pc, thread>>
    <2>1. \A w \in Names : free'[w] > 0 => free[w] > 0
      BY <1>5
    <2>2. started \/ \A c \in Callers : pc'[c] \notin {"lease"} \cup Custodian
      BY <1>5 DEF NothingServed
    <2> QED BY <1>1, <1>3, <1>5, <2>1, <2>2, StartFrame
  <1>6. ASSUME parent[n] = 0, Deliver(n) \/ Refuse(n) \/ Raise(n)
        PROVE  StartInv'
    <2>1. PICK c \in Callers :
             /\ pc[c] = "spawning"
             /\ \E state \in {"publish", "warm", "teardown", "idle"} :
                   pc' = [pc EXCEPT ![c] = state]
      BY <1>6 DEF Deliver, Refuse, Raise, Goto
    <2>2. PICK state \in {"publish", "warm", "teardown", "idle"} : pc' = [pc EXCEPT ![c] = state]
      BY <2>1
    <2>3. \A d \in Callers \ {c} : pc[d] \notin StartStates /\ pc'[d] = pc[d]
      BY <2>1, <2>2 DEF OneStarter
    <2>4. ~started /\ pc'[c] = state
      BY <2>1, <2>2 DEF StartIsOver, StartLockFree
    <2>5. UNCHANGED <<free, thread>>
      BY <1>6 DEF Deliver, Refuse, Raise, records, daemons
    <2>6. OneStarter' /\ StartIsOver'
      BY <1>1, <2>3, <2>4 DEF OneStarter, StartIsOver
    <2>7. NothingServed'
      <3>1. \A w \in Names : free[w] = 0
        BY <2>1, <2>3, <2>4 DEF NothingServed
      <3> QED BY <2>3, <2>4, <2>5, <3>1 DEF NothingServed
    <2>8. SpawnedByStart'
      <3>1. \A m \in Names : InFlight(m) /\ parent[m] = 0 => m = n
        BY <1>1, <1>6 DEF SpawnedByStart
      <3>2. ~InFlight(n)'
        BY <1>6 DEF Deliver, Refuse, Raise, InFlight
      <3> QED BY <1>3, <3>1, <3>2 DEF SpawnedByStart
    <2>9. CASE Deliver(n)
      <3>1. placed' = placed \cup {n} /\ n \notin placed
        BY <1>1, <1>6, <2>9 DEF Deliver, CustodyInv, SpawnsAreNew, OutOfPool, InFlight
      <3>2. Cardinality(placed) < PoolSize
        BY <2>1 DEF RoomToWarm
      <3>3. IsFiniteSet(placed) /\ Cardinality(placed) \in Nat
        BY NamesAreFinite
      <3>4. Cardinality(placed') = Cardinality(placed) + 1
        BY <3>1, <3>3, FS_AddElement
      <3>5. pc' = [pc EXCEPT ![c] = IF Cardinality(placed') = PoolSize THEN "publish" ELSE "warm"]
        <4>1. PICK d \in Callers :
                 /\ pc[d] = "spawning"
                 /\ pc' = [pc EXCEPT ![d] = IF Cardinality(placed') = PoolSize
                                            THEN "publish" ELSE "warm"]
          BY <1>6, <2>9 DEF Deliver, Goto
        <4>2. d = c
          BY <2>3, <4>1
        <4> QED BY <4>1, <4>2
      <3>6. pc'[c] = "warm" => Cardinality(placed') < PoolSize
        BY <3>2, <3>3, <3>4, <3>5, PoolAssumption
      <3>7. pc'[c] \in {"warm", "publish"}
        BY <3>5
      <3> QED BY <2>3, <2>6, <2>7, <2>8, <3>6, <3>7 DEF RoomToWarm, PlacedByStart
    <2>10. CASE Refuse(n)
      <3>1. UNCHANGED placed
        BY <2>10 DEF Refuse, starting
      <3>2. pc'[c] \in {"publish", "teardown"}
        <4>1. PICK d \in Callers : /\ pc[d] = "spawning"
                                   /\ \E s \in {"publish", "teardown"} : pc' = [pc EXCEPT ![d] = s]
          BY <1>6, <2>10 DEF Refuse, Goto
        <4>2. d = c
          BY <2>3, <4>1
        <4> QED BY <4>1, <4>2
      <3> QED BY <2>3, <2>6, <2>7, <2>8, <3>1, <3>2 DEF RoomToWarm, PlacedByStart
    <2>11. CASE Raise(n)
      <3>1. placed' = {}
        BY <1>6, <2>11 DEF Raise
      <3>2. pc'[c] = "idle"
        <4>1. PICK d \in Callers : pc[d] = "spawning" /\ pc' = [pc EXCEPT ![d] = "idle"]
          BY <1>6, <2>11 DEF Raise, Goto
        <4>2. d = c
          BY <2>3, <4>1
        <4> QED BY <4>1, <4>2
      <3> QED BY <2>3, <2>6, <2>7, <2>8, <3>1, <3>2 DEF RoomToWarm, PlacedByStart
    <2> QED BY <1>6, <2>9, <2>10, <2>11
  <1> QED BY <1>4, <1>5, <1>6 DEF SpawnStep, SpawnClear, SpawnCreate, SpawnWatch, SpawnDrop,
        SpawnAbandon, Advance, starting, daemons

\* A step of start(): its thread alone is in it.
LEMMA StartStepStartInv ==
    ASSUME TypeOK, CustodyInv, StartInv, NEW c \in Callers, StartStep(c)
    PROVE  StartInv'
  <1> USE DEF TypeOK, StartInv
  <1>1. UNCHANGED thread
    BY DEF StartStep, daemons
  <1>2. CASE StartEnter(c)
    <2>1. /\ \A d \in Callers : pc[d] \notin StartStates
          /\ UNCHANGED <<started, free, placed, spawn, parent>>
      BY <1>2 DEF StartEnter, StartLockFree, warming, pool, starting, spawning
    <2>2. placed = {} /\ \A n \in Names : ~(InFlight(n) /\ parent[n] = 0)
      BY <2>1 DEF PlacedByStart, SpawnedByStart
    <2>3. CASE ~started /\ pc' = [pc EXCEPT ![c] = "namespace"]
      BY <1>1, <2>1, <2>2, <2>3 DEF OneStarter, StartIsOver, NothingServed, PlacedByStart,
         SpawnedByStart, RoomToWarm, InFlight
    <2>4. CASE started /\ \E state \in {"idle", "lease"} : pc' = [pc EXCEPT ![c] = state]
      BY <2>1, <2>4, StartFrame DEF InFlight
    <2> QED BY <1>2, <2>3, <2>4 DEF StartEnter, AfterLock, AfterStart, Goto
  <1>3. CASE ~StartEnter(c)
    <2>1. pc[c] \in StartStates /\ ~started
      BY <1>3 DEF StartStep, StartNamespace, StartReclaim, StartPolicy, StartWarm, StartPublish,
          StartTeardown, StartIsOver, StartLockFree
    <2>2. \A d \in Callers \ {c} : pc[d] \notin StartStates
      BY <2>1 DEF OneStarter
    <2>3. CASE StartNamespace(c) \/ StartReclaim(c) \/ StartPolicy(c)
      <3>1. UNCHANGED <<started, free, placed, spawn, parent>>
        BY <2>3 DEF StartNamespace, StartReclaim, StartPolicy, warming, pool, starting, spawning
      <3>2. placed = {} /\ \A n \in Names : ~(InFlight(n) /\ parent[n] = 0)
        BY <2>2, <2>3 DEF PlacedByStart, SpawnedByStart, StartNamespace, StartReclaim, StartPolicy
      <3>3. UNCHANGED pc \/ \E state \in {"reclaim", "warm", "idle"} :
                               pc' = [pc EXCEPT ![c] = state]
        BY <2>3 DEF StartNamespace, StartReclaim, StartPolicy, Goto
      <3>4. \A w \in Names : free[w] = 0
        BY <2>1, <2>2, <2>3 DEF NothingServed, StartNamespace, StartReclaim, StartPolicy
      <3>5. Cardinality(placed) < PoolSize
        BY <3>2, FS_EmptySet, PoolAssumption
      <3> QED BY <1>1, <2>1, <2>2, <3>1, <3>2, <3>3, <3>4, <3>5 DEF OneStarter, StartIsOver,
            NothingServed, PlacedByStart, SpawnedByStart, RoomToWarm, InFlight
    <2>4. CASE StartWarm(c)
      <3>1. /\ pc[c] = "warm" /\ pc' = [pc EXCEPT ![c] = "spawning"]
            /\ UNCHANGED <<started, free, placed>>
        BY <2>4 DEF StartWarm, Goto, starting
      <3>2. \A n \in Names : ~(InFlight(n) /\ parent[n] = 0)
        BY <2>2, <3>1 DEF SpawnedByStart
      <3>3. \A n \in Names : (InFlight(n) /\ parent[n] = 0)' => n = serial'
        BY <2>4, <3>2 DEF StartWarm, BeginSpawn, InFlight
      <3> QED BY <1>1, <2>1, <2>2, <3>1, <3>3 DEF OneStarter, StartIsOver,
            NothingServed, PlacedByStart, SpawnedByStart, RoomToWarm
    <2>5. CASE StartPublish(c)
      <3>1. pc[c] = "publish" /\ UNCHANGED <<spawn, parent>>
        BY <2>5 DEF StartPublish, spawning
      <3>2. \A n \in Names : ~(InFlight(n) /\ parent[n] = 0)
        BY <2>2, <3>1 DEF SpawnedByStart
      <3>3. CASE placed' \subseteq placed /\ UNCHANGED <<started, pc>>
        BY <1>1, <2>1, <2>2, <3>1, <3>2, <3>3 DEF OneStarter, StartIsOver,
            NothingServed, PlacedByStart, SpawnedByStart, RoomToWarm, InFlight
      <3>4. CASE /\ placed = {} /\ started' = TRUE /\ UNCHANGED <<free, placed>>
                 /\ \E state \in {"idle", "lease"} : pc' = [pc EXCEPT ![c] = state]
        BY <1>1, <2>1, <2>2, <3>1, <3>2, <3>4 DEF OneStarter, StartIsOver, StartLockFree,
            NothingServed, PlacedByStart, SpawnedByStart, RoomToWarm, InFlight
      <3> QED BY <2>5, <3>3, <3>4 DEF StartPublish, AfterStart, Goto
    <2>6. CASE StartTeardown(c)
      <3>1. /\ pc[c] = "teardown" /\ UNCHANGED <<started, free, spawn, parent>>
            /\ placed' \subseteq placed
            /\ \/ UNCHANGED pc
               \/ placed' = {} /\ pc' = [pc EXCEPT ![c] = "idle"]
        BY <2>6 DEF StartTeardown, pool, spawning, Goto
      <3>2. \A n \in Names : free[n] = 0 /\ ~(InFlight(n) /\ parent[n] = 0)
        BY <2>1, <2>2, <3>1 DEF SpawnedByStart, NothingServed
      <3> QED BY <1>1, <2>1, <2>2, <3>1, <3>2 DEF OneStarter, StartIsOver,
            NothingServed, PlacedByStart, SpawnedByStart, RoomToWarm, InFlight
    <2> QED BY <1>3, <2>3, <2>4, <2>5, <2>6 DEF StartStep
  <1> QED BY <1>2, <1>3

\* close(), the cluster, and a step of somebody else.
LEMMA OtherStartInv ==
    ASSUME TypeOK, StartInv,
           \/ \E n \in Names : ClusterStep(n)
           \/ CloseCalled \/ CloserStep
           \/ UNCHANGED vars
    PROVE  StartInv'
  <1>1. UNCHANGED <<started, placed, pc, thread, spawn, parent>>
    BY DEF ClusterStep, CloseCalled, CloseBegins, CloserStep, CloseLists, CloseDeletes,
        CloseDrains, vars, controller, starting, requests, daemons, spawning
  <1>2. UNCHANGED free \/ \E w \in Names : Get(w)
    BY DEF ClusterStep, CloseCalled, CloseBegins, CloserStep, CloseLists, CloseDeletes,
        CloseDrains, vars, controller
  <1>3. \A w \in Names : free'[w] > 0 => free[w] > 0
    BY <1>2 DEF Get, TypeOK
  <1>4. started \/ \A c \in Callers : pc'[c] \notin {"lease"} \cup Custodian
    BY <1>1 DEF StartInv, NothingServed
  <1> QED BY <1>1, <1>3, <1>4, StartFrame DEF InFlight

\* Init and Crash leave no start() under way.
LEMMA InitStartInv == (Init => StartInv) /\ (Crash => StartInv')
  BY FS_EmptySet, PoolAssumption DEF Init, Crash, StartInv, OneStarter, StartIsOver,
      StartLockFree, NothingServed, PlacedByStart, SpawnedByStart, RoomToWarm, InFlight

\* StartInv is inductive, given the types and CustodyInv.
LEMMA StartInvStep == TypeOK /\ CustodyInv /\ StartInv /\ [Next]_vars => StartInv'
  BY CallStartInv, RequestStartInv, DaemonStartInv, SpawnStartInv, StartStepStartInv,
     OtherStartInv, InitStartInv DEF Next, CallerStep

\* StartInv holds in every reachable state.
LEMMA StartInvariant == Spec => []StartInv
  BY InitStartInv, StartInvStep, TypeCorrect, CustodyInvariant, PTL DEF Spec

----------------------------------------------------------------------------
(* The pool never grows beyond pool_size. *)

\* Replacing one element by a new one keeps the number of elements.
LEMMA SwapCardinality ==
    ASSUME NEW S, S \subseteq Names, NEW p \in S, NEW n \in Names \ S
    PROVE  Cardinality((S \ {p}) \cup {n}) = Cardinality(S)
  <1>1. /\ IsFiniteSet(S) /\ Cardinality(S) \in Nat
        /\ IsFiniteSet(S \ {p}) /\ Cardinality(S \ {p}) \in Nat
    BY NamesAreFinite
  <1>2. Cardinality(S \ {p}) = Cardinality(S) - 1
    BY <1>1, FS_RemoveElement
  <1>3. Cardinality((S \ {p}) \cup {n}) = Cardinality(S \ {p}) + 1
    <2>1. n \notin S \ {p}
      OBVIOUS
    <2> QED BY <1>1, <2>1, FS_AddElement
  <1> QED BY <1>1, <1>2, <1>3

\* A step that hands start() a worker finds room for it.
JoinsStart(n) ==
    /\ ~started /\ InService = placed
    /\ Cardinality(placed) < PoolSize
    /\ InService' = placed \cup {n}

\* A step that hands a daemon thread its replacement ends that thread.
Replaces(n) ==
    /\ parent[n] \in InService /\ n \in Names \ InService
    /\ InService' = (InService \ {parent[n]}) \cup {n}

\* What the return of a _try_spawn does to the set of workers in service.
LEMMA DeliverService ==
    ASSUME TypeOK, CustodyInv, StartInv, NEW n \in Names, spawn[n] = "wait", Deliver(n),
           UNCHANGED held
    PROVE  JoinsStart(n) \/ Replaces(n)
  <1> USE DEF TypeOK, CustodyInv, StartInv
  <1>1. InFlight(n) /\ OutOfPool(n)
    BY DEF InFlight, SpawnsAreNew
  <1>2. CASE parent[n] = 0
    <2>1. PICK c \in Callers : pc[c] = "spawning"
      BY <1>1, <1>2 DEF SpawnedByStart
    <2>2. ~started /\ Cardinality(placed) < PoolSize
      BY <2>1 DEF StartIsOver, StartLockFree, RoomToWarm
    <2>3. \A w \in Names : /\ free[w] = 0 /\ thread[w] = "none"
                           /\ \A d \in Callers : held[d] # w
      BY <2>1, <2>2 DEF NothingServed, OneStarter, HeldByCustodian, Names
    <2>4. InService = placed
      BY <2>3 DEF InService
    <2>5. placed' = placed \cup {n} /\ UNCHANGED <<free, thread>>
      BY <1>2 DEF Deliver
    <2>6. InService' = placed \cup {n}
      BY <2>3, <2>5 DEF InService
    <2> QED BY <2>2, <2>4, <2>6 DEF JoinsStart
  <1>3. CASE parent[n] # 0
    <2>1. PICK p \in Names : p = parent[n] /\ thread[p] = "spawning" /\ p # n
      BY <1>1, <1>3 DEF OneSpawnEach, OutOfPool
    <2>2. /\ free[p] = 0 /\ p \notin placed
          /\ \A d \in Callers : held[d] # p
      BY <2>1 DEF ExclusiveCustody
    <2>3. /\ free' = [free EXCEPT ![n] = @ + 1]
          /\ thread' = [thread EXCEPT ![p] = "none"]
          /\ UNCHANGED placed
      BY <1>3, <2>1 DEF Deliver, PutReplacement, Put, Daemon
    <2>4. p \in InService /\ n \notin InService
      BY <1>1, <2>1 DEF InService, OutOfPool
    <2>5. p \notin InService' /\ n \in InService'
      BY <2>1, <2>2, <2>3 DEF InService
    <2>6. \A w \in Names \ {p, n} : free'[w] = free[w] /\ thread'[w] = thread[w]
      BY <2>3
    <2>7. \A w \in Names \ {p, n} : w \in InService' <=> w \in InService
      BY <2>3, <2>6 DEF InService
    <2>8. InService' \subseteq Names /\ InService \subseteq Names
      BY DEF InService
    <2>9. InService' = (InService \ {p}) \cup {n}
      BY <2>1, <2>4, <2>5, <2>7, <2>8
    <2> QED BY <2>1, <2>4, <2>9 DEF Replaces
  <1> QED BY <1>2, <1>3

\* What any step does to it.
LEMMA ServiceStep ==
    ASSUME TypeOK, CustodyInv, StartInv, [Next]_vars
    PROVE  \/ InService' \subseteq InService
           \/ \E n \in Names : JoinsStart(n) \/ Replaces(n)
  <1>1. CustodyMoves
    BY StepMoves
  <1>2. CASE \E n \in Names : spawn[n] = "wait" /\ Deliver(n) /\ UNCHANGED held
    BY <1>2, DeliverService
  <1>3. CASE \A n \in Names : ~(spawn[n] = "wait" /\ Deliver(n) /\ UNCHANGED held)
    <2>1. \A w \in Names : w \in InService' => w \in InService
      BY <1>1, <1>3 DEF CustodyMoves
    <2>2. InService' \subseteq Names
      BY DEF InService
    <2> QED BY <2>1, <2>2
  <1> QED BY <1>2, <1>3

\* However requests, daemon threads, start() and crashes interleave, the pool never
\* has more than pool_size workers: never more runs at once, never more pods in use.
THEOREM PoolNeverOverfills == Spec => []ParallelismCeiling
  <1>1. Init => ParallelismCeiling
    <2>1. Init => InService = {}
      BY DEF Init, InService, Names
    <2> QED BY <2>1, FS_EmptySet, PoolAssumption DEF ParallelismCeiling
  <1>2. ASSUME TypeOK, CustodyInv, StartInv, ParallelismCeiling, [Next]_vars
        PROVE  ParallelismCeiling'
    <2> USE DEF ParallelismCeiling
    <2>1. /\ InService \subseteq Names /\ InService' \subseteq Names
          /\ placed \subseteq Names
      BY <1>2 DEF InService, TypeOK
    <2>2. /\ IsFiniteSet(InService) /\ Cardinality(InService) \in Nat
          /\ Cardinality(InService') \in Nat
          /\ IsFiniteSet(placed) /\ Cardinality(placed) \in Nat
      BY <2>1, NamesAreFinite
    <2>3. CASE InService' \subseteq InService
      <3>1. Cardinality(InService') <= Cardinality(InService)
        BY <2>2, <2>3, FS_Subset
      <3> QED BY <1>2, <2>2, <3>1, PoolAssumption
    <2>4. ASSUME NEW n \in Names, JoinsStart(n)
          PROVE  ParallelismCeiling'
      <3>1. Cardinality(placed \cup {n}) <= Cardinality(placed) + 1
        BY <2>2, FS_AddElement
      <3> QED BY <2>2, <2>4, <3>1, PoolAssumption DEF JoinsStart
    <2>5. ASSUME NEW n \in Names, Replaces(n)
          PROVE  ParallelismCeiling'
      <3>1. Cardinality(InService') = Cardinality(InService)
        BY <2>1, <2>5, SwapCardinality DEF Replaces
      <3> QED BY <1>2, <3>1
    <2> QED BY <1>2, <2>3, <2>4, <2>5, ServiceStep
  <1> QED BY <1>1, <1>2, TypeCorrect, CustodyInvariant, StartInvariant, PTL DEF Spec

----------------------------------------------------------------------------
(* What a step does to the pods: only a create makes one, and nobody but      *)
(* close() deletes one that a _try_spawn waits for.                           *)

ComesUp(n) == pod[n].phase \in {"Pending", "Running"}

FaultsMove == faults' = faults \/ (faults < MaxFaults /\ faults' = faults + 1)

PodsMove ==
    \A n \in Names : /\ Exists(n)' => Exists(n) \/ (spawn[n] = "create" /\ spawn'[n] # "create")
                     /\ spawn[n] = "wait" /\ ComesUp(n) => ComesUp(n)' \/ closer = "sweep"

\* A call of the cluster is about one pod.
LEMMA ClusterCall ==
    ASSUME TypeOK, NEW n \in Names,
           \/ DeleteReturns(n)   \/ DeleteRaises(n)     \/ CreateReturns(n)
           \/ CreateForbidden(n) \/ CreateRaises(n)     \/ WatchSeesRunning(n)
           \/ WatchSeesUnschedulable(n) \/ WatchRaises(n)
           \/ PodStarts(n) \/ PodVanishes(n) \/ WatchdogExits(n)
    PROVE  /\ FaultsMove
           /\ \A m \in Names : m # n => pod'[m] = pod[m]
           /\ Exists(n)' => Exists(n) \/ CreateReturns(n) \/ CreateRaises(n)
  BY DEF TypeOK, ClusterTypeOK, FaultsMove, Fault, DeleteReturns, DeleteRaises, CreateReturns,
      CreateForbidden, CreateRaises, WatchSeesRunning, WatchSeesUnschedulable, WatchRaises,
      PodStarts, PodVanishes, WatchdogExits, Exists, Up, Pod

\* A deletion of a pod no _try_spawn waits for.
LEMMA DeletePods ==
    ASSUME TypeOK, NEW n \in Names, DeleteReturns(n) \/ DeleteRaises(n),
           spawn[n] # "wait" \/ closer = "sweep"
    PROVE  PodsMove /\ FaultsMove
  <1>1. Exists(n)' => Exists(n)
    BY DEF TypeOK, ClusterTypeOK, DeleteReturns, DeleteRaises, Exists, Pod
  <1> QED BY <1>1, ClusterCall DEF PodsMove, Exists, ComesUp

\* A step that leaves the phases alone.
LEMMA PhasesKept ==
    ASSUME \A n \in Names : pod'[n].phase = pod[n].phase
    PROVE  PodsMove
  BY DEF PodsMove, Exists, ComesUp

\* A step of a request thread outside start() leaves the phases alone.
LEMMA RequestPods ==
    ASSUME TypeOK, NEW c \in Callers, RequestStep(c)
    PROVE  FaultsMove /\ \A n \in Names : pod'[n].phase = pod[n].phase
  <1>1. FaultsMove
    BY DEF RequestStep, LeaseStep, Lease, LeaseTimesOut, RunStep, RunBegins, RunOk, RunTimesOut,
        RunRejected, RunFails, RunCollectTimesOut, RunInterrupted, RunDropped, SessionEnters,
        SessionCloses, CheckpointFails, cluster, Fault, FaultsMove
  <1>2. \/ UNCHANGED pod
        \/ \E d \in BOOLEAN : pod' = [pod EXCEPT ![held[c]].dirty = d]
        \/ \E b \in BOOLEAN : pod' = [pod EXCEPT ![held[c]].live = b]
        \/ pod' = [pod EXCEPT ![held[c]].dirty = TRUE, ![held[c]].live = TRUE]
    BY DEF RequestStep, LeaseStep, Lease, LeaseTimesOut, RunStep, RunBegins, RunOk, RunTimesOut,
        RunRejected, RunFails, RunCollectTimesOut, RunInterrupted, RunDropped, SessionEnters,
        SessionCloses, CheckpointFails, Traces, cluster
  <1>3. pod \in [Names -> Pods]
    BY DEF TypeOK, ClusterTypeOK
  <1>4. \A n \in Names : pod'[n].phase = pod[n].phase
    <2>1. CASE UNCHANGED pod
      BY <2>1
    <2>2. CASE \E d \in BOOLEAN : pod' = [pod EXCEPT ![held[c]].dirty = d]
      BY <1>3, <2>2 DEF Pods
    <2>3. CASE \E b \in BOOLEAN : pod' = [pod EXCEPT ![held[c]].live = b]
      BY <1>3, <2>3 DEF Pods
    <2>4. CASE pod' = [pod EXCEPT ![held[c]].dirty = TRUE, ![held[c]].live = TRUE]
      BY <1>3, <2>4 DEF Pods
    <2> QED BY <1>2, <2>1, <2>2, <2>3, <2>4
  <1> QED BY <1>1, <1>4

\* A step of a _try_spawn is about the pod of its name.
LEMMA SpawnPods ==
    ASSUME TypeOK, NEW n \in Names, SpawnStep(n)
    PROVE  PodsMove /\ FaultsMove
  <1>1. FaultsMove /\ \A m \in Names : m # n => pod'[m] = pod[m]
    BY ClusterCall DEF SpawnStep, SpawnClear, SpawnCreate, SpawnWatch, SpawnDrop, SpawnAbandon
  <1>2. Exists(n)' => Exists(n) \/ (spawn[n] = "create" /\ spawn'[n] # "create")
    <2>1. CASE DeleteReturns(n) \/ DeleteRaises(n) \/ UNCHANGED pod
      BY <2>1 DEF DeleteReturns, DeleteRaises, Exists, Pod, TypeOK, ClusterTypeOK
    <2>2. CASE SpawnCreate(n)
      BY <2>2 DEF SpawnCreate, CreateForbidden, Advance, Refuse, Raise, Exists, TypeOK
    <2> QED BY <2>1, <2>2 DEF SpawnStep, SpawnClear, SpawnWatch, SpawnDrop, SpawnAbandon,
          WatchSeesRunning, WatchSeesUnschedulable, WatchRaises
  <1>3. spawn[n] = "wait" => UNCHANGED pod
    BY DEF SpawnStep, SpawnClear, SpawnCreate, SpawnWatch, SpawnDrop, SpawnAbandon,
        WatchSeesRunning, WatchSeesUnschedulable, WatchRaises
  <1> QED BY <1>1, <1>2, <1>3 DEF PodsMove, Exists, ComesUp

\* start() deletes pods before it spawns, and those in its list.
LEMMA StartPods ==
    ASSUME TypeOK, CustodyInv, StartInv, NEW c \in Callers, StartStep(c)
    PROVE  PodsMove /\ FaultsMove
  <1> USE DEF TypeOK
  <1>1. CASE UNCHANGED pod
    <2>1. PodsMove
      BY <1>1, PhasesKept
    <2>2. CASE \E n \in Names : DeleteReturns(n) \/ DeleteRaises(n)
      BY <2>1, <2>2, ClusterCall
    <2>3. CASE UNCHANGED faults \/ Fault("api")
      BY <2>1, <2>3 DEF Fault, FaultsMove
    <2> QED BY <2>2, <2>3 DEF StartStep, StartEnter, StartNamespace, StartReclaim,
          StartPolicy, StartWarm, StartPublish, StartTeardown, cluster
  <1>2. ASSUME NEW n \in Names, DeleteReturns(n) \/ DeleteRaises(n), spawn[n] # "wait"
        PROVE  PodsMove /\ FaultsMove
    BY <1>2, DeletePods
  <1>3. CASE StartReclaim(c)
    <2>1. ~started /\ \A d \in Callers : pc[d] # "spawning"
      BY <1>3 DEF StartReclaim, StartInv, StartIsOver, StartLockFree, OneStarter
    <2>2. \A n \in Names : ~InFlight(n)
      BY <2>1 DEF StartInv, SpawnedByStart, NothingServed, CustodyInv, OneSpawnEach
    <2>3. \E n \in Names : DeleteReturns(n) \/ DeleteRaises(n)
      BY <1>3 DEF StartReclaim
    <2> QED BY <1>2, <2>2, <2>3 DEF InFlight
  <1>4. CASE StartTeardown(c)
    <2>1. \A n \in placed : spawn[n] # "wait"
      BY DEF CustodyInv, SpawnsAreNew, OutOfPool
    <2> QED BY <1>1, <1>2, <1>4, <2>1 DEF StartTeardown, cluster
  <1> QED BY <1>1, <1>3, <1>4 DEF StartStep, StartEnter, StartNamespace, StartPolicy, StartWarm,
        StartPublish, cluster

\* A daemon thread wipes or deletes the worker it has.
LEMMA DaemonPods ==
    ASSUME TypeOK, CustodyInv, NEW w \in Names, DaemonStep(w)
    PROVE  PodsMove /\ FaultsMove
  <1>1. CASE ReplaceDeletes(w)
    <2>1. spawn[w] # "wait"
      BY <1>1 DEF ReplaceDeletes, CustodyInv, SpawnsAreNew, OutOfPool
    <2> QED BY <1>1, <2>1, DeletePods DEF ReplaceDeletes
  <1>2. CASE UNCHANGED pod /\ (UNCHANGED faults \/ Fault("exec"))
    BY <1>2, PhasesKept DEF Fault, FaultsMove
  <1>3. CASE WipeSucceeds(w)
    <2>1. \A n \in Names : pod'[n].phase = pod[n].phase
      BY <1>3 DEF WipeSucceeds, TypeOK, ClusterTypeOK, Pods
    <2> QED BY <1>3, <2>1, PhasesKept DEF WipeSucceeds, FaultsMove
  <1> QED BY <1>1, <1>2, <1>3 DEF DaemonStep, CleanTests, WipeFails, ReplaceHeals, cluster

\* What any step does to the pods and to the count of faults.
LEMMA PodsStep ==
    ASSUME TypeOK, CustodyInv, StartInv, [Next]_vars
    PROVE  PodsMove /\ FaultsMove
  <1>1. CASE UNCHANGED cluster
    BY <1>1, PhasesKept DEF cluster, FaultsMove
  <1>2. ASSUME NEW c \in Callers, RequestStep(c)
        PROVE  PodsMove /\ FaultsMove
    BY <1>2, RequestPods, PhasesKept
  <1>3. CASE CloserStep
    <2>1. CASE CloseDeletes
      BY <2>1, DeletePods DEF CloseDeletes, TypeOK
    <2>2. CASE CloseLists
      BY <2>2, PhasesKept DEF CloseLists, Fault, FaultsMove
    <2> QED BY <1>1, <1>3, <2>1, <2>2 DEF CloserStep, CloseDrains
  <1>4. ASSUME NEW n \in Names, ClusterStep(n)
        PROVE  PodsMove /\ FaultsMove
    <2>1. CASE RunawayEnds(n)
      <3>1. \A m \in Names : pod'[m].phase = pod[m].phase
        BY <2>1 DEF RunawayEnds, TypeOK, ClusterTypeOK, Pods
      <3> QED BY <2>1, <3>1, PhasesKept DEF RunawayEnds, FaultsMove
    <2>2. CASE PodStarts(n) \/ PodVanishes(n) \/ IdleTooLong(n)
      <3>1. FaultsMove /\ \A m \in Names : m # n => pod'[m] = pod[m]
        BY <2>2, ClusterCall DEF IdleTooLong
      <3>2. Exists(n)' => Exists(n)
        BY <2>2 DEF PodStarts, PodVanishes, IdleTooLong, WatchdogExits, Exists, Up, Pod, TypeOK,
            ClusterTypeOK
      <3>3. spawn[n] = "wait" /\ ComesUp(n) => ComesUp(n)'
        BY <2>2 DEF PodStarts, PodVanishes, IdleTooLong, ComesUp, TypeOK, ClusterTypeOK, Pods
      <3> QED BY <3>1, <3>2, <3>3 DEF PodsMove, Exists, ComesUp
    <2> QED BY <1>4, <2>1, <2>2 DEF ClusterStep
  <1> QED BY <1>1, <1>2, <1>3, <1>4, SpawnPods, StartPods, DaemonPods
        DEF Next, CallerStep, CallStart, CallRun, CallSession, Call, CloseCalled, CloseBegins,
            Crash, vars

----------------------------------------------------------------------------
(* What a _try_spawn that fails leaves.                                       *)

\* The API server answers and a deletion ends within the 60 s it is polled for.
CallsAssumption == "api" \notin FaultKinds /\ "stuck" \notin FaultKinds

\* Nor is there a pod once the stale one is cleared.
ClearedInv == \A n \in Names : spawn[n] \in {"create", "failed"} => ~Exists(n)

LEMMA SpawnClears ==
    ASSUME CallsAssumption, TypeOK, ClearedInv, NEW n \in Names, SpawnStep(n)
    PROVE  /\ \A m \in Names : m # n => spawn'[m] = spawn[m]
           /\ spawn'[n] \in {"create", "failed"} => ~Exists(n)'
  <1> USE DEF TypeOK, ClusterTypeOK
  <1>1. ~Fault("api") /\ ~Fault("stuck")
    BY DEF Fault, CallsAssumption
  <1>2. ~DeleteRaises(n) /\ (DeleteReturns(n) => ~Exists(n)')
    BY <1>1 DEF DeleteReturns, DeleteRaises, Exists, Pod
  <1>3. CASE SpawnClear(n) \/ SpawnDrop(n) \/ SpawnAbandon(n)
    BY <1>2, <1>3 DEF SpawnClear, SpawnDrop, SpawnAbandon, Advance, Refuse, Raise
  <1>4. CASE SpawnCreate(n)
    <2>1. ~Exists(n)
      BY <1>4 DEF SpawnCreate, ClearedInv
    <2> QED BY <1>1, <1>4, <2>1 DEF SpawnCreate, CreateForbidden, CreateRaises, Advance, Refuse,
          Raise, Exists
  <1>5. CASE SpawnWatch(n)
    BY <1>5 DEF SpawnWatch, Advance, Deliver
  <1> QED BY <1>3, <1>4, <1>5 DEF SpawnStep

\* No other step ends a _try_spawn: they begin one or leave them alone.
LEMMA SpawnsElsewhere ==
    ASSUME TypeOK, [Next]_vars, \A n \in Names : ~SpawnStep(n)
    PROVE  \A n \in Names : spawn'[n] \in {spawn[n], "clear", "unborn"}
  <1> USE DEF TypeOK
  <1>1. CASE UNCHANGED spawn
    BY <1>1
  <1>2. CASE \E p \in Names \cup {0} : BeginSpawn(p)
    BY <1>2 DEF BeginSpawn
  <1>3. ASSUME NEW c \in Callers, StartStep(c)
        PROVE  UNCHANGED spawn \/ BeginSpawn(0)
    BY <1>3 DEF StartStep, StartEnter, StartNamespace, StartReclaim, StartPolicy, StartWarm,
        StartPublish, StartTeardown, warming, spawning
  <1>4. ASSUME NEW w \in Names, DaemonStep(w)
        PROVE  UNCHANGED spawn \/ BeginSpawn(w)
    BY <1>4 DEF DaemonStep, CleanTests, WipeSucceeds, WipeFails, ReplaceDeletes, ReplaceHeals,
        spawning
  <1>5. CASE Crash
    BY <1>5 DEF Crash
  <1> QED BY <1>1, <1>2, <1>3, <1>4, <1>5 DEF Next, CallerStep, CallStart, CallRun, CallSession, Call,
        RequestStep, ClusterStep, CloseCalled, CloserStep, spawning, vars

\* Under CallsAssumption a _try_spawn that fails leaves no pod under its name, and
\* none turns up there later (runner.py:816-817, 835); through crashes and close().
THEOREM NothingLeaks == CallsAssumption => (Spec => []GivenUpIsDeleted)
  <1> SUFFICES ASSUME CallsAssumption
               PROVE  Spec => []GivenUpIsDeleted
    OBVIOUS
  <1>1. Init => ClearedInv
    BY DEF Init, ClearedInv
  <1>2. TypeOK /\ CustodyInv /\ StartInv /\ ClearedInv /\ [Next]_vars => ClearedInv'
    <2> SUFFICES ASSUME TypeOK, CustodyInv, StartInv, ClearedInv, [Next]_vars,
                        NEW n \in Names, spawn'[n] \in {"create", "failed"}
                 PROVE  ~Exists(n)'
      BY DEF ClearedInv
    <2>1. PodsMove
      BY PodsStep
    <2>2. CASE spawn'[n] = spawn[n]
      BY <2>1, <2>2 DEF PodsMove, ClearedInv
    <2>3. CASE spawn'[n] # spawn[n]
      <3>1. PICK m \in Names : SpawnStep(m)
        BY <2>3, SpawnsElsewhere
      <3> QED BY <2>3, <3>1, SpawnClears
    <2> QED BY <2>2, <2>3
  <1>3. ClearedInv => GivenUpIsDeleted
    BY DEF ClearedInv, GivenUpIsDeleted
  <1> QED BY <1>1, <1>2, <1>3, TypeCorrect, CustodyInvariant, StartInvariant, PTL DEF Spec

----------------------------------------------------------------------------
(* Self-heal: a slot of the pool is lost to three faults, no fewer.           *)

\* No interrupted call and no API error: the last ends a _replace that has not begun
\* its attempts.
HealAssumption ==
    /\ "interrupt" \notin Lapses
    /\ "api" \notin FaultKinds

Unclosed == ~closed /\ closer = "idle"

WatchedComesUp == \A n \in Names : spawn[n] = "wait" => ComesUp(n)

\* Of a pool that is open.
HealInv == Unclosed /\ WatchedComesUp

\* The _try_spawn of n is about to raise.
Failing(n) == spawn[n] \in {"drop", "abandon"} \/ (spawn[n] = "create" /\ Exists(n))

Doomed(w) == \E n \in Names : InFlight(n) /\ parent[n] = w /\ Failing(n)

\* The attempt i to replace w has failed, or is about to.
Failed(w, i) ==
    /\ thread[w] \in {"heal", "spawning"}
    /\ i < attempt[w] \/ (i = attempt[w] /\ Doomed(w))

\* What the faults so far have been spent on, apart from the slots that are lost.
Charges == {a \in Names \X (0..2) : Failed(a[1], a[2])}

Serving == started \/ \E c \in Callers : pc[c] = "publish"

LossInv == Serving /\ ~closed => 3 * (Floor - Cardinality(InService)) + Cardinality(Charges) <= faults

\* There are finitely many charges.
LEMMA ChargesAreFinite ==
    ASSUME NEW S, S \subseteq Names \X (0..2)
    PROVE  IsFiniteSet(S) /\ Cardinality(S) \in Nat
  <1>1. IsFiniteSet(Names)
    BY FS_Interval, ClusterAssumption DEF Names
  <1>2. IsFiniteSet(0..2)
    <2>1. 0 \in Int /\ 2 \in Int
      OBVIOUS
    <2> QED BY ONLY <2>1, FS_Interval
  <1>3. IsFiniteSet(Names \X (0..2))
    BY <1>1, <1>2, FS_Product
  <1> QED BY <1>3, FS_Subset, FS_CardinalityType

\* A step that begins no attempt and ends none.
LEMMA ChargesFrame ==
    ASSUME TypeOK, CustodyInv, PodsMove,
           UNCHANGED <<spawn, parent>>,
           \A w \in Names : thread'[w] \in {"heal", "spawning"} =>
               \/ attempt'[w] = 0 /\ thread[w] # "spawning"
               \/ thread[w] \in {"heal", "spawning"} /\ attempt'[w] = attempt[w]
    PROVE  Charges' \subseteq Charges
  <1>1. ASSUME NEW w \in Names, NEW i \in 0..2, Failed(w, i)'
        PROVE  Failed(w, i)
    <2>1. Doomed(w)' => Doomed(w)
      BY DEF PodsMove, Doomed, Failing, InFlight
    <2>2. Doomed(w) => thread[w] = "spawning"
      BY <1>1 DEF Doomed, CustodyInv, OneSpawnEach, Names
    <2>3. thread'[w] \in {"heal", "spawning"}
      BY <1>1 DEF Failed
    <2>4. CASE attempt'[w] = 0 /\ thread[w] # "spawning"
      BY <1>1, <2>1, <2>2, <2>4 DEF Failed
    <2>5. CASE thread[w] \in {"heal", "spawning"} /\ attempt'[w] = attempt[w]
      BY <1>1, <2>1, <2>5 DEF Failed
    <2> QED BY <2>3, <2>4, <2>5
  <1> QED BY <1>1 DEF Charges

\* A _try_spawn that begins, of start() or of a _replace, is not failing yet.
LEMMA BeginSpawnCharges ==
    ASSUME TypeOK, CustodyInv, UNCHANGED <<cluster, attempt>>,
           NEW p \in Names \cup {0}, BeginSpawn(p),
           \/ UNCHANGED thread
           \/ thread[p] = "heal" /\ thread' = [thread EXCEPT ![p] = "spawning"]
    PROVE  Charges' \subseteq Charges
  <1> USE DEF TypeOK
  <1>1. PICK n \in Names : /\ spawn' = [spawn EXCEPT ![n] = "clear"]
                           /\ parent' = [parent EXCEPT ![n] = p]
    <2>1. serial' \in Names
      BY BeginSpawnTypeOK
    <2> QED BY <2>1 DEF BeginSpawn
  <1>2. spawn'[n] = "clear" /\ \A m \in Names \ {n} : spawn'[m] = spawn[m] /\ parent'[m] = parent[m]
    BY <1>1
  <1>3. \A w \in Names : Doomed(w)' => Doomed(w)
    BY <1>2 DEF Doomed, Failing, InFlight, Exists, cluster
  <1>4. \A w \in Names : /\ attempt'[w] = attempt[w]
                         /\ thread'[w] \in {"heal", "spawning"} => thread[w] \in {"heal", "spawning"}
    OBVIOUS
  <1>5. \A w \in Names, i \in 0..2 : Failed(w, i)' => Failed(w, i)
    BY <1>3, <1>4 DEF Failed
  <1> QED BY <1>5 DEF Charges

----------------------------------------------------------------------------
(* A step of a _try_spawn for a _replace: what it spends, a fault pays for.    *)

\* The charges, and the attempt for p when a fault happens now.
Paid(p) == Charges \cup {a \in {<<p, attempt[p]>>} : faults' = faults + 1}

\* An attempt that fails is charged already, or a fault happens now.
LEMMA FailureIsPaid ==
    ASSUME HealAssumption, TypeOK, CustodyInv, NEW n \in Names, SpawnStep(n),
           Refuse(n) \/ Raise(n), parent[n] # 0
    PROVE  <<parent[n], attempt[parent[n]]>> \in Paid(parent[n])
  <1> USE DEF TypeOK, ClusterTypeOK
  <1> DEFINE p == parent[n]
  <1>1. InFlight(n)
    BY DEF SpawnStep, SpawnClear, SpawnCreate, SpawnWatch, SpawnDrop, SpawnAbandon, InFlight
  <1>2. p \in Names /\ thread[p] = "spawning" /\ attempt[p] \in 0..2
    BY <1>1 DEF CustodyInv, OneSpawnEach
  <1>3. spawn'[n] = "failed"
    BY DEF Refuse, Raise
  <1>4. \A k \in Faults : Fault(k) => <<p, attempt[p]>> \in Paid(p)
    BY DEF Fault, Paid
  <1>5. Failing(n) => <<p, attempt[p]>> \in Paid(p)
    <2> SUFFICES ASSUME Failing(n) PROVE <<p, attempt[p]>> \in Charges
      BY DEF Paid
    <2>1. Failed(p, attempt[p])
      BY <1>1, <1>2 DEF Failed, Doomed
    <2> QED BY <1>2, <2>1 DEF Charges
  <1>6. ~Fault("api")
    BY DEF Fault, HealAssumption
  <1>7. CASE SpawnClear(n)
    BY <1>3, <1>6, <1>7 DEF SpawnClear, DeleteRaises, Advance
  <1>8. CASE SpawnCreate(n)
    BY <1>3, <1>4, <1>5, <1>6, <1>8 DEF SpawnCreate, Advance, CreateForbidden, CreateRaises,
       Failing, Faults
  <1>9. CASE SpawnDrop(n) \/ SpawnAbandon(n)
    BY <1>5, <1>9 DEF SpawnDrop, SpawnAbandon, Failing
  <1>10. CASE SpawnWatch(n)
    BY <1>3, <1>10 DEF SpawnWatch, Deliver, Advance
  <1> QED BY <1>7, <1>8, <1>9, <1>10 DEF SpawnStep

\* A _try_spawn only comes to fail by a fault.
LEMMA DoomIsAFault ==
    ASSUME TypeOK, HealInv, NEW n \in Names, SpawnStep(n), Failing(n)'
    PROVE  faults' = faults + 1
  <1>1. spawn'[n] \in {"create", "drop", "abandon"}
    BY DEF Failing
  <1>2. CASE SpawnClear(n)
    <2>1. DeleteReturns(n) /\ Exists(n)'
      BY <1>1, <1>2 DEF SpawnClear, Advance, Raise, Failing, TypeOK
    <2> QED BY <2>1 DEF DeleteReturns, Exists, Pod, TypeOK, ClusterTypeOK, Fault
  <1>3. CASE SpawnWatch(n)
    BY <1>1, <1>3 DEF SpawnWatch, Deliver, Advance, WatchSeesUnschedulable, WatchRaises,
       HealInv, WatchedComesUp, ComesUp, Fault, TypeOK
  <1>4. CASE SpawnCreate(n) \/ SpawnDrop(n) \/ SpawnAbandon(n)
    BY <1>1, <1>4 DEF SpawnCreate, SpawnDrop, SpawnAbandon, Advance, Refuse, Raise, TypeOK
  <1> QED BY <1>2, <1>3, <1>4 DEF SpawnStep

\* What the step does to the attempts for each worker.
LEMMA SpawnCharges ==
    ASSUME HealAssumption, TypeOK, CustodyInv, HealInv, PodsMove,
           NEW n \in Names, SpawnStep(n), NEW p, p = parent[n]
    PROVE  Charges' \subseteq Charges \/ (p # 0 /\ Charges' \subseteq Paid(p))
  <1> USE DEF TypeOK
  <1>1. InFlight(n) /\ UNCHANGED parent
    BY DEF SpawnStep, SpawnClear, SpawnCreate, SpawnWatch, SpawnDrop, SpawnAbandon, InFlight
  <1>2. PICK state \in SpawnStates : spawn' = [spawn EXCEPT ![n] = state]
    BY DEF SpawnStep, SpawnClear, SpawnCreate, SpawnWatch, SpawnDrop, SpawnAbandon, Advance,
        Deliver, Refuse, Raise
  <1>3. \A m \in Names \ {n} : InFlight(m)' /\ Failing(m)' => InFlight(m) /\ Failing(m)
    BY <1>2 DEF PodsMove, InFlight, Failing
  <1>4. \/ UNCHANGED daemons
        \/ /\ p # 0 /\ UNCHANGED attempt
           /\ thread' = [thread EXCEPT ![p] = "none"]
        \/ /\ p # 0
           /\ Refuse(n) \/ Raise(n)
           /\ thread' = [thread EXCEPT ![p] = "heal"]
           /\ attempt' = [attempt EXCEPT ![p] = @ + 1]
    BY DEF SpawnStep, SpawnClear, SpawnCreate, SpawnWatch, SpawnDrop, SpawnAbandon, Advance,
        Deliver, Refuse, Raise, Retry, Daemon, daemons
  <1>5. ASSUME NEW w \in Names, w # p, NEW i \in 0..2, Failed(w, i)'
        PROVE  Failed(w, i)
    <2>1. thread'[w] = thread[w] /\ attempt'[w] = attempt[w]
      BY <1>4, <1>5 DEF daemons
    <2>2. Doomed(w)' => Doomed(w)
      BY <1>1, <1>3, <1>5 DEF Doomed
    <2> QED BY <1>5, <2>1, <2>2 DEF Failed
  <1>6. CASE p = 0
    BY <1>5, <1>6 DEF Charges, Names
  <1>7. ASSUME p # 0, NEW i \in 0..2, Failed(p, i)'
        PROVE  <<p, i>> \in Paid(p)
    <2>1. p \in Names /\ thread[p] = "spawning" /\ attempt[p] \in 0..2
      BY <1>1, <1>7 DEF CustodyInv, OneSpawnEach
    <2>2. i < attempt[p] => <<p, i>> \in Paid(p)
      BY <2>1 DEF Paid, Charges, Failed
    <2>3. Doomed(p)' => Failing(n)' /\ InFlight(n)'
      <3>1. \A m \in Names \ {n} : ~(InFlight(m) /\ parent[m] = p)
        BY <1>1, <1>7 DEF CustodyInv, OneSpawnEach
      <3> QED BY <1>1, <1>3, <3>1 DEF Doomed
    <2>4. CASE Refuse(n) \/ Raise(n)
      <3>1. <<p, attempt[p]>> \in Paid(p)
        BY <1>7, <2>4, FailureIsPaid
      <3>2. ~Doomed(p)'
        BY <2>3, <2>4 DEF Refuse, Raise, InFlight
      <3>3. attempt'[p] = attempt[p] \/ attempt'[p] = attempt[p] + 1
        BY <1>4, <2>1 DEF daemons
      <3>4. i < attempt'[p]
        BY <1>7, <3>2 DEF Failed
      <3> QED BY <2>1, <2>2, <3>1, <3>3, <3>4
    <2>5. CASE ~(Refuse(n) \/ Raise(n))
      <3>1. attempt'[p] = attempt[p]
        BY <1>4, <2>5 DEF daemons
      <3>2. CASE i = attempt[p] /\ Doomed(p)'
        <4>1. faults' = faults + 1
          BY <2>3, <3>2, DoomIsAFault
        <4> QED BY <3>2, <4>1 DEF Paid
      <3> QED BY <1>7, <2>2, <3>1, <3>2 DEF Failed
    <2> QED BY <2>4, <2>5
  <1>8. CASE p # 0
    <2>1. \A w \in Names, i \in 0..2 : Failed(w, i)' => <<w, i>> \in Paid(p)
      BY <1>5, <1>7, <1>8 DEF Paid, Charges
    <2>2. ASSUME NEW a \in Charges'
          PROVE  a \in Paid(p)
      <3>1. PICK w \in Names, i \in 0..2 : a = <<w, i>>
        BY DEF Charges
      <3>2. Failed(w, i)'
        BY <3>1 DEF Charges
      <3> QED BY <2>1, <3>1, <3>2
    <2> QED BY <1>8, <2>2
  <1> QED BY <1>6, <1>8


----------------------------------------------------------------------------
(* An open pool keeps HealInv, and only a _try_spawn for a _replace spends faults.   *)

\* Until close() a pod that a watch waits for comes up.
LEMMA HealStep ==
    ASSUME HealAssumption, TypeOK, CustodyInv, StartInv, HealInv, [Next]_vars, ~closed'
    PROVE  HealInv'
  <1> USE DEF TypeOK, HealInv
  <1>1. PodsMove
    BY PodsStep
  <1>2. ~CloseCalled /\ ~CloserStep
    BY DEF CloseCalled, CloseBegins, CloserStep, CloseLists, CloseDeletes, CloseDrains, Unclosed
  <1>3. Unclosed'
    BY <1>2 DEF Unclosed, Next, CallerStep, CallStart, CallRun, CallSession, Call, StartStep,
       RequestStep, SpawnStep, DaemonStep, CleanTests, WipeSucceeds, WipeFails, ReplaceDeletes,
       ReplaceHeals, ClusterStep, Crash, controller, vars
  <1>4. ASSUME NEW n \in Names, spawn'[n] = "wait", spawn[n] # "wait"
        PROVE  ComesUp(n)'
    <2>1. CASE SpawnStep(n)
      BY <1>4, <2>1 DEF SpawnStep, SpawnClear, SpawnCreate, SpawnWatch, SpawnDrop, SpawnAbandon,
          Advance, Deliver, Refuse, Raise, CreateReturns, ComesUp, Pod, ClusterTypeOK
    <2>2. CASE \E m \in Names : m # n /\ SpawnStep(m)
      BY <1>4, <2>2 DEF SpawnStep, SpawnClear, SpawnCreate, SpawnWatch, SpawnDrop, SpawnAbandon,
          Advance, Deliver, Refuse, Raise
    <2>3. CASE \E p \in Names \cup {0} : BeginSpawn(p)
      BY <1>4, <2>3 DEF BeginSpawn
    <2>4. CASE UNCHANGED spawn
      BY <1>4, <2>4
    <2>5. ~Crash
      BY <1>4 DEF Crash
    <2>6. \A c \in Callers : StartStep(c) => UNCHANGED spawn \/ BeginSpawn(0)
      BY DEF StartStep, StartEnter, StartNamespace, StartReclaim, StartPolicy, StartWarm,
          StartPublish, StartTeardown, warming, spawning
    <2>7. \A w \in Names : DaemonStep(w) => UNCHANGED spawn \/ BeginSpawn(w)
      BY DEF DaemonStep, CleanTests, WipeSucceeds, WipeFails, ReplaceDeletes, ReplaceHeals, spawning
    <2> QED BY <1>2, <2>1, <2>2, <2>3, <2>4, <2>5, <2>6, <2>7 DEF Next, CallerStep, CallStart,
          CallRun, CallSession, Call, RequestStep, ClusterStep, spawning, vars
  <1>5. WatchedComesUp'
    BY <1>1, <1>4 DEF WatchedComesUp, PodsMove, Unclosed
  <1> QED BY <1>3, <1>5

\* A pool that is open again, in a new process, has no _try_spawn.
LEMMA OpensEmpty ==
    ASSUME TypeOK, closed, ~closed', [Next]_vars
    PROVE  HealInv' /\ ~Serving'
  <1>1. Crash
    BY DEF Next, CallerStep, CallStart, CallRun, CallSession, Call, StartStep, RequestStep,
       SpawnStep, DaemonStep, CleanTests, WipeSucceeds, WipeFails, ReplaceDeletes, ReplaceHeals,
       ClusterStep, CloseCalled, CloseBegins, CloserStep, CloseLists, CloseDeletes, CloseDrains,
       controller, vars, TypeOK
  <1> QED BY <1>1 DEF Crash, HealInv, Unclosed, WatchedComesUp, Serving

\* What a step charges: nothing, or the attempt that a fault makes fail.
LEMMA StepCharges ==
    ASSUME HealAssumption, TypeOK, CustodyInv, StartInv, HealInv, [Next]_vars, ~closed'
    PROVE  \/ Charges' \subseteq Charges
           \/ \E n \in Names : /\ SpawnStep(n) /\ parent[n] # 0
                               /\ Charges' \subseteq Paid(parent[n])
  <1>1. PodsMove
    BY PodsStep
  <1>2. CASE UNCHANGED <<daemons, spawning>>
    BY <1>1, <1>2, ChargesFrame DEF daemons, spawning
  <1>3. ASSUME NEW c \in Callers, RequestStep(c)
        PROVE  Charges' \subseteq Charges
    <2>1. UNCHANGED <<spawn, parent, attempt>>
      BY <1>3 DEF RequestStep, spawning
    <2>2. \/ UNCHANGED thread
          \/ \E state \in {"clean", "delete"} : thread' = [thread EXCEPT ![held[c]] = state]
      BY <1>3 DEF RequestStep, LeaseStep, Lease, LeaseTimesOut, RunStep, RunBegins, RunOk,
          RunTimesOut, RunRejected, RunFails, RunCollectTimesOut, RunInterrupted, RunDropped,
          SessionEnters, SessionCloses, CheckpointFails, EndHealthy, EndUnhealthy, Release,
          RetireNow, Retire, Daemon
    <2>3. \A w \in Names : thread'[w] \in {"heal", "spawning"} => thread[w] \in {"heal", "spawning"}
      BY <2>2 DEF TypeOK
    <2> QED BY <1>1, <2>1, <2>3, ChargesFrame
  <1>4. ASSUME NEW c \in Callers, StartStep(c)
        PROVE  Charges' \subseteq Charges
    <2>1. UNCHANGED <<thread, attempt>>
      BY <1>4 DEF StartStep, daemons
    <2>2. CASE StartWarm(c)
      BY <2>1, <2>2, BeginSpawnCharges DEF StartWarm
    <2>3. CASE UNCHANGED spawning
      BY <1>1, <2>1, <2>3, ChargesFrame DEF spawning
    <2> QED BY <1>4, <2>2, <2>3 DEF StartStep, StartEnter, StartNamespace, StartReclaim,
          StartPolicy, StartPublish, StartTeardown, warming
  <1>5. ASSUME NEW w \in Names, DaemonStep(w)
        PROVE  Charges' \subseteq Charges
    <2>1. CASE MayHeal /\ Daemon(w, "spawning") /\ BeginSpawn(w) /\ ReplaceHeals(w)
      BY <2>1, BeginSpawnCharges DEF ReplaceHeals, Daemon
    <2>2. ~ReplaceHeals(w) \/ (MayHeal /\ Daemon(w, "spawning") /\ BeginSpawn(w) /\ ReplaceHeals(w))
      BY DEF ReplaceHeals, MayHeal, HealInv, Unclosed
    <2>3. CASE ~ReplaceHeals(w)
      <3>1. \E state \in {"none", "wipe", "delete", "heal"} :
               /\ thread' = [thread EXCEPT ![w] = state]
               /\ \/ UNCHANGED attempt /\ state # "heal"
                  \/ attempt' = [attempt EXCEPT ![w] = 0]
        BY <1>5, <2>3 DEF DaemonStep, CleanTests, CleanIfOpen, WipeSucceeds, WipeFails, RetireDirty,
            ReplaceDeletes, Daemon
      <3>2. thread[w] # "spawning" /\ UNCHANGED <<spawn, parent>>
        BY <1>5, <2>3 DEF DaemonStep, CleanTests, WipeSucceeds, WipeFails, ReplaceDeletes, spawning
      <3> QED BY <1>1, <3>1, <3>2, ChargesFrame DEF TypeOK
    <2> QED BY <2>1, <2>2, <2>3
  <1>6. ASSUME NEW n \in Names, SpawnStep(n)
        PROVE  Charges' \subseteq Charges \/ (parent[n] # 0 /\ Charges' \subseteq Paid(parent[n]))
    BY <1>1, <1>6, SpawnCharges
  <1>7. CASE Crash
    BY <1>7 DEF Crash, Charges, Failed
  <1>8. ~CloseCalled /\ ~CloserStep
    BY DEF CloseCalled, CloseBegins, CloserStep, CloseLists, CloseDeletes, CloseDrains,
       HealInv, Unclosed
  <1> QED BY <1>2, <1>3, <1>4, <1>5, <1>6, <1>7, <1>8 DEF Next, CallerStep, CallStart, CallRun,
        CallSession, Call, ClusterStep, vars

----------------------------------------------------------------------------
(* Counting them. *)

\* A fault pays for one charge.
LEMMA PaidCardinality ==
    ASSUME TypeOK, FaultsMove, NEW p \in Names
    PROVE  /\ Paid(p) \subseteq Names \X (0..2)
           /\ Cardinality(Paid(p)) <= Cardinality(Charges) + (faults' - faults)
  <1>1. Charges \subseteq Names \X (0..2) /\ <<p, attempt[p]>> \in Names \X (0..2)
    BY DEF Charges, TypeOK
  <1>2. Paid(p) \subseteq Names \X (0..2)
    BY <1>1 DEF Paid
  <1>3. IsFiniteSet(Charges) /\ Cardinality(Charges) \in Nat /\ faults \in Nat
    BY <1>1, ChargesAreFinite DEF TypeOK, ClusterTypeOK
  <1>4. CASE faults' = faults
    <2>1. Paid(p) = Charges
      BY <1>3, <1>4 DEF Paid
    <2> QED BY <1>2, <1>3, <1>4, <2>1
  <1>5. CASE faults' = faults + 1
    <2>1. Paid(p) = Charges \cup {<<p, attempt[p]>>}
      BY <1>5 DEF Paid
    <2>2. CASE <<p, attempt[p]>> \in Charges
      <3>1. Paid(p) = Charges
        BY <2>1, <2>2
      <3> QED BY <1>2, <1>3, <1>5, <3>1
    <2>3. CASE <<p, attempt[p]>> \notin Charges
      <3>1. Cardinality(Paid(p)) = Cardinality(Charges) + 1
        BY <1>3, <2>1, <2>3, FS_AddElement
      <3> QED BY <1>2, <1>3, <1>5, <3>1
    <2> QED BY <2>2, <2>3
  <1> QED BY <1>4, <1>5 DEF FaultsMove

\* Hence no step charges more than its faults pay for.
LEMMA ChargesArePaid ==
    ASSUME HealAssumption, TypeOK, CustodyInv, StartInv, HealInv, [Next]_vars, ~closed'
    PROVE  /\ Cardinality(Charges') <= Cardinality(Charges) + (faults' - faults)
           /\ Cardinality(Charges) \in Nat /\ Cardinality(Charges') \in Nat
           /\ faults \in Nat /\ faults' \in Nat
  <1>1. FaultsMove /\ faults \in Nat
    BY PodsStep DEF TypeOK, ClusterTypeOK
  <1>2. Charges \subseteq Names \X (0..2) /\ Charges' \subseteq Names \X (0..2)
    BY DEF Charges
  <1>3. /\ IsFiniteSet(Charges) /\ Cardinality(Charges) \in Nat
        /\ IsFiniteSet(Charges') /\ Cardinality(Charges') \in Nat
    BY <1>2, ChargesAreFinite
  <1>4. faults' \in Nat /\ faults' >= faults
    BY <1>1, ClusterAssumption DEF FaultsMove
  <1>5. CASE Charges' \subseteq Charges
    <2>1. Cardinality(Charges') <= Cardinality(Charges)
      BY <1>3, <1>5, FS_Subset
    <2> QED BY <1>1, <1>3, <1>4, <2>1
  <1>6. ASSUME NEW p \in Names, Charges' \subseteq Paid(p)
        PROVE  Cardinality(Charges') <= Cardinality(Charges) + (faults' - faults)
    <2>1. /\ IsFiniteSet(Paid(p)) /\ Cardinality(Paid(p)) \in Nat
          /\ Cardinality(Paid(p)) <= Cardinality(Charges) + (faults' - faults)
      BY <1>1, PaidCardinality, ChargesAreFinite
    <2>2. Cardinality(Charges') <= Cardinality(Paid(p))
      BY <1>6, <2>1, FS_Subset
    <2> QED BY <1>1, <1>3, <1>4, <2>1, <2>2
  <1>7. \A n \in Names : parent[n] # 0 => parent[n] \in Names
    BY DEF TypeOK
  <1> QED BY <1>1, <1>3, <1>4, <1>5, <1>6, <1>7, StepCharges

\* Three different elements are three.
LEMMA ThreeElements ==
    ASSUME NEW x, NEW y, NEW z, x # y, x # z, y # z
    PROVE  Cardinality({x, y, z}) = 3
  <1>1. IsFiniteSet({x}) /\ Cardinality({x}) = 1 /\ y \notin {x}
    BY FS_Singleton
  <1>2. IsFiniteSet({x} \cup {y}) /\ Cardinality({x} \cup {y}) = 2 /\ z \notin {x} \cup {y}
    BY <1>1, FS_AddElement
  <1>3. Cardinality(({x} \cup {y}) \cup {z}) = 3
    BY <1>2, FS_AddElement
  <1>4. {x, y, z} = ({x} \cup {y}) \cup {z}
    OBVIOUS
  <1> QED BY <1>3, <1>4

\* The daemon thread for p has failed three times: it is charged three times, and
\* gives up.
GivesUp(n) ==
    /\ SpawnStep(n)
    /\ Refuse(n) \/ Raise(n)
    /\ parent[n] # 0 /\ attempt[parent[n]] = 2

\* The slot it loses is worth those three charges.
LEMMA LossIsPaid ==
    ASSUME HealAssumption, TypeOK, CustodyInv, StartInv, HealInv, Next, ~closed',
           NEW n \in Names, GivesUp(n)
    PROVE  /\ Cardinality(Charges') + 3 <= Cardinality(Charges) + (faults' - faults)
           /\ InService \ {parent[n]} \subseteq InService'
  <1> USE DEF TypeOK
  <1> DEFINE p == parent[n]
             Three == {p} \X (0..2)
  <1>1. InFlight(n) /\ p \in Names /\ spawn'[n] = "failed" /\ FaultsMove /\ PodsMove
    BY PodsStep DEF GivesUp, SpawnStep, SpawnClear, SpawnCreate, SpawnWatch, SpawnDrop,
       SpawnAbandon, InFlight, Refuse, Raise
  <1>2. thread[p] = "spawning" /\ attempt[p] = 2
    BY <1>1 DEF CustodyInv, OneSpawnEach, GivesUp
  <1>3. thread' = [thread EXCEPT ![p] = "none"]
    BY <1>2 DEF GivesUp, Refuse, Raise, Retry, Daemon
  <1>4. Three \subseteq Paid(p)
    <2>1. <<p, 2>> \in Paid(p)
      BY <1>2, FailureIsPaid DEF GivesUp
    <2>2. <<p, 0>> \in Charges /\ <<p, 1>> \in Charges
      BY <1>1, <1>2 DEF Charges, Failed
    <2>3. \A i \in 0..2 : i = 0 \/ i = 1 \/ i = 2
      OBVIOUS
    <2> QED BY <2>1, <2>2, <2>3 DEF Paid
  <1>5. Charges' \subseteq Paid(p)
    <2>1. Charges' \subseteq Charges \/ Charges' \subseteq Paid(p)
      BY <1>1, SpawnCharges DEF GivesUp
    <2> QED BY <2>1 DEF Paid
  <1>6. Charges' \cap Three = {}
    BY <1>1, <1>3 DEF Charges, Failed
  <1>7. Cardinality(Three) = 3
    <2>1. Three = {<<p, 0>>, <<p, 1>>, <<p, 2>>}
      OBVIOUS
    <2>2. <<p, 0>> # <<p, 1>> /\ <<p, 0>> # <<p, 2>> /\ <<p, 1>> # <<p, 2>>
      OBVIOUS
    <2> HIDE DEF Three
    <2> QED BY <2>1, <2>2, ThreeElements
  <1>8. Cardinality(Charges') + 3 <= Cardinality(Paid(p))
    <2> HIDE DEF Three
    <2>1. /\ IsFiniteSet(Paid(p)) /\ Cardinality(Paid(p)) \in Nat
          /\ IsFiniteSet(Three) /\ IsFiniteSet(Charges') /\ Cardinality(Charges') \in Nat
      BY <1>1, <1>4, <1>5, PaidCardinality, ChargesAreFinite, FS_Subset, FS_CardinalityType
    <2>2. Cardinality(Charges' \cup Three) = Cardinality(Charges') + 3
      <3>1. Cardinality(Charges' \cap Three) = 0
        BY <1>6, FS_EmptySet
      <3>2. Cardinality(Charges' \cup Three)
              = Cardinality(Charges') + Cardinality(Three) - Cardinality(Charges' \cap Three)
        BY <2>1, FS_Union
      <3> QED BY <1>7, <2>1, <3>1, <3>2
    <2>3. Cardinality(Charges' \cup Three) <= Cardinality(Paid(p))
      BY <1>4, <1>5, <2>1, FS_Subset
    <2> QED BY <2>2, <2>3
  <1>9. InService \ {p} \subseteq InService'
    <2>1. UNCHANGED <<free, placed, held>>
      BY <1>1 DEF GivesUp, SpawnStep, Refuse, Raise, starting
    <2> QED BY <1>1, <1>3, <2>1 DEF InService
  <1>10. /\ Cardinality(Paid(p)) <= Cardinality(Charges) + (faults' - faults)
         /\ Cardinality(Paid(p)) \in Nat
    BY <1>1, PaidCardinality, ChargesAreFinite
  <1> QED BY <1>8, <1>9, <1>10, ChargesArePaid
----------------------------------------------------------------------------
(* Nobody else drops a worker. *)

\* While the pool serves a worker stays in service until its replacement is delivered
\* or its daemon thread gives up.
LEMMA ServiceKept ==
    ASSUME HealAssumption, TypeOK, CustodyInv, StartInv, HealInv, Serving, Serving',
           Next, ~closed', NEW w \in InService
    PROVE  \/ w \in InService'
           \/ \E n \in Names : spawn[n] = "wait" /\ Deliver(n) /\ UNCHANGED held
           \/ \E n \in Names : GivesUp(n)
  <1> USE DEF TypeOK
  <1>1. w \in Names
    BY DEF InService
  <1>2. \A c \in Callers : pc[c] \notin {"namespace", "reclaim", "warm", "spawning", "teardown"}
    BY DEF Serving, StartInv, StartIsOver, StartLockFree, OneStarter
  <1>3. ASSUME UNCHANGED <<free, placed, held, thread>>
        PROVE  w \in InService'
    BY <1>3 DEF InService
  <1>4. ASSUME NEW c \in Callers, RequestStep(c)
        PROVE  w \in InService'
    <2>1. UNCHANGED placed
      BY <1>4 DEF RequestStep, starting
    <2>2. CASE Lease(c)
      <3>1. PICK v \in Names : /\ free[v] > 0 /\ free' = [free EXCEPT ![v] = @ - 1]
                               /\ held' = [held EXCEPT ![c] = v]
        BY <2>2 DEF Lease, Get
      <3>2. pc[c] = "lease" /\ held[c] = 0
        BY <2>2 DEF Lease, CustodyInv, HeldByCustodian
      <3>3. (\E d \in Callers : held[d] = w) => \E d \in Callers : held'[d] = w
        BY <1>1, <3>1, <3>2 DEF Names
      <3>4. w # v => free'[w] = free[w]
        BY <3>1
      <3>5. held'[c] = v
        BY <3>1
      <3> QED BY <1>1, <2>1, <2>2, <3>3, <3>4, <3>5 DEF Lease, InService
    <2>3. CASE UNCHANGED <<free, held, thread>>
      BY <1>3, <2>1, <2>3
    <2>4. CASE \/ Release(c, TRUE) \/ Release(c, FALSE) \/ RetireNow(c)
      <3>1. \/ free' = [free EXCEPT ![held[c]] = @ + 1] /\ UNCHANGED thread
            \/ /\ UNCHANGED free
               /\ \E state \in {"clean", "delete"} : thread' = [thread EXCEPT ![held[c]] = state]
        BY <2>4 DEF Release, RetireNow, Retire, Put, Daemon
      <3>2. held' = [held EXCEPT ![c] = 0]
        BY <2>4 DEF Release, RetireNow
      <3>3. CASE held[c] = w
        BY <1>1, <3>1, <3>3 DEF InService
      <3>4. CASE held[c] # w
        <4>1. free'[w] = free[w] /\ thread'[w] = thread[w]
          BY <1>1, <3>1, <3>4
        <4>2. (\E d \in Callers : held[d] = w) => \E d \in Callers : held'[d] = w
          BY <3>2, <3>4
        <4> QED BY <1>1, <2>1, <4>1, <4>2 DEF InService
      <3> QED BY <3>3, <3>4
    <2> QED BY <1>4, <2>2, <2>3, <2>4 DEF HealAssumption, RequestStep, LeaseStep, LeaseTimesOut,
          RunStep, RunBegins, RunOk, RunTimesOut, RunRejected, RunFails, RunCollectTimesOut,
          RunInterrupted, RunDropped, SessionEnters, SessionCloses, CheckpointFails, EndHealthy,
          EndUnhealthy
  <1>5. ASSUME NEW c \in Callers, StartStep(c)
        PROVE  w \in InService'
    <2>1. UNCHANGED <<held, thread>>
      BY <1>5 DEF StartStep, daemons
    <2>2. CASE StartPublish(c)
      <3>1. CASE \E v \in placed : Put(v) /\ placed' = placed \ {v}
        BY <1>1, <2>1, <3>1 DEF Put, InService
      <3> QED BY <1>3, <2>1, <2>2, <3>1 DEF StartPublish
    <2>3. CASE StartEnter(c)
      BY <1>3, <2>1, <2>3 DEF StartEnter, warming, pool, starting
    <2> QED BY <1>2, <1>5, <2>2, <2>3 DEF StartStep, StartNamespace, StartReclaim, StartPolicy,
          StartWarm, StartTeardown
  <1>6. ASSUME NEW v \in Names, DaemonStep(v)
        PROVE  w \in InService'
    <2>1. UNCHANGED <<placed, held>>
      BY <1>6 DEF DaemonStep, starting, requests
    <2>2. ~closed /\ MayHeal /\ ~Fault("api")
      BY DEF HealInv, Unclosed, MayHeal, HealAssumption, Fault
    <2>3. \/ UNCHANGED free /\ \E state \in DaemonStates \ {"none"} :
                                  thread' = [thread EXCEPT ![v] = state]
          \/ /\ free' = [free EXCEPT ![v] = @ + 1]
             /\ thread' = [thread EXCEPT ![v] = "none"]
      BY <1>6, <2>2 DEF DaemonStep, CleanTests, CleanIfOpen, WipeSucceeds, WipeFails, RetireDirty,
          ReplaceDeletes, DeleteRaises, ReplaceHeals, Put, Daemon, controller, pool
    <2> QED BY <1>1, <2>1, <2>3 DEF InService
  <1>7. ASSUME NEW n \in Names, SpawnStep(n), ~(spawn[n] = "wait" /\ Deliver(n)), ~GivesUp(n)
        PROVE  w \in InService'
    <2>1. UNCHANGED held
      BY <1>7 DEF SpawnStep
    <2>2. CASE Refuse(n) \/ Raise(n)
      <3>1. parent[n] # 0
        BY <1>2, <2>2 DEF Refuse, Raise
      <3>2. thread' = [thread EXCEPT ![parent[n]] = "heal"]
        BY <1>7, <2>2, <3>1 DEF GivesUp, Refuse, Raise, Retry, Daemon
      <3>3. UNCHANGED <<free, placed>>
        BY <2>2, <3>1 DEF Refuse, Raise, starting
      <3> QED BY <1>1, <2>1, <3>2, <3>3 DEF InService
    <2>3. CASE ~(Refuse(n) \/ Raise(n))
      BY <1>3, <1>7, <2>1, <2>3 DEF SpawnStep, SpawnClear, SpawnCreate, SpawnWatch, SpawnDrop,
          SpawnAbandon, Advance, starting, daemons
    <2> QED BY <2>2, <2>3
  <1>8. CASE CloseCalled \/ CloserStep
    BY <1>8 DEF CloseCalled, CloseBegins, CloserStep, CloseLists, CloseDeletes, CloseDrains,
        HealInv, Unclosed
  <1>9. ~Crash
    BY DEF Crash, Serving
  <1>10. \A n \in Names : SpawnStep(n) => UNCHANGED held
    BY DEF SpawnStep
  <1> QED BY <1>3, <1>4, <1>5, <1>6, <1>7, <1>8, <1>9, <1>10 DEF Next, CallerStep, CallStart,
        CallRun, CallSession, Call, ClusterStep, controller, starting, requests, daemons

\* start() publishes a floor of workers, and nothing is charged yet.
LEMMA ServesWhenFull ==
    ASSUME HealAssumption, TypeOK, CustodyInv, StartInv, ~Serving, Serving', [Next]_vars
    PROVE  Floor <= Cardinality(InService') /\ Charges' = {}
  <1> USE DEF TypeOK, StartInv
  <1>1. ~started /\ ~started' /\ \E c \in Callers : pc'[c] = "publish" /\ pc[c] # "publish"
    BY DEF Serving, Next, CallStart, CallRun, CallSession, Call, CallerStep, StartStep, StartEnter,
        StartNamespace, StartReclaim, StartPolicy, StartWarm, StartPublish, StartTeardown,
        RequestStep, SpawnStep, DaemonStep, CleanTests, WipeSucceeds, WipeFails, ReplaceDeletes,
        ReplaceHeals, ClusterStep, CloseCalled, CloseBegins, CloserStep, CloseLists, CloseDeletes,
        CloseDrains, Crash, vars, controller, pool, warming
  <1>2. PICK n \in Names : SpawnStep(n)
    <2>1. CASE \E c \in Callers : RequestStep(c)
      BY <1>1, <2>1 DEF NothingServed, RequestStep, LeaseStep, Lease, LeaseTimesOut, RunStep,
          RunBegins, RunOk, RunTimesOut, RunRejected, RunFails, RunCollectTimesOut, RunInterrupted,
          RunDropped, SessionEnters, SessionCloses, CheckpointFails
    <2>2. CASE \E c \in Callers : CallStart(c) \/ CallRun(c) \/ CallSession(c)
      BY <1>1, <2>2 DEF CallStart, CallRun, CallSession, Call, Goto
    <2>3. CASE \E c \in Callers : StartStep(c)
      BY <1>1, <2>3 DEF StartStep, StartEnter, StartNamespace, StartReclaim, StartPolicy, StartWarm,
          StartPublish, StartTeardown, AfterLock, AfterStart, Goto, warming
    <2>4. CASE UNCHANGED pc
      BY <1>1, <2>4
    <2> QED BY <1>1, <2>1, <2>2, <2>3, <2>4 DEF Next, CallerStep, DaemonStep, ClusterStep,
          CloseCalled, CloserStep, Crash, requests, vars
  <1>3. UNCHANGED held /\ InFlight(n)
    BY <1>2 DEF SpawnStep, SpawnClear, SpawnCreate, SpawnWatch, SpawnDrop, SpawnAbandon, InFlight
  <1>4. parent[n] = 0
    BY <1>1, <1>3 DEF CustodyInv, OneSpawnEach, NothingServed
  <1>5. PICK c \in Callers : pc[c] = "spawning" /\ pc' = [pc EXCEPT ![c] = "publish"]
    BY <1>1, <1>2, <1>4 DEF SpawnStep, SpawnClear, SpawnCreate, SpawnWatch, SpawnDrop, SpawnAbandon,
        Advance, Deliver, Refuse, Raise, Goto, requests
  <1>6. Floor <= Cardinality(placed') /\ UNCHANGED <<free, thread>>
    <2>1. CASE Refuse(n)
      <3>1. UNCHANGED <<free, thread, placed>>
        BY <1>4, <2>1 DEF Refuse, starting, daemons
      <3>2. Cardinality(placed) >= Floor
        BY <1>1, <1>4, <2>1 DEF Refuse, Goto
      <3>3. Cardinality(placed) \in Nat
        BY NamesAreFinite
      <3> QED BY <3>1, <3>2, <3>3, PoolAssumption
    <2>2. CASE Deliver(n)
      <3>1. UNCHANGED <<free, thread>>
        BY <1>4, <2>2 DEF Deliver
      <3>2. Cardinality(placed') = PoolSize
        BY <1>1, <1>4, <2>2 DEF Deliver, Goto
      <3> QED BY <3>1, <3>2, PoolAssumption
    <2>3. ~Raise(n)
      BY <1>1, <1>4 DEF Raise, Goto
    <2>4. UNCHANGED pc => ~\E d \in Callers : pc'[d] = "publish" /\ pc[d] # "publish"
      OBVIOUS
    <2> QED BY <1>1, <1>2, <2>1, <2>2, <2>3, <2>4 DEF SpawnStep, SpawnClear, SpawnCreate,
          SpawnWatch, SpawnDrop, SpawnAbandon, Advance
  <1>7. \A w \in Names : thread'[w] = "none" /\ free'[w] = 0
    BY <1>1, <1>5, <1>6 DEF NothingServed, Serving
  <1>8. InService' = placed'
    <2>1. \A w \in Names : ~\E d \in Callers : held'[d] = w
      BY <1>1, <1>3 DEF NothingServed, CustodyInv, HeldByCustodian, Names
    <2>2. placed' \subseteq Names
      BY <1>2, SpawnTypeOK
    <2> QED BY <1>7, <2>1, <2>2 DEF InService
  <1>9. Charges' = {}
    BY <1>7 DEF Charges, Failed
  <1> QED BY <1>6, <1>8, <1>9

----------------------------------------------------------------------------
(* The theorem. *)

\* What a step of a serving pool loses, its faults pay for.
LEMMA ServiceLoss ==
    ASSUME HealAssumption, TypeOK, CustodyInv, StartInv, HealInv, [Next]_vars, ~closed',
           Serving, Serving'
    PROVE  3 * (Cardinality(InService) - Cardinality(InService')) + Cardinality(Charges')
              <= Cardinality(Charges) + (faults' - faults)
  <1>1. InService \subseteq Names /\ InService' \subseteq Names
    BY DEF InService
  <1>2. /\ IsFiniteSet(InService) /\ Cardinality(InService) \in Nat
        /\ IsFiniteSet(InService') /\ Cardinality(InService') \in Nat
    BY <1>1, NamesAreFinite
  <1>3. /\ Cardinality(Charges) \in Nat /\ Cardinality(Charges') \in Nat
        /\ faults \in Nat /\ faults' \in Nat
        /\ Cardinality(Charges') <= Cardinality(Charges) + (faults' - faults)
    BY ChargesArePaid
  <1>4. CASE \E n \in Names : spawn[n] = "wait" /\ Deliver(n) /\ UNCHANGED held
    <2>1. Cardinality(InService') >= Cardinality(InService)
      <3>1. PICK n \in Names : JoinsStart(n) \/ Replaces(n)
        BY <1>4, DeliverService
      <3>2. CASE Replaces(n)
        BY <1>1, <1>2, <3>2, SwapCardinality DEF Replaces
      <3>3. CASE JoinsStart(n)
        <4>1. InService \subseteq InService'
          BY <3>3 DEF JoinsStart
        <4> QED BY <1>2, <4>1, FS_Subset
      <3> QED BY <3>1, <3>2, <3>3
    <2> QED BY <1>2, <1>3, <2>1
  <1>5. ASSUME NEW n \in Names, GivesUp(n), Next
        PROVE  3 * (Cardinality(InService) - Cardinality(InService')) + Cardinality(Charges')
                  <= Cardinality(Charges) + (faults' - faults)
    <2>1. /\ Cardinality(Charges') + 3 <= Cardinality(Charges) + (faults' - faults)
          /\ InService \ {parent[n]} \subseteq InService'
      BY <1>5, LossIsPaid
    <2>2. /\ IsFiniteSet(InService \ {parent[n]})
          /\ Cardinality(InService \ {parent[n]}) \in Nat
          /\ Cardinality(InService \ {parent[n]}) >= Cardinality(InService) - 1
      <3>1. /\ IsFiniteSet(InService \ {parent[n]})
            /\ Cardinality(InService \ {parent[n]}) \in Nat
        BY <1>1, NamesAreFinite
      <3>2. Cardinality(InService \ {parent[n]})
              = IF parent[n] \in InService THEN Cardinality(InService) - 1 ELSE Cardinality(InService)
        BY <1>2, FS_RemoveElement
      <3> QED BY <1>2, <3>1, <3>2
    <2>3. Cardinality(InService \ {parent[n]}) <= Cardinality(InService')
      BY <1>2, <2>1, FS_Subset
    <2> QED BY <1>2, <1>3, <2>1, <2>2, <2>3
  <1>6. CASE InService \subseteq InService'
    <2>1. Cardinality(InService) <= Cardinality(InService')
      BY <1>2, <1>6, FS_Subset
    <2> QED BY <1>2, <1>3, <2>1
  <1>7. CASE UNCHANGED vars
    <2>1. InService' = InService
      BY <1>7 DEF vars, controller, starting, requests, daemons, InService
    <2> QED BY <1>6, <2>1
  <1> QED BY <1>4, <1>5, <1>6, <1>7, ServiceKept

\* However requests, daemon threads, restarts and faults interleave, under
\* HealAssumption each worker the pool is short of its floor cost three faults:
\* _replace makes three attempts, and the two failures before the last are healed.
THEOREM PoolStaysFull == HealAssumption => (Spec => []PoolKeepsItsSize)
  <1> SUFFICES ASSUME HealAssumption
               PROVE  Spec => []PoolKeepsItsSize
    OBVIOUS
  <1>1. Init => (~closed => HealInv) /\ LossInv
    BY DEF Init, HealInv, Unclosed, WatchedComesUp, LossInv, Serving
  <1>2. ASSUME TypeOK, CustodyInv, StartInv, ~closed => HealInv, LossInv, [Next]_vars
        PROVE  LossInv'
    <2> SUFFICES ASSUME Serving', ~closed'
                 PROVE  3 * (Floor - Cardinality(InService')) + Cardinality(Charges') <= faults'
      BY DEF LossInv
    <2>0. HealInv
      BY <1>2, OpensEmpty
    <2>1. /\ Cardinality(InService) \in Nat /\ Cardinality(InService') \in Nat
          /\ Cardinality(Charges) \in Nat /\ Cardinality(Charges') \in Nat
          /\ faults \in Nat /\ faults' \in Nat /\ Floor \in Nat
      <3>1. InService \subseteq Names /\ InService' \subseteq Names
        BY DEF InService
      <3> QED BY <1>2, <2>0, <3>1, NamesAreFinite, ChargesArePaid, PoolAssumption
    <2>2. CASE ~Serving
      <3>1. Floor <= Cardinality(InService') /\ Charges' = {}
        BY <1>2, <2>2, ServesWhenFull
      <3>2. Cardinality(Charges') = 0
        BY <3>1, FS_EmptySet
      <3> QED BY <2>1, <3>1, <3>2
    <2>3. CASE Serving
      <3>1. 3 * (Floor - Cardinality(InService)) + Cardinality(Charges) <= faults
        BY <1>2, <2>0, <2>3 DEF LossInv, HealInv, Unclosed
      <3>2. 3 * (Cardinality(InService) - Cardinality(InService')) + Cardinality(Charges')
              <= Cardinality(Charges) + (faults' - faults)
        BY <1>2, <2>0, <2>3, ServiceLoss
      <3> QED BY <2>1, <3>1, <3>2
    <2> QED BY <2>2, <2>3
  <1>3. TypeOK /\ LossInv => PoolKeepsItsSize
    <2> SUFFICES ASSUME TypeOK, LossInv, started, ~closed
                 PROVE  3 * (Floor - Cardinality(InService)) <= faults
      BY DEF PoolKeepsItsSize
    <2>1. 3 * (Floor - Cardinality(InService)) + Cardinality(Charges) <= faults
      BY DEF LossInv, Serving
    <2>2. /\ Cardinality(InService) \in Nat /\ Cardinality(Charges) \in Nat
          /\ faults \in Nat /\ Floor \in Nat
      <3>1. InService \subseteq Names /\ Charges \subseteq Names \X (0..2)
        BY DEF InService, Charges
      <3> QED BY <3>1, NamesAreFinite, ChargesAreFinite, PoolAssumption DEF TypeOK, ClusterTypeOK
    <2> QED BY <2>1, <2>2
  <1>4. TypeOK /\ CustodyInv /\ StartInv /\ (~closed => HealInv) /\ [Next]_vars
           => (~closed => HealInv)'
    BY HealStep, OpensEmpty
  <1> QED BY <1>1, <1>2, <1>3, <1>4, TypeCorrect, CustodyInvariant, StartInvariant, PTL DEF Spec

----------------------------------------------------------------------------
(* A start() that the cluster turned away. *)

\* Quota and scheduler may refuse, execs may fail; nobody closes the pool and the
\* controller lives on.
RefusalAssumption ==
    /\ FaultKinds \subseteq {"noroom", "exec", "drop"}
    /\ ~MayClose
    /\ MaxCrashes = 0

\* A name is created once.
FreshNames ==
    \A n \in Names : spawn[n] \in {"unborn", "clear", "create"} => ~Exists(n)

NoneAbandoned == \A n \in Names : spawn[n] # "abandon"

\* Before the pool is started each pod is in start()'s list, or published, or its
\* _try_spawn is not over.
StartAccounts ==
    ~started => \A n \in Names :
        Exists(n) => n \in placed \/ free[n] > 0 \/ spawn[n] \in {"wait", "drop"}

RefusalInv ==
    /\ Unclosed /\ WatchedComesUp
    /\ FreshNames /\ NoneAbandoned /\ StartAccounts

\* A step outside _try_spawn's own: it creates no pod.
LEMMA RefusalFrame ==
    ASSUME TypeOK, RefusalInv, PodsMove,
           UNCHANGED <<closed, closer>>,
           \A n \in Names : spawn'[n] = spawn[n] \/ (spawn[n] = "unborn" /\ spawn'[n] = "clear"),
           ~started' => /\ ~started
                        /\ \A n \in Names : n \in placed \/ free[n] > 0
                              => n \in placed' \/ free'[n] > 0 \/ ~Exists(n)'
    PROVE  RefusalInv'
  <1> USE DEF RefusalInv
  <1>1. \A n \in Names : Exists(n)' => Exists(n)
    BY DEF PodsMove
  <1>2. Unclosed' /\ FreshNames' /\ NoneAbandoned'
    BY <1>1 DEF Unclosed, FreshNames, NoneAbandoned
  <1>3. WatchedComesUp'
    BY DEF WatchedComesUp, PodsMove, Unclosed
  <1>4. StartAccounts'
    BY <1>1 DEF StartAccounts
  <1> QED BY <1>2, <1>3, <1>4

\* No _try_spawn raises under these faults: it returns or is refused.
LEMMA NothingRaises ==
    ASSUME RefusalAssumption, TypeOK, RefusalInv, NEW n \in Names, SpawnStep(n)
    PROVE  \/ spawn[n] = "clear" /\ ~Exists(n)' /\ Advance(n, "create")
           \/ spawn[n] = "create" /\ CreateReturns(n) /\ Advance(n, "wait")
           \/ spawn[n] = "create" /\ ~Exists(n)' /\ Refuse(n)
           \/ spawn[n] = "wait" /\ UNCHANGED pod /\ Deliver(n)
           \/ spawn[n] = "wait" /\ UNCHANGED pod /\ Advance(n, "drop")
           \/ spawn[n] = "drop" /\ ~Exists(n)' /\ Refuse(n)
  <1> USE DEF RefusalInv, TypeOK, ClusterTypeOK
  <1>1. ~Fault("api") /\ ~Fault("stuck") /\ ~Fault("startup")
    BY DEF Fault, RefusalAssumption
  <1>2. DeleteReturns(n) => ~Exists(n)'
    BY <1>1 DEF DeleteReturns, Exists, Pod
  <1>3. CASE SpawnClear(n)
    BY <1>1, <1>2, <1>3 DEF SpawnClear, DeleteRaises
  <1>4. CASE SpawnCreate(n)
    <2>1. ~Exists(n)
      BY <1>4 DEF SpawnCreate, FreshNames
    <2>2. CreateForbidden(n) => ~Exists(n)'
      BY <2>1 DEF CreateForbidden, Exists
    <2> QED BY <1>1, <1>4, <2>1, <2>2 DEF SpawnCreate, CreateRaises
  <1>5. CASE SpawnWatch(n)
    <2>1. ~WatchRaises(n)
      BY <1>1, <1>5 DEF SpawnWatch, WatchRaises, WatchedComesUp, ComesUp
    <2> QED BY <1>5, <2>1 DEF SpawnWatch, WatchSeesRunning, WatchSeesUnschedulable
  <1>6. CASE SpawnDrop(n)
    BY <1>1, <1>2, <1>6 DEF SpawnDrop, DeleteRaises
  <1>7. ~SpawnAbandon(n)
    BY DEF SpawnAbandon, NoneAbandoned
  <1> QED BY <1>3, <1>4, <1>5, <1>6, <1>7 DEF SpawnStep

\* A step of a _try_spawn: what is refused leaves no pod, what is placed is kept.
LEMMA SpawnRefusal ==
    ASSUME RefusalAssumption, TypeOK, CustodyInv, RefusalInv, PodsMove,
           NEW n \in Names, SpawnStep(n)
    PROVE  RefusalInv'
  <1> USE DEF TypeOK, RefusalInv
  <1>1. UNCHANGED <<started, closed, closer, parent>>
    BY DEF SpawnStep
  <1>2. \A m \in Names : m # n => pod'[m] = pod[m]
    BY ClusterCall DEF SpawnStep, SpawnClear, SpawnCreate, SpawnWatch, SpawnDrop, SpawnAbandon
  <1>3. \A m \in Names : m # n => spawn'[m] = spawn[m]
    BY NothingRaises DEF Advance, Deliver, Refuse
  <1>4. /\ spawn'[n] \in {"clear", "create"} => ~Exists(n)'
        /\ spawn'[n] \notin {"unborn", "abandon"}
        /\ spawn'[n] = "wait" => ComesUp(n)'
    BY NothingRaises DEF Advance, Deliver, Refuse, CreateReturns, ComesUp, Pod, ClusterTypeOK
  <1>5. Unclosed' /\ FreshNames' /\ NoneAbandoned' /\ WatchedComesUp'
    BY <1>1, <1>2, <1>3, <1>4 DEF Unclosed, FreshNames, NoneAbandoned, WatchedComesUp, Exists, ComesUp
  <1>6. placed \subseteq placed' /\ \A m \in Names : free[m] > 0 => free'[m] > 0
    BY NothingRaises DEF Advance, Deliver, Refuse, PutReplacement, Put, starting
  <1>7. Exists(n)' => n \in placed' \/ free'[n] > 0 \/ spawn'[n] \in {"wait", "drop"}
    BY NothingRaises DEF Advance, Deliver, PutReplacement, Put
  <1>8. StartAccounts'
    BY <1>1, <1>2, <1>3, <1>6, <1>7 DEF StartAccounts, Exists
  <1> QED BY <1>5, <1>8

\* RefusalInv is inductive.
LEMMA RefusalStep ==
    ASSUME RefusalAssumption, TypeOK, CustodyInv, StartInv, RefusalInv, [Next]_vars
    PROVE  RefusalInv'
  <1> USE DEF TypeOK
  <1>1. PodsMove
    BY PodsStep
  <1>2. ASSUME NEW p \in Names \cup {0}, BeginSpawn(p)
        PROVE  \A n \in Names : \/ spawn'[n] = spawn[n]
                                \/ spawn[n] = "unborn" /\ spawn'[n] = "clear"
    <2>1. serial' \in Names /\ serial' > serial
      <3>1. serial' \in Names
        BY <1>2, BeginSpawnTypeOK
      <3>2. serial' = serial + 1 /\ serial \in Nat
        BY <1>2, ClusterAssumption DEF BeginSpawn
      <3> QED BY <3>1, <3>2
    <2>2. PICK m \in Names : m = serial' /\ m > serial
      BY <2>1
    <2>3. spawn[m] = "unborn"
      BY <2>2 DEF CustodyInv, SpawnsAreNew
    <2> QED BY <1>2, <2>2, <2>3 DEF BeginSpawn
  <1>3. CASE UNCHANGED <<started, closed, closer, free, placed, spawn>>
    BY <1>1, <1>3, RefusalFrame
  <1>4. ASSUME NEW c \in Callers, RequestStep(c)
        PROVE  RefusalInv'
    <2>1. pc[c] \in {"lease"} \cup Custodian
      BY <1>4 DEF RequestStep, LeaseStep, Lease, LeaseTimesOut, RunStep, RunBegins, RunOk, RunTimesOut,
          RunRejected, RunFails, RunCollectTimesOut, RunInterrupted, RunDropped, SessionEnters,
          SessionCloses, CheckpointFails
    <2>2. started
      BY <2>1 DEF StartInv, NothingServed
    <2>3. UNCHANGED <<started, closed, closer, spawn>>
      BY <1>4 DEF RequestStep, spawning
    <2> QED BY <1>1, <2>2, <2>3, RefusalFrame
  <1>5. ASSUME NEW c \in Callers, StartStep(c)
        PROVE  RefusalInv'
    <2>1. UNCHANGED <<closed, closer>>
      BY <1>5 DEF StartStep
    <2>2. CASE StartWarm(c)
      <3>1. UNCHANGED <<started, free, placed>>
        BY <2>2 DEF StartWarm, starting
      <3>2. \A n \in Names : spawn'[n] = spawn[n] \/ (spawn[n] = "unborn" /\ spawn'[n] = "clear")
        BY <1>2, <2>2 DEF StartWarm
      <3> QED BY <1>1, <2>1, <3>1, <3>2, RefusalFrame
    <2>3. CASE StartPublish(c)
      <3>1. ~started' => ~started /\ \A n \in Names : n \in placed \/ free[n] > 0
                                         => n \in placed' \/ free'[n] > 0 \/ ~Exists(n)'
        BY <2>3 DEF StartPublish, Put
      <3>2. UNCHANGED spawn
        BY <2>3 DEF StartPublish, spawning
      <3> QED BY <1>1, <2>1, <3>1, <3>2, RefusalFrame
    <2>4. CASE StartTeardown(c)
      <3>1. UNCHANGED <<started, free, spawn>>
        BY <2>4 DEF StartTeardown, pool, spawning
      <3>2. ~Fault("api") /\ ~Fault("stuck")
        BY DEF Fault, RefusalAssumption
      <3>3. UNCHANGED placed \/ placed = {}
              \/ \E w \in placed : DeleteReturns(w) /\ placed' = placed \ {w}
        BY <2>4, <3>2 DEF StartTeardown, DeleteRaises
      <3>4. \A w \in Names : DeleteReturns(w) => ~Exists(w)'
        BY <3>2 DEF DeleteReturns, Exists, Pod, ClusterTypeOK
      <3> QED BY <1>1, <2>1, <3>1, <3>3, <3>4, RefusalFrame
    <2>5. CASE UNCHANGED <<started, free, placed, spawn>>
      BY <1>3, <2>1, <2>5
    <2> QED BY <1>5, <2>2, <2>3, <2>4, <2>5 DEF StartStep, StartEnter, StartNamespace, StartReclaim,
          StartPolicy, warming, pool, starting, spawning
  <1>6. ASSUME NEW w \in Names, DaemonStep(w)
        PROVE  RefusalInv'
    <2>1. started
      BY <1>6 DEF DaemonStep, CleanTests, WipeSucceeds, WipeFails, ReplaceDeletes, ReplaceHeals,
          StartInv, NothingServed
    <2>2. UNCHANGED <<started, closed, closer>>
      BY <1>6 DEF DaemonStep, CleanTests, WipeSucceeds, WipeFails, ReplaceDeletes, ReplaceHeals,
          controller, pool
    <2>3. UNCHANGED spawn \/ BeginSpawn(w)
      BY <1>6 DEF DaemonStep, CleanTests, WipeSucceeds, WipeFails, ReplaceDeletes, ReplaceHeals,
          spawning
    <2> QED BY <1>1, <1>2, <2>1, <2>2, <2>3, RefusalFrame
  <1>7. ~CloseCalled /\ ~Crash
    BY PoolAssumption DEF CloseCalled, CloseBegins, Crash, RefusalAssumption
  <1>8. ~CloserStep
    BY DEF CloserStep, CloseLists, CloseDeletes, CloseDrains, RefusalInv, Unclosed
  <1> QED BY <1>1, <1>3, <1>4, <1>5, <1>6, <1>7, <1>8, SpawnRefusal DEF Next, CallerStep,
        CallStart, CallRun, CallSession, Call, ClusterStep, controller, starting, spawning, vars

\* When quota or scheduler turn start() away, whatever it had placed is deleted: no
\* pod is left once start() has raised.
THEOREM RefusalIsClean == RefusalAssumption => (Spec => []RefusedStartLeavesNothing)
  <1> SUFFICES ASSUME RefusalAssumption
               PROVE  Spec => []RefusedStartLeavesNothing
    OBVIOUS
  <1>1. Init => RefusalInv
    BY DEF Init, ClusterInit, RefusalInv, Unclosed, WatchedComesUp, FreshNames, NoneAbandoned,
        StartAccounts, Exists, Pod
  <1>2. TypeOK /\ CustodyInv /\ StartInv /\ RefusalInv /\ [Next]_vars => RefusalInv'
    BY RefusalStep
  <1>3. ASSUME CustodyInv, StartInv, RefusalInv, TypeOK
        PROVE  RefusedStartLeavesNothing
    <2> SUFFICES ASSUME ~started, StartLockFree, NEW n \in Names, Exists(n)
                 PROVE  FALSE
      BY DEF RefusedStartLeavesNothing
    <2>1. placed = {} /\ free[n] = 0
      BY <1>3 DEF StartInv, PlacedByStart, NothingServed, StartLockFree, TypeOK
    <2>2. ~InFlight(n)
      BY <1>3 DEF StartInv, SpawnedByStart, NothingServed, StartLockFree, CustodyInv, OneSpawnEach,
          TypeOK
    <2> QED BY <1>3, <2>1, <2>2 DEF RefusalInv, StartAccounts, InFlight
  <1> QED BY <1>1, <1>2, <1>3, TypeCorrect, CustodyInvariant, StartInvariant, PTL DEF Spec

----------------------------------------------------------------------------
(* close() on a pool that is not spawning. *)

\* The listing of close() covers what is left of the pods.
SweepCovers ==
    faults = 0 =>
        \/ closer = "list"
        \/ closer = "sweep" /\ \A n \in Names : Exists(n) => n \in sweep["close"]
        \/ closer = "done" /\ \A n \in Names : ~Exists(n)

\* A closed pool stays quiet: no thread begins a _try_spawn, nobody is in start().
LEMMA QuietStep ==
    ASSUME MaxCrashes = 0, TypeOK, CustodyInv, StartInv, Quiet, [Next]_vars
    PROVE  /\ Quiet'
           /\ \A n \in Names : Exists(n)' => Exists(n)
           /\ CloseCalled \/ CloserStep \/ UNCHANGED <<closer, sweep>>
  <1>1. \A c \in Callers : pc[c] \notin StartStates
    BY DEF Quiet, StartInv, StartIsOver, StartLockFree
  <1>2. \A n \in Names : Exists(n)' => Exists(n)
    BY PodsStep DEF PodsMove, Quiet
  <1>3. /\ ~Crash
        /\ \A n \in Names : ~SpawnStep(n)
        /\ ~MayHeal
    <2>1. ~Crash
      BY DEF Crash, TypeOK
    <2> QED BY <2>1 DEF SpawnStep, SpawnClear, SpawnCreate, SpawnWatch, SpawnDrop, SpawnAbandon,
          Quiet, MayHeal
  <1>4. \A c \in Callers : StartStep(c) => UNCHANGED <<closed, started, spawn, closer, sweep>>
    BY <1>1 DEF StartStep, StartEnter, StartNamespace, StartReclaim, StartPolicy, StartWarm,
        StartPublish, StartTeardown, warming, pool, starting, spawning
  <1>5. \A c \in Callers : RequestStep(c) => UNCHANGED <<closed, started, spawn, closer, sweep>>
    BY DEF RequestStep, starting, spawning
  <1>6. \A w \in Names : DaemonStep(w) => UNCHANGED <<closed, started, spawn, closer, sweep>>
    BY <1>3 DEF DaemonStep, CleanTests, WipeSucceeds, WipeFails, ReplaceDeletes, ReplaceHeals,
        controller, pool, starting, spawning
  <1>7. CloseCalled \/ CloserStep => closed' /\ UNCHANGED <<started, spawn>>
    BY DEF CloseCalled, CloseBegins, CloserStep, CloseLists, CloseDeletes, CloseDrains, controller,
        spawning, Quiet
  <1>8. \/ CloseCalled \/ CloserStep
        \/ UNCHANGED <<closed, started, spawn, closer, sweep>>
    BY <1>3, <1>4, <1>5, <1>6 DEF Next, CallerStep, CallStart, CallRun, CallSession, Call,
        ClusterStep, controller, starting, spawning, vars
  <1>9. Quiet'
    BY <1>7, <1>8 DEF Quiet
  <1> QED BY <1>2, <1>8, <1>9

\* What close() has not deleted it has listed.
LEMMA SweepStep ==
    ASSUME MaxCrashes = 0, TypeOK, CustodyInv, StartInv, Quiet, SweepCovers, [Next]_vars
    PROVE  SweepCovers'
  <1> SUFFICES ASSUME faults' = 0
               PROVE  \/ closer' = "list"
                      \/ closer' = "sweep" /\ \A n \in Names : Exists(n)' => n \in sweep'["close"]
                      \/ closer' = "done" /\ \A n \in Names : ~Exists(n)'
    BY DEF SweepCovers
  <1>1. faults = 0 /\ \A k \in Faults : ~Fault(k)
    BY PodsStep DEF FaultsMove, Fault, TypeOK, ClusterTypeOK
  <1>2. \A n \in Names : Exists(n)' => Exists(n)
    BY QuietStep
  <1>3. CASE UNCHANGED <<closer, sweep>>
    BY <1>1, <1>2, <1>3 DEF SweepCovers
  <1>4. CASE CloseCalled
    BY <1>4 DEF CloseCalled, CloseBegins
  <1>5. CASE CloserStep
    <2>1. CASE CloseLists
      BY <1>1, <1>2, <2>1 DEF CloseLists, Faults, TypeOK
    <2>2. CASE CloseDeletes
      <3>1. PICK n \in sweep["close"] : /\ DeleteReturns(n)
                                        /\ sweep' = [sweep EXCEPT !["close"] = @ \ {n}]
                                        /\ UNCHANGED closer
        BY <1>1, <2>2 DEF CloseDeletes, DeleteRaises, Faults
      <3>2. ~Exists(n)'
        BY <1>1, <3>1 DEF DeleteReturns, Faults, Exists, Pod, TypeOK, ClusterTypeOK
      <3>3. closer = "sweep"
        BY <2>2 DEF CloseDeletes
      <3> QED BY <1>1, <1>2, <3>1, <3>2, <3>3 DEF SweepCovers, TypeOK
    <2>3. CASE CloseDrains
      BY <1>1, <1>2, <2>3 DEF CloseDrains, SweepCovers
    <2> QED BY <1>5, <2>1, <2>2, <2>3 DEF CloserStep
  <1> QED BY <1>3, <1>4, <1>5, QuietStep

\* Without faults close() leaves no pod of a pool that was not spawning as it listed:
\* nothing that requests and daemon threads still do brings one back.  (A controller
\* that is killed never comes to the end of its close().)
THEOREM CloseSweepsAll == MaxCrashes = 0 => (Spec => CloseSweepsQuietPool)
  <1> SUFFICES ASSUME MaxCrashes = 0
               PROVE  Spec => CloseSweepsQuietPool
    OBVIOUS
  <1> DEFINE Clean == closer = "done" /\ faults = 0 => \A n \in Names : ~Exists(n)
  <1>1. Quiet /\ closer = "list" => Quiet /\ SweepCovers
    BY DEF SweepCovers
  <1>2. TypeOK /\ CustodyInv /\ StartInv /\ (Quiet /\ SweepCovers) /\ [Next]_vars
          => (Quiet /\ SweepCovers)'
    BY QuietStep, SweepStep
  <1>3. Quiet /\ SweepCovers => Clean
    BY DEF SweepCovers
  <1> HIDE DEF Clean
  <1>4. Spec => [](Quiet /\ closer = "list" => []Clean)
    BY <1>1, <1>2, <1>3, TypeCorrect, CustodyInvariant, StartInvariant, PTL DEF Spec
  <1> QED BY <1>4 DEF Clean, CloseSweepsQuietPool

==============================================================================
