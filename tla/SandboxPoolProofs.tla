--------------------------- MODULE SandboxPoolProofs ---------------------------
(* Theorems about SandboxPool, for every pool size, number of request threads, *)
(* budget of faults and choice of configuration.                               *)
EXTENDS PoolProperties, TLAPS

----------------------------------------------------------------------------
(* Type correctness: one lemma per group of actions. *)

USE DEF CallerStates, StartStates, Custodian, DaemonStates, Minding, SpawnStates

\* What a call of the cluster does to the pods keeps their type.
LEMMA ClusterCallsTypeOK ==
    ASSUME ClusterTypeOK, NEW n \in Names,
           \/ DeleteReturns(n)   \/ DeleteRaises(n)     \/ CreateReturns(n)
           \/ CreateForbidden(n) \/ CreateRaises(n)     \/ WatchSeesRunning(n)
           \/ WatchSeesUnschedulable(n) \/ WatchRaises(n)
           \/ PodStarts(n) \/ PodVanishes(n) \/ WatchdogExits(n)
    PROVE  ClusterTypeOK'
  <1> USE DEF ClusterTypeOK, Pods, Phases
  <1>1. \A k \in Faults : Fault(k) => faults' \in Nat
    BY DEF Fault
  <1>2. \A phase \in Phases : Pod(phase) \in Pods
    BY DEF Pod
  <1>3. faults' \in Nat
    BY <1>1 DEF DeleteReturns, DeleteRaises, CreateReturns, CreateForbidden,
         CreateRaises, WatchSeesRunning, WatchSeesUnschedulable, WatchRaises,
         PodStarts, PodVanishes, WatchdogExits, Fault
  <1>4. \/ UNCHANGED pod
        \/ \E phase \in Phases : pod' = [pod EXCEPT ![n] = Pod(phase)]
        \/ pod' = [pod EXCEPT ![n].phase = "Running"]
    BY DEF DeleteReturns, DeleteRaises, CreateReturns, CreateForbidden,
         CreateRaises, WatchSeesRunning, WatchSeesUnschedulable, WatchRaises,
         PodStarts, PodVanishes, WatchdogExits
  <1>5. pod' \in [Names -> Pods]
    BY <1>2, <1>4
  <1> QED BY <1>3, <1>5

\* Setting one or both of the bits of a pod keeps the type of pod.
LEMMA BitsTypeOK ==
    ASSUME NEW f \in [Names -> Pods], NEW w, NEW b \in BOOLEAN
    PROVE  /\ [f EXCEPT ![w].dirty = b] \in [Names -> Pods]
           /\ [f EXCEPT ![w].live = b] \in [Names -> Pods]
           /\ [f EXCEPT ![w].dirty = b, ![w].live = b] \in [Names -> Pods]
  <1>1. ASSUME NEW p \in Pods
        PROVE  [p EXCEPT !.dirty = b] \in Pods /\ [p EXCEPT !.live = b] \in Pods
    BY DEF Pods
  <1>2. [f EXCEPT ![w].dirty = b] \in [Names -> Pods]
    BY <1>1
  <1>3. \A g \in [Names -> Pods] : [g EXCEPT ![w].live = b] \in [Names -> Pods]
    BY <1>1
  <1>4. [f EXCEPT ![w].dirty = b, ![w].live = b]
          = [[f EXCEPT ![w].dirty = b] EXCEPT ![w].live = b]
    OBVIOUS
  <1> QED BY <1>2, <1>3, <1>4

\* The variables a _try_spawn may touch, by what it reports.
SpawnVarsTypeOK ==
    /\ free \in [Names -> Nat]
    /\ placed \subseteq Names
    /\ sweep \in [{"start", "close"} -> SUBSET Names]
    /\ pc \in [Callers -> CallerStates]
    /\ uses \in [Names -> Nat]
    /\ client \in [Names -> {"none", "open", "closed"}]
    /\ thread \in [Names -> DaemonStates]
    /\ attempt \in [Names -> 0..2]
    /\ spawn \in [Names -> SpawnStates]

\* _replace stops after attempt 2: the counter of attempts stays in its range.
LEMMA RetryTypeOK ==
    ASSUME TypeOK, NEW w \in Names, Retry(w)
    PROVE  /\ thread' \in [Names -> DaemonStates]
           /\ attempt' \in [Names -> 0..2]
  <1>1. CASE attempt[w] < 2 /\ attempt' = [attempt EXCEPT ![w] = @ + 1] /\ Daemon(w, "heal")
    <2>1. attempt[w] + 1 \in 0..2
      BY <1>1 DEF TypeOK
    <2> QED BY <1>1, <2>1 DEF TypeOK, Daemon
  <1>2. CASE Daemon(w, "none") /\ UNCHANGED attempt
    BY <1>2 DEF TypeOK, Daemon
  <1> QED BY <1>1, <1>2 DEF Retry

\* Whatever a _try_spawn reports, the variables it touches keep their types.
LEMMA SpawnReportsTypeOK ==
    ASSUME TypeOK, NEW n \in Names
    PROVE  /\ \A state \in SpawnStates : Advance(n, state) => SpawnVarsTypeOK'
           /\ Deliver(n) => SpawnVarsTypeOK'
           /\ Refuse(n) => SpawnVarsTypeOK'
           /\ Raise(n) => SpawnVarsTypeOK'
  <1> USE DEF TypeOK, SpawnVarsTypeOK, Goto
  <1>1. ASSUME NEW state \in SpawnStates, Advance(n, state)
        PROVE  SpawnVarsTypeOK'
    BY <1>1 DEF Advance, starting, records, daemons
  <1>2. ASSUME Deliver(n)
        PROVE  SpawnVarsTypeOK'
    <2>1. /\ uses' \in [Names -> Nat]
          /\ client' \in [Names -> {"none", "open", "closed"}]
          /\ spawn' \in [Names -> SpawnStates]
          /\ UNCHANGED <<attempt, sweep>>
      BY <1>2 DEF Deliver
    <2>2. CASE parent[n] = 0
      <3>1. \E c \in Callers, state \in CallerStates : pc' = [pc EXCEPT ![c] = state]
        BY <1>2, <2>2 DEF Deliver
      <3>2. pc' \in [Callers -> CallerStates]
        BY <3>1
      <3>3. placed' \subseteq Names /\ UNCHANGED <<free, thread>>
        BY <1>2, <2>2 DEF Deliver
      <3> QED BY <2>1, <3>2, <3>3
    <2>3. CASE parent[n] # 0
      <3>1. /\ free' = [free EXCEPT ![n] = @ + 1]
            /\ thread' = [thread EXCEPT ![parent[n]] = "none"]
            /\ UNCHANGED <<placed, pc>>
        BY <1>2, <2>3 DEF Deliver, PutReplacement, Put, Daemon
      <3>2. free' \in [Names -> Nat]
        BY <3>1
      <3>3. thread' \in [Names -> DaemonStates]
        BY <3>1
      <3> QED BY <2>1, <3>1, <3>2, <3>3
    <2> QED BY <2>2, <2>3
  <1>3. ASSUME Refuse(n)
        PROVE  SpawnVarsTypeOK'
    <2>1. CASE parent[n] = 0
      BY <1>3, <2>1 DEF Refuse, starting, records, daemons
    <2>2. CASE parent[n] # 0
      BY <1>3, <2>2, RetryTypeOK DEF Refuse, starting, records, daemons
    <2> QED BY <2>1, <2>2
  <1>4. ASSUME Raise(n)
        PROVE  SpawnVarsTypeOK'
    <2>1. CASE parent[n] = 0
      BY <1>4, <2>1 DEF Raise, records, daemons
    <2>2. CASE parent[n] # 0
      BY <1>4, <2>2, RetryTypeOK DEF Raise, records, daemons
    <2> QED BY <2>1, <2>2
  <1> QED BY <1>1, <1>2, <1>3, <1>4

\* A step of _try_spawn keeps the types.
LEMMA SpawnTypeOK ==
    ASSUME TypeOK, NEW n \in Names, SpawnStep(n)
    PROVE  TypeOK'
  <1>1. /\ serial' \in 0..MaxSerial /\ started' \in BOOLEAN /\ closed' \in BOOLEAN
        /\ job' \in [Callers -> {"start", "run", "session"}]
        /\ held' \in [Callers -> Names \cup {0}]
        /\ calls' \in 0..MaxCalls
        /\ parent' \in [Names -> Names \cup {0}]
        /\ closer' \in {"idle", "list", "sweep", "done"}
        /\ crashes' \in 0..MaxCrashes
    BY DEF SpawnStep, TypeOK
  <1>2. ClusterTypeOK'
    BY ClusterCallsTypeOK DEF TypeOK, SpawnStep, SpawnClear, SpawnCreate, SpawnWatch,
       SpawnDrop, SpawnAbandon
  <1>3. SpawnVarsTypeOK'
    BY SpawnReportsTypeOK DEF SpawnStep, SpawnClear, SpawnCreate, SpawnWatch,
       SpawnDrop, SpawnAbandon
  <1> QED BY <1>1, <1>2, <1>3 DEF TypeOK, SpawnVarsTypeOK

\* The serial number taken is a name.
LEMMA BeginSpawnTypeOK ==
    ASSUME TypeOK, NEW p \in Names \cup {0}, BeginSpawn(p)
    PROVE  /\ serial' \in 0..MaxSerial
           /\ serial' \in Names
           /\ spawn' \in [Names -> SpawnStates]
           /\ parent' \in [Names -> Names \cup {0}]
  <1>1. serial' \in 0..MaxSerial /\ serial' \in Names
    BY ClusterAssumption DEF BeginSpawn, TypeOK, Names
  <1> QED BY <1>1 DEF BeginSpawn, TypeOK

\* A call of the API keeps the types.
LEMMA CallTypeOK ==
    ASSUME TypeOK, NEW c \in Callers, CallStart(c) \/ CallRun(c) \/ CallSession(c)
    PROVE  TypeOK'
  <1>1. /\ pc' \in [Callers -> CallerStates]
        /\ job' \in [Callers -> {"start", "run", "session"}]
    BY DEF CallStart, CallRun, CallSession, Call, Goto, TypeOK
  <1>2. calls' \in 0..MaxCalls
    BY PoolAssumption DEF CallStart, CallRun, CallSession, Call, TypeOK
  <1>3. UNCHANGED <<cluster, controller, starting, held, records, daemons, spawning,
                    closer, crashes>>
    BY DEF CallStart, CallRun, CallSession, Call
  <1> QED BY <1>1, <1>2, <1>3
    DEF TypeOK, ClusterTypeOK, cluster, controller, starting, records, daemons, spawning

\* One conjunct of TypeOK after another: each has few ways to change in start().
LEMMA StartTypeOK ==
    ASSUME TypeOK, NEW c \in Callers, StartStep(c)
    PROVE  TypeOK'
  <1> USE DEF TypeOK
  <1>1. ClusterTypeOK'
    <2>1. CASE \E n \in Names : DeleteReturns(n) \/ DeleteRaises(n)
      BY <2>1, ClusterCallsTypeOK
    <2>2. CASE Fault("api") /\ UNCHANGED pod
      BY <2>2 DEF Fault, ClusterTypeOK
    <2>3. CASE UNCHANGED cluster
      BY <2>3 DEF cluster, ClusterTypeOK
    <2> QED BY <2>1, <2>2, <2>3 DEF StartStep, StartEnter, StartNamespace, StartReclaim,
          StartPolicy, StartWarm, StartPublish, StartTeardown, cluster
  <1>2. pc' \in [Callers -> CallerStates]
    <2>1. \/ UNCHANGED pc
          \/ \E state \in CallerStates : pc' = [pc EXCEPT ![c] = state]
      BY DEF StartStep, StartEnter, StartNamespace, StartReclaim, StartPolicy, StartWarm,
          StartPublish, StartTeardown, Goto, AfterLock, AfterStart, warming
    <2> QED BY <2>1
  <1>3. /\ serial' \in 0..MaxSerial
        /\ spawn' \in [Names -> SpawnStates]
        /\ parent' \in [Names -> Names \cup {0}]
    <2>1. CASE BeginSpawn(0)
      BY <2>1, BeginSpawnTypeOK
    <2>2. CASE UNCHANGED <<serial, spawn, parent>>
      BY <2>2
    <2> QED BY <2>1, <2>2 DEF StartStep, StartEnter, StartNamespace, StartReclaim,
          StartPolicy, StartWarm, StartPublish, StartTeardown, warming, pool, spawning
  <1>4. /\ free' \in [Names -> Nat]
        /\ placed' \subseteq Names
        /\ started' \in BOOLEAN
    <2>1. \/ UNCHANGED free
          \/ \E w \in Names : free' = [free EXCEPT ![w] = @ + 1]
      BY DEF StartStep, StartEnter, StartNamespace, StartReclaim, StartPolicy, StartWarm,
          StartPublish, StartTeardown, warming, pool, Put
    <2>2. free' \in [Names -> Nat]
      BY <2>1
    <2>3. placed' \subseteq placed /\ started' \in {started, TRUE}
      BY DEF StartStep, StartEnter, StartNamespace, StartReclaim, StartPolicy, StartWarm,
          StartPublish, StartTeardown, warming, pool, starting
    <2> QED BY <2>2, <2>3
  <1>5. sweep' \in [{"start", "close"} -> SUBSET Names]
    <2>1. \/ UNCHANGED sweep
          \/ \E S \in SUBSET Names : sweep' = [sweep EXCEPT !["start"] = S]
      BY DEF StartStep, StartEnter, StartNamespace, StartReclaim, StartPolicy, StartWarm,
          StartPublish, StartTeardown, warming, starting
    <2> QED BY <2>1
  <1>6. client' \in [Names -> {"none", "open", "closed"}]
    BY DEF StartStep, StartEnter, StartNamespace, StartReclaim, StartPolicy, StartWarm,
        StartPublish, StartTeardown, CloseClient
  <1>7. UNCHANGED <<closed, job, held, calls, uses, thread, attempt, closer, crashes>>
    BY DEF StartStep, daemons
  <1> QED BY <1>1, <1>2, <1>3, <1>4, <1>5, <1>6, <1>7

\* What the end of a run does to the request, its worker and the queue.
LEMMA EndTypeOK ==
    ASSUME TypeOK, NEW c \in Callers,
           \/ Release(c, TRUE) \/ Release(c, FALSE) \/ RetireNow(c)
           \/ EndHealthy(c) \/ EndUnhealthy(c)
    PROVE  /\ pc' \in [Callers -> CallerStates]
           /\ held' \in [Callers -> Names \cup {0}]
           /\ uses' \in [Names -> Nat]
           /\ free' \in [Names -> Nat]
           /\ thread' \in [Names -> DaemonStates]
  <1> USE DEF EndHealthy, EndUnhealthy, Release, RetireNow, Goto
  <1>1. \/ pc' = [pc EXCEPT ![c] = "idle"]
        \/ pc' = [pc EXCEPT ![c] = "session"]
    OBVIOUS
  <1>2. held' = [held EXCEPT ![c] = 0] \/ UNCHANGED held
    OBVIOUS
  <1>3. uses' = [uses EXCEPT ![held[c]] = @ + 1] \/ UNCHANGED uses
    OBVIOUS
  <1>4. free' = [free EXCEPT ![held[c]] = @ + 1] \/ UNCHANGED free
    BY DEF Retire, Put, Daemon
  <1>5. \/ UNCHANGED thread
        \/ thread' = [thread EXCEPT ![held[c]] = "delete"]
        \/ thread' = [thread EXCEPT ![held[c]] = "clean"]
    BY DEF Retire, Put, Daemon
  <1>6. pc' \in [Callers -> CallerStates] /\ held' \in [Callers -> Names \cup {0}]
    BY <1>1, <1>2 DEF TypeOK
  <1>7. uses' \in [Names -> Nat] /\ free' \in [Names -> Nat]
    BY <1>3, <1>4 DEF TypeOK
  <1>8. thread' \in [Names -> DaemonStates]
    BY <1>5 DEF TypeOK
  <1> QED BY <1>6, <1>7, <1>8

\* A step of a request thread outside start() keeps the types: the worker it takes
\* was in the queue.
LEMMA RequestTypeOK ==
    ASSUME TypeOK, NEW c \in Callers, RequestStep(c)
    PROVE  TypeOK'
  <1> DEFINE Ends == Release(c, TRUE) \/ Release(c, FALSE) \/ EndHealthy(c) \/ EndUnhealthy(c)
             ReqOK == /\ pc \in [Callers -> CallerStates]
                      /\ held \in [Callers -> Names \cup {0}]
                      /\ uses \in [Names -> Nat]
                      /\ free \in [Names -> Nat]
                      /\ thread \in [Names -> DaemonStates]
  <1>1. ClusterTypeOK'
    <2>1. \/ UNCHANGED faults
          \/ faults' = faults + 1
      BY DEF RequestStep, LeaseStep, Lease, LeaseTimesOut, RunStep, RunBegins, RunOk, RunTimesOut,
          RunRejected, RunFails, RunCollectTimesOut, RunInterrupted, RunDropped, SessionEnters,
          SessionCloses, CheckpointFails, cluster, Fault
    <2>2. \/ UNCHANGED pod
          \/ \E d \in BOOLEAN : pod' = [pod EXCEPT ![held[c]].dirty = d]
          \/ \E b \in BOOLEAN : pod' = [pod EXCEPT ![held[c]].live = b]
          \/ pod' = [pod EXCEPT ![held[c]].dirty = TRUE, ![held[c]].live = TRUE]
      BY DEF RequestStep, LeaseStep, Lease, LeaseTimesOut, RunStep, RunBegins, RunOk, RunTimesOut,
          RunRejected, RunFails, RunCollectTimesOut, RunInterrupted, RunDropped, SessionEnters,
          SessionCloses, CheckpointFails, Traces, cluster
    <2>3. pod' \in [Names -> Pods]
      <3>1. pod \in [Names -> Pods]
        BY DEF TypeOK, ClusterTypeOK
      <3>2. /\ \A d \in BOOLEAN : [pod EXCEPT ![held[c]].dirty = d] \in [Names -> Pods]
            /\ \A b \in BOOLEAN : [pod EXCEPT ![held[c]].live = b] \in [Names -> Pods]
            /\ [pod EXCEPT ![held[c]].dirty = TRUE, ![held[c]].live = TRUE] \in [Names -> Pods]
        BY <3>1, BitsTypeOK
      <3> QED BY <2>2, <3>1, <3>2
    <2> QED BY <2>1, <2>3 DEF TypeOK, ClusterTypeOK
  <1>2. calls' \in 0..MaxCalls
    <2>1. UNCHANGED calls \/ (calls < MaxCalls /\ calls' = calls + 1)
      BY DEF RequestStep, LeaseStep, RunStep, RunBegins, RunOk, RunTimesOut, RunRejected,
          RunFails, RunCollectTimesOut, RunInterrupted, RunDropped, SessionEnters, SessionCloses,
          CheckpointFails
    <2> QED BY <2>1, PoolAssumption DEF TypeOK
  <1>3. ReqOK'
    <2>1. CASE Lease(c)
      <3>1. PICK w \in Names : /\ free[w] > 0
                               /\ free' = [free EXCEPT ![w] = @ - 1]
                               /\ held' = [held EXCEPT ![c] = w]
        BY <2>1 DEF Lease, Get
      <3>2. free' \in [Names -> Nat]
        BY <3>1 DEF TypeOK
      <3> QED BY <2>1, <3>1, <3>2 DEF Lease, Goto, TypeOK
    <2>2. CASE LeaseTimesOut(c)
      BY <2>2 DEF LeaseTimesOut, Goto, TypeOK
    <2>3. CASE RunBegins(c) \/ SessionEnters(c)
      BY <2>3 DEF RunBegins, SessionEnters, Goto, TypeOK
    <2>4. CASE Ends
      BY <2>4, EndTypeOK
    <2>5. CASE pc[c] = "enter" /\ RunInterrupted(c)
      <3>1. CASE Release(c, FALSE)
        BY <3>1, <2>4
      <3>2. CASE ~Release(c, FALSE)
        BY <2>5, <3>2 DEF RunInterrupted, Goto, TypeOK
      <3> QED BY <3>1, <3>2
    <2>6. CASE CheckpointFails(c)
      BY <2>6 DEF CheckpointFails, TypeOK
    <2> QED BY <2>1, <2>2, <2>3, <2>4, <2>5, <2>6 DEF RequestStep, LeaseStep, RunStep, RunOk,
          RunTimesOut, RunRejected, RunFails, RunCollectTimesOut, RunInterrupted, RunDropped,
          SessionCloses
  <1> QED BY <1>1, <1>2, <1>3 DEF RequestStep, TypeOK, starting, spawning

\* A step of a daemon thread keeps the types.
LEMMA DaemonTypeOK ==
    ASSUME TypeOK, NEW w \in Names, DaemonStep(w)
    PROVE  TypeOK'
  <1> USE DEF TypeOK
  <1>1. ClusterTypeOK'
    <2>1. CASE DeleteReturns(w) \/ DeleteRaises(w)
      BY <2>1, ClusterCallsTypeOK
    <2>2. CASE UNCHANGED pod /\ (UNCHANGED faults \/ Fault("exec"))
      BY <2>2 DEF Fault, ClusterTypeOK
    <2>3. CASE /\ pod' = [pod EXCEPT ![w].dirty = FALSE] \/ UNCHANGED pod
               /\ UNCHANGED faults
      <3>1. pod \in [Names -> Pods] /\ faults \in Nat
        BY DEF ClusterTypeOK
      <3>2. [pod EXCEPT ![w].dirty = FALSE] \in [Names -> Pods]
        BY <3>1, BitsTypeOK
      <3> QED BY <2>3, <3>1, <3>2 DEF ClusterTypeOK
    <2> QED BY <2>1, <2>2, <2>3 DEF DaemonStep, CleanTests, WipeSucceeds, WipeFails,
          ReplaceDeletes, ReplaceHeals, cluster
  <1>2. thread' \in [Names -> DaemonStates]
    <2>1. \E state \in DaemonStates : thread' = [thread EXCEPT ![w] = state]
      BY DEF DaemonStep, CleanTests, CleanIfOpen, WipeSucceeds, WipeFails, RetireDirty,
          ReplaceDeletes, ReplaceHeals, Daemon
    <2> QED BY <2>1
  <1>3. /\ serial' \in 0..MaxSerial
        /\ spawn' \in [Names -> SpawnStates]
        /\ parent' \in [Names -> Names \cup {0}]
    <2>1. CASE BeginSpawn(w)
      BY <2>1, BeginSpawnTypeOK
    <2>2. CASE UNCHANGED <<serial, spawn, parent>>
      BY <2>2
    <2> QED BY <2>1, <2>2 DEF DaemonStep, CleanTests, WipeSucceeds, WipeFails,
          ReplaceDeletes, ReplaceHeals, controller, pool, spawning
  <1>4. free' \in [Names -> Nat]
    <2>1. UNCHANGED free \/ free' = [free EXCEPT ![w] = @ + 1]
      BY DEF DaemonStep, CleanTests, WipeSucceeds, WipeFails, ReplaceDeletes, ReplaceHeals,
          controller, pool, Put
    <2> QED BY <2>1
  <1>5. /\ client' \in [Names -> {"none", "open", "closed"}]
        /\ attempt' \in [Names -> 0..2]
    BY DEF DaemonStep, CleanTests, CleanIfOpen, WipeSucceeds, WipeFails, ReplaceDeletes,
        ReplaceHeals, records, CloseClient
  <1>6. UNCHANGED <<started, closed, placed, sweep, pc, job, held, calls, uses, closer, crashes>>
    BY DEF DaemonStep, CleanTests, CleanIfOpen, WipeSucceeds, WipeFails, ReplaceDeletes,
        ReplaceHeals, records, controller, pool, starting, requests
  <1> QED BY <1>1, <1>2, <1>3, <1>4, <1>5, <1>6

\* A step of close() keeps the types: it drains what is in the queue, no more.
LEMMA CloserTypeOK ==
    ASSUME TypeOK, CloseCalled \/ CloserStep
    PROVE  TypeOK'
  <1> USE DEF TypeOK
  <1>1. ClusterTypeOK'
    <2>1. CASE \E n \in Names : DeleteReturns(n) \/ DeleteRaises(n)
      BY <2>1, ClusterCallsTypeOK
    <2>2. CASE Fault("api") /\ UNCHANGED pod
      BY <2>2 DEF Fault, ClusterTypeOK
    <2>3. CASE UNCHANGED cluster
      BY <2>3 DEF cluster, ClusterTypeOK
    <2> QED BY <2>1, <2>2, <2>3 DEF CloseCalled, CloseBegins, CloserStep, CloseLists,
          CloseDeletes, CloseDrains, cluster
  <1>2. free' \in [Names -> Nat] /\ client' \in [Names -> {"none", "open", "closed"}]
    <2>1. CASE \E w \in Names : Get(w) /\ CloseClient(w)
      BY <2>1 DEF Get, CloseClient
    <2>2. CASE UNCHANGED <<free, client>>
      BY <2>2
    <2> QED BY <2>1, <2>2 DEF CloseCalled, CloseBegins, CloserStep, CloseLists,
          CloseDeletes, CloseDrains, controller
  <1>3. sweep' \in [{"start", "close"} -> SUBSET Names]
    <2>1. \/ UNCHANGED sweep
          \/ \E S \in SUBSET Names : sweep' = [sweep EXCEPT !["close"] = S]
      BY DEF CloseCalled, CloseBegins, CloserStep, CloseLists, CloseDeletes, CloseDrains
    <2> QED BY <2>1
  <1>4. /\ closer' \in {"idle", "list", "sweep", "done"}
        /\ closed' \in BOOLEAN
        /\ UNCHANGED <<serial, started>>
    BY DEF CloseCalled, CloseBegins, CloserStep, CloseLists, CloseDeletes, CloseDrains,
        controller
  <1>5. UNCHANGED <<placed, pc, job, held, calls, uses, thread, attempt, spawn, parent, crashes>>
    BY DEF CloseCalled, CloserStep, requests, daemons, spawning
  <1> QED BY <1>1, <1>2, <1>3, <1>4, <1>5

\* What the cluster does by itself keeps the types.
LEMMA ClusterStepTypeOK ==
    ASSUME TypeOK, NEW n \in Names, ClusterStep(n)
    PROVE  TypeOK'
  <1>1. ClusterTypeOK'
    <2>1. CASE PodStarts(n) \/ PodVanishes(n) \/ IdleTooLong(n)
      BY <2>1, ClusterCallsTypeOK DEF IdleTooLong, TypeOK
    <2>2. CASE RunawayEnds(n)
      BY <2>2, BitsTypeOK DEF RunawayEnds, TypeOK, ClusterTypeOK
    <2> QED BY <2>1, <2>2 DEF ClusterStep
  <1> QED BY <1>1 DEF ClusterStep, TypeOK, controller, starting, requests, records, daemons,
        spawning

\* A crash leaves the state of a fresh process, and the pods as they are.
LEMMA CrashTypeOK ==
    ASSUME TypeOK, Crash
    PROVE  TypeOK'
  <1>1. /\ ClusterTypeOK' /\ calls' \in 0..MaxCalls
        /\ serial' \in 0..MaxSerial /\ crashes' \in 0..MaxCrashes
    BY PoolAssumption, ClusterAssumption DEF TypeOK, ClusterTypeOK, Crash, cluster
  <1>2. /\ free' \in [Names -> Nat] /\ uses' \in [Names -> Nat]
        /\ attempt' \in [Names -> 0..2]
        /\ parent' \in [Names -> Names \cup {0}]
        /\ held' \in [Callers -> Names \cup {0}]
    BY DEF Crash
  <1>3. /\ started' \in BOOLEAN /\ closed' \in BOOLEAN /\ placed' \subseteq Names
        /\ sweep' \in [{"start", "close"} -> SUBSET Names]
        /\ pc' \in [Callers -> CallerStates]
        /\ job' \in [Callers -> {"start", "run", "session"}]
        /\ client' \in [Names -> {"none", "open", "closed"}]
        /\ thread' \in [Names -> DaemonStates]
        /\ spawn' \in [Names -> SpawnStates]
        /\ closer' \in {"idle", "list", "sweep", "done"}
    BY DEF Crash
  <1> QED BY <1>1, <1>2, <1>3 DEF TypeOK

\* The initial state has the types.
LEMMA InitTypeOK == Init => TypeOK
  <1> SUFFICES ASSUME Init PROVE TypeOK
    OBVIOUS
  <1>1. ClusterTypeOK
    BY DEF Init, ClusterInit, ClusterTypeOK, Pods, Phases, Pod
  <1>2. /\ serial \in 0..MaxSerial /\ calls \in 0..MaxCalls
        /\ crashes \in 0..MaxCrashes
    BY PoolAssumption, ClusterAssumption DEF Init
  <1>3. /\ free \in [Names -> Nat] /\ uses \in [Names -> Nat]
        /\ attempt \in [Names -> 0..2]
        /\ parent \in [Names -> Names \cup {0}]
        /\ held \in [Callers -> Names \cup {0}]
    BY DEF Init
  <1>4. /\ started \in BOOLEAN /\ closed \in BOOLEAN /\ placed \subseteq Names
        /\ sweep \in [{"start", "close"} -> SUBSET Names]
        /\ pc \in [Callers -> CallerStates]
        /\ job \in [Callers -> {"start", "run", "session"}]
        /\ client \in [Names -> {"none", "open", "closed"}]
        /\ thread \in [Names -> DaemonStates]
        /\ spawn \in [Names -> SpawnStates]
        /\ closer \in {"idle", "list", "sweep", "done"}
    BY DEF Init
  <1> QED BY <1>1, <1>2, <1>3, <1>4 DEF TypeOK

\* In every reachable state, for every value of the constants, each variable has
\* its type: in particular no worker is taken from an empty queue, and _replace
\* makes at most three attempts.
THEOREM TypeCorrect == Spec => []TypeOK
  <1>1. ASSUME TypeOK, [Next]_vars
        PROVE  TypeOK'
    <2>1. CASE Next
      BY <1>1, <2>1, CallTypeOK, StartTypeOK, RequestTypeOK, SpawnTypeOK, DaemonTypeOK,
         ClusterStepTypeOK, CloserTypeOK, CrashTypeOK DEF Next, CallerStep
    <2>2. CASE UNCHANGED vars
      BY <1>1, <2>2 DEF vars, cluster, controller, starting, requests, records, daemons,
         spawning, TypeOK, ClusterTypeOK
    <2> QED BY <1>1, <2>1, <2>2
  <1> QED BY InitTypeOK, <1>1, PTL DEF Spec

----------------------------------------------------------------------------
(* Who has a worker, how it gets it and how often it is used: the invariant.   *)

\* Nobody has w.
OutOfPool(w) ==
    /\ free[w] = 0 /\ thread[w] = "none" /\ w \notin placed
    /\ \A c \in Callers : held[c] # w

InFlight(n) == spawn[n] \in {"clear", "create", "wait", "drop", "abandon"}

\* A name is not used before its turn, and its worker is nobody's before _try_spawn
\* returns it.
SpawnsAreNew ==
    \A n \in Names : /\ n > serial => spawn[n] = "unborn"
                     /\ spawn[n] # "done" => OutOfPool(n)

\* A daemon thread waits for one _try_spawn, its own.
OneSpawnEach ==
    \A n \in Names : InFlight(n) /\ parent[n] # 0 =>
        /\ thread[parent[n]] = "spawning"
        /\ \A m \in Names : InFlight(m) /\ parent[m] = parent[n] => m = n

HeldByCustodian == \A c \in Callers : held[c] # 0 <=> pc[c] \in Custodian

PlacedOpen == \A w \in placed : client[w] = "open"

CustodyInv ==
    /\ ExclusiveCustody
    /\ OpenClient /\ PlacedOpen
    /\ SpawnsAreNew
    /\ OneSpawnEach
    /\ HeldByCustodian

custodyVars == <<serial, free, placed, pc, held, client, thread, spawn, parent>>

\* A step that changes none of these variables changes nobody's custody.
LEMMA CustodyFrame ==
    ASSUME CustodyInv, UNCHANGED custodyVars
    PROVE  CustodyInv'
  BY DEF CustodyInv, custodyVars, ExclusiveCustody, OpenClient, PlacedOpen, SpawnsAreNew,
      OutOfPool, OneSpawnEach, InFlight, HeldByCustodian

\* Taking a worker out of the queue and giving it to request c.
LEMMA LeaseCustody ==
    ASSUME TypeOK, CustodyInv, NEW c \in Callers, NEW w \in Names, pc[c] = "lease",
           Get(w), held' = [held EXCEPT ![c] = w],
           pc' = [pc EXCEPT ![c] = "enter"] \/ pc' = [pc EXCEPT ![c] = "leased"],
           UNCHANGED <<serial, placed, client, thread, spawn, parent>>
    PROVE  CustodyInv'
  <1> USE DEF CustodyInv, TypeOK, Get
  <1>1. w \in Names /\ w # 0 /\ free[w] = 1 /\ thread[w] = "none" /\ w \notin placed
        /\ client[w] = "open" /\ spawn[w] = "done"
        /\ (\A d \in Callers : held[d] # w) /\ held[c] = 0
    BY DEF ExclusiveCustody, OpenClient, SpawnsAreNew, OutOfPool, HeldByCustodian, Names
  <1>2. free' = [free EXCEPT ![w] = 0]
    BY <1>1
  <1>3. ExclusiveCustody'
    BY <1>1, <1>2 DEF ExclusiveCustody
  <1>4. OpenClient' /\ PlacedOpen'
    BY <1>1, <1>2 DEF OpenClient, PlacedOpen
  <1>5. SpawnsAreNew'
    BY <1>1, <1>2 DEF SpawnsAreNew, OutOfPool
  <1>6. OneSpawnEach'
    BY DEF OneSpawnEach, InFlight
  <1>7. HeldByCustodian'
    BY <1>1 DEF HeldByCustodian
  <1> QED BY <1>3, <1>4, <1>5, <1>6, <1>7

\* Request c gives its worker up: to the queue, to a daemon thread, or, when its
\* session is interrupted on entry, to nobody.
LEMMA GiveUpCustody ==
    ASSUME TypeOK, CustodyInv, NEW c \in Callers, NEW w \in Names, held[c] = w,
           held' = [held EXCEPT ![c] = 0], pc' = [pc EXCEPT ![c] = "idle"],
           \/ UNCHANGED <<free, thread>>
           \/ free' = [free EXCEPT ![w] = @ + 1] /\ UNCHANGED thread
           \/ /\ UNCHANGED free
              /\ \E state \in {"clean", "delete"} : thread' = [thread EXCEPT ![w] = state],
           UNCHANGED <<serial, placed, client, spawn, parent>>
    PROVE  CustodyInv'
  <1> USE DEF CustodyInv, TypeOK
  <1>1. /\ w # 0 /\ free[w] = 0 /\ thread[w] = "none" /\ w \notin placed
        /\ client[w] = "open" /\ spawn[w] = "done"
        /\ \A d \in Callers : held[d] = w => d = c
    BY DEF ExclusiveCustody, OpenClient, SpawnsAreNew, OutOfPool, Names
  <1>2. \A v \in Names : v # w => free'[v] = free[v] /\ thread'[v] = thread[v]
    OBVIOUS
  <1>3. /\ free'[w] \in {0, 1} /\ thread'[w] \in {"none", "clean", "delete"}
        /\ free'[w] = 0 \/ thread'[w] = "none"
    BY <1>1
  <1>4. \A d \in Callers : held'[d] # w /\ (d # c => held'[d] = held[d]) /\ held'[c] = 0
    BY <1>1
  <1>5. ExclusiveCustody'
    BY <1>1, <1>2, <1>3, <1>4 DEF ExclusiveCustody, Names
  <1>6. OpenClient' /\ PlacedOpen'
    BY <1>1, <1>2, <1>3, <1>4 DEF OpenClient, PlacedOpen, Names
  <1>7. SpawnsAreNew'
    BY <1>1, <1>2, <1>3, <1>4 DEF SpawnsAreNew, OutOfPool, Names
  <1>8. OneSpawnEach'
    BY <1>1, <1>2 DEF OneSpawnEach, InFlight
  <1>9. HeldByCustodian'
    BY <1>4 DEF HeldByCustodian
  <1> QED BY <1>5, <1>6, <1>7, <1>8, <1>9

\* A request thread moves on, with its worker or without one.
LEMMA MoveCustody ==
    ASSUME TypeOK, CustodyInv, NEW c \in Callers, NEW state,
           pc' = [pc EXCEPT ![c] = state], pc[c] \in Custodian <=> state \in Custodian,
           UNCHANGED <<serial, free, placed, held, client, thread, spawn, parent>>
    PROVE  CustodyInv'
  <1>1. HeldByCustodian'
    BY DEF CustodyInv, TypeOK, HeldByCustodian
  <1> QED BY <1>1 DEF CustodyInv, ExclusiveCustody, OpenClient, PlacedOpen, SpawnsAreNew,
        OutOfPool, OneSpawnEach, InFlight

\* The end of a run, of a call or of a session.
LEMMA EndCustody ==
    ASSUME TypeOK, CustodyInv, NEW c \in Callers, pc[c] \in Custodian,
           \/ Release(c, TRUE) \/ Release(c, FALSE) \/ RetireNow(c)
           \/ EndHealthy(c) \/ EndUnhealthy(c),
           UNCHANGED <<serial, placed, client, spawn, parent>>
    PROVE  CustodyInv'
  <1>1. held[c] \in Names
    BY DEF CustodyInv, HeldByCustodian, TypeOK
  <1>2. CASE Release(c, TRUE) \/ Release(c, FALSE) \/ RetireNow(c)
    <2>1. held' = [held EXCEPT ![c] = 0] /\ pc' = [pc EXCEPT ![c] = "idle"]
      BY <1>2 DEF Release, RetireNow, Goto
    <2>2. \/ free' = [free EXCEPT ![held[c]] = @ + 1] /\ UNCHANGED thread
          \/ /\ UNCHANGED free
             /\ \E state \in {"clean", "delete"} : thread' = [thread EXCEPT ![held[c]] = state]
      BY <1>2 DEF Release, RetireNow, Retire, Put, Daemon
    <2> QED BY <1>1, <2>1, <2>2, GiveUpCustody
  <1>3. CASE pc' = [pc EXCEPT ![c] = "session"] /\ UNCHANGED <<free, held, thread>>
    BY <1>3, MoveCustody
  <1> QED BY <1>2, <1>3 DEF EndHealthy, EndUnhealthy, Goto

\* Every step of a request thread outside start().
LEMMA RequestCustody ==
    ASSUME TypeOK, CustodyInv, NEW c \in Callers, RequestStep(c)
    PROVE  CustodyInv'
  <1>1. UNCHANGED <<serial, placed, client, spawn, parent>>
    BY DEF RequestStep, starting, spawning
  <1>2. CASE Lease(c)
    BY <1>1, <1>2, LeaseCustody DEF Lease, Goto
  <1>3. CASE LeaseTimesOut(c)
    BY <1>1, <1>3, MoveCustody DEF LeaseTimesOut, Goto
  <1>4. CASE RunBegins(c)
    BY <1>1, <1>4, MoveCustody DEF RunBegins, Goto
  <1>5. CASE SessionEnters(c)
    BY <1>1, <1>5, MoveCustody DEF SessionEnters, Goto
  <1>6. CASE RunOk(c) \/ RunTimesOut(c) \/ RunRejected(c) \/ RunFails(c)
             \/ RunCollectTimesOut(c) \/ RunDropped(c) \/ SessionCloses(c)
    <2>1. pc[c] \in Custodian
      BY <1>6 DEF RunOk, RunTimesOut, RunRejected, RunFails, RunCollectTimesOut, RunDropped,
          SessionCloses
    <2>2. Release(c, FALSE) \/ EndHealthy(c) \/ EndUnhealthy(c)
      BY <1>6 DEF RunOk, RunTimesOut, RunRejected, RunFails, RunCollectTimesOut, RunDropped,
          SessionCloses
    <2> QED BY <1>1, <2>1, <2>2, EndCustody
  <1>7. CASE RunInterrupted(c)
    <2>1. CASE pc[c] \in {"leased", "session", "run"} /\ Release(c, FALSE)
      BY <1>1, <2>1, EndCustody
    <2>2. CASE /\ pc[c] = "enter"
               /\ held' = [held EXCEPT ![c] = 0]
               /\ Goto(c, "idle")
               /\ UNCHANGED <<free, uses, thread>>
      <3>1. held[c] \in Names
        BY <2>2 DEF CustodyInv, HeldByCustodian, TypeOK
      <3> QED BY <1>1, <2>2, <3>1, GiveUpCustody DEF Goto
    <2> QED BY <1>7, <2>1, <2>2 DEF RunInterrupted
  <1>8. CASE CheckpointFails(c)
    BY <1>1, <1>8, CustodyFrame DEF CheckpointFails, custodyVars
  <1> QED BY <1>2, <1>3, <1>4, <1>5, <1>6, <1>7, <1>8 DEF RequestStep, LeaseStep, RunStep

\* A call of the pool's API: its thread has no worker yet.
LEMMA CallCustody ==
    ASSUME TypeOK, CustodyInv, NEW c \in Callers, CallStart(c) \/ CallRun(c) \/ CallSession(c)
    PROVE  CustodyInv'
  <1>1. PICK state \in {"start", "lease"} : pc' = [pc EXCEPT ![c] = state]
    BY DEF CallStart, CallRun, CallSession, Call, Goto
  <1>2. pc[c] = "idle"
    BY DEF CallStart, CallRun, CallSession, Call
  <1>3. UNCHANGED <<serial, free, placed, held, client, thread, spawn, parent>>
    BY DEF CallStart, CallRun, CallSession, Call, controller, starting, records, daemons,
        spawning
  <1> QED BY <1>1, <1>2, <1>3, MoveCustody

\* The next serial number is taken, by start() (p = 0) or by the daemon thread of p.
LEMMA BeginSpawnCustody ==
    ASSUME TypeOK, CustodyInv, NEW p \in Names \cup {0}, BeginSpawn(p),
           \/ p = 0 /\ UNCHANGED thread
           \/ p # 0 /\ thread[p] = "heal" /\ thread' = [thread EXCEPT ![p] = "spawning"],
           UNCHANGED pc \/ \E c \in Callers : /\ pc[c] = "warm"
                                              /\ pc' = [pc EXCEPT ![c] = "spawning"],
           UNCHANGED <<free, placed, held, client>>
    PROVE  CustodyInv'
  <1> USE DEF CustodyInv, TypeOK
  <1>1. PICK n \in Names : n > serial /\ n = serial + 1 /\ serial' = n
    BY ClusterAssumption DEF BeginSpawn, Names
  <1>2. spawn' = [spawn EXCEPT ![n] = "clear"] /\ parent' = [parent EXCEPT ![n] = p]
    BY <1>1 DEF BeginSpawn
  <1>3. spawn[n] = "unborn" /\ OutOfPool(n)
    BY <1>1 DEF SpawnsAreNew
  <1>4. p # n
    BY <1>1, <1>3 DEF OutOfPool, Names
  <1>5. ExclusiveCustody' /\ OpenClient' /\ PlacedOpen'
    <2>1. \A w \in Names : /\ thread'[w] = "none" <=> thread[w] = "none"
                           /\ thread'[w] \in Minding <=> thread[w] \in Minding
      OBVIOUS
    <2> QED BY <2>1 DEF ExclusiveCustody, OpenClient, PlacedOpen
  <1>6. SpawnsAreNew'
    <2>1. \A w \in Names : w > n => w > serial
      BY <1>1 DEF Names
    <2>2. \A w \in Names : OutOfPool(w) => OutOfPool(w)'
      BY DEF OutOfPool
    <2> QED BY <1>1, <1>2, <1>3, <2>1, <2>2 DEF SpawnsAreNew, Names
  <1>7. OneSpawnEach'
    <2>1. p # 0 => \A m \in Names : InFlight(m) => parent[m] # p
      BY DEF OneSpawnEach
    <2>2. \A m \in Names \ {n} : (InFlight(m)' <=> InFlight(m)) /\ parent'[m] = parent[m]
      BY <1>1, <1>2 DEF InFlight
    <2>3. InFlight(n)' /\ parent'[n] = p
      BY <1>1, <1>2 DEF InFlight
    <2>4. p # 0 => thread'[p] = "spawning"
      OBVIOUS
    <2>5. \A m \in Names : InFlight(m) /\ parent[m] # 0 => thread'[parent[m]] = "spawning"
      <3>1. \A m \in Names : InFlight(m) /\ parent[m] # 0
                => parent[m] \in Names /\ thread[parent[m]] = "spawning"
        BY DEF OneSpawnEach
      <3> QED BY <3>1
    <2> QED BY <2>1, <2>2, <2>3, <2>4, <2>5 DEF OneSpawnEach
  <1>8. HeldByCustodian'
    BY DEF HeldByCustodian
  <1> QED BY <1>5, <1>6, <1>7, <1>8

\* A _try_spawn that raises or is refused hands nobody a worker.
LEMMA FailedSpawnCustody ==
    ASSUME TypeOK, CustodyInv, NEW n \in Names, InFlight(n),
           spawn' = [spawn EXCEPT ![n] = "failed"],
           \/ parent[n] = 0 /\ UNCHANGED thread
           \/ /\ parent[n] # 0
              /\ \E state \in {"none", "heal"} : thread' = [thread EXCEPT ![parent[n]] = state],
           placed' \subseteq placed,
           UNCHANGED pc \/ \E c \in Callers, state \in {"publish", "teardown", "idle"} :
                              pc[c] = "spawning" /\ pc' = [pc EXCEPT ![c] = state],
           UNCHANGED <<serial, free, held, client, parent>>
    PROVE  CustodyInv'
  <1> USE DEF CustodyInv, TypeOK
  <1>1. \A m \in Names : InFlight(m)' => InFlight(m) /\ m # n
    BY DEF InFlight
  <1>2. /\ \A w \in Names : thread[w] = "none" => thread'[w] = "none"
        /\ \A w \in Names : thread'[w] \in Minding => thread[w] \in Minding
    BY DEF OneSpawnEach
  <1>3. ExclusiveCustody' /\ OpenClient' /\ PlacedOpen'
    BY <1>2 DEF ExclusiveCustody, OpenClient, PlacedOpen
  <1>4. SpawnsAreNew'
    BY <1>2 DEF SpawnsAreNew, OutOfPool, InFlight
  <1>5. OneSpawnEach'
    <2>1. \A m \in Names : InFlight(m) /\ m # n /\ parent[m] # 0
                             => thread'[parent[m]] = thread[parent[m]]
      BY DEF OneSpawnEach
    <2> QED BY <1>1, <2>1 DEF OneSpawnEach
  <1>6. HeldByCustodian'
    BY DEF HeldByCustodian
  <1> QED BY <1>3, <1>4, <1>5, <1>6

\* A _try_spawn that returns its worker hands it to start() or to the queue.
LEMMA DeliverCustody ==
    ASSUME TypeOK, CustodyInv, NEW n \in Names, InFlight(n), Deliver(n),
           UNCHANGED <<serial, held, parent>>
    PROVE  CustodyInv'
  <1> USE DEF CustodyInv, TypeOK
  <1>1. spawn' = [spawn EXCEPT ![n] = "done"] /\ client' = [client EXCEPT ![n] = "open"]
    BY DEF Deliver
  <1>2. OutOfPool(n)
    BY DEF SpawnsAreNew, InFlight
  <1>3. \A m \in Names : InFlight(m)' => InFlight(m) /\ m # n
    BY <1>1 DEF InFlight
  <1>4. n \leq serial
    BY DEF SpawnsAreNew, InFlight, Names
  <1>5. CASE parent[n] = 0
    <2>1. placed' = placed \cup {n} /\ UNCHANGED <<free, thread>>
      BY <1>5 DEF Deliver
    <2>2. \E c \in Callers, state \in {"publish", "warm"} :
             pc[c] = "spawning" /\ pc' = [pc EXCEPT ![c] = state]
      BY <1>5 DEF Deliver, Goto
    <2>3. ExclusiveCustody' /\ OpenClient' /\ PlacedOpen'
      BY <1>1, <1>2, <2>1 DEF ExclusiveCustody, OpenClient, PlacedOpen, OutOfPool
    <2>4. SpawnsAreNew'
      BY <1>1, <1>4, <2>1 DEF SpawnsAreNew, OutOfPool, Names
    <2>5. OneSpawnEach'
      BY <1>3, <2>1 DEF OneSpawnEach
    <2>6. HeldByCustodian'
      BY <2>2 DEF HeldByCustodian
    <2> QED BY <2>3, <2>4, <2>5, <2>6
  <1>6. CASE parent[n] # 0
    <2>1. /\ free' = [free EXCEPT ![n] = @ + 1]
          /\ thread' = [thread EXCEPT ![parent[n]] = "none"]
          /\ UNCHANGED <<placed, pc>>
      BY <1>6 DEF Deliver, PutReplacement, Put, Daemon
    <2>2. parent[n] \in Names /\ parent[n] # n /\ thread[parent[n]] = "spawning"
      BY <1>2, <1>6 DEF OneSpawnEach, OutOfPool
    <2>3. free'[n] = 1 /\ thread'[n] = "none" /\ n \notin placed /\ \A c \in Callers : held[c] # n
      BY <1>2, <2>1, <2>2 DEF OutOfPool
    <2>4. \A w \in Names : /\ w # n => free'[w] = free[w]
                           /\ thread[w] = "none" => thread'[w] = "none"
                           /\ thread'[w] \in Minding => thread[w] \in Minding
      BY <2>1
    <2>5. ExclusiveCustody'
      BY <2>1, <2>3, <2>4 DEF ExclusiveCustody
    <2>6. OpenClient' /\ PlacedOpen'
      BY <1>1, <2>1, <2>3, <2>4 DEF OpenClient, PlacedOpen
    <2>7. SpawnsAreNew'
      BY <1>1, <1>4, <2>1, <2>4 DEF SpawnsAreNew, OutOfPool, Names
    <2>8. OneSpawnEach'
      <3>1. \A m \in Names : InFlight(m) /\ m # n /\ parent[m] # 0
                               => thread'[parent[m]] = thread[parent[m]]
        BY <2>1 DEF OneSpawnEach
      <3> QED BY <1>3, <3>1 DEF OneSpawnEach
    <2>9. HeldByCustodian'
      BY <2>1 DEF HeldByCustodian
    <2> QED BY <2>5, <2>6, <2>7, <2>8, <2>9
  <1> QED BY <1>5, <1>6

\* Every step of a _try_spawn.
LEMMA SpawnCustody ==
    ASSUME TypeOK, CustodyInv, NEW n \in Names, SpawnStep(n)
    PROVE  CustodyInv'
  <1>1. InFlight(n)
    BY DEF SpawnStep, SpawnClear, SpawnCreate, SpawnWatch, SpawnDrop, SpawnAbandon, InFlight
  <1>2. UNCHANGED <<serial, held, parent>>
    BY DEF SpawnStep
  <1>3. CASE Deliver(n)
    BY <1>1, <1>2, <1>3, DeliverCustody
  <1>4. CASE Refuse(n) \/ Raise(n)
    <2>1. spawn' = [spawn EXCEPT ![n] = "failed"] /\ UNCHANGED <<free, client>>
      BY <1>4 DEF Refuse, Raise, records
    <2>2. \/ parent[n] = 0 /\ UNCHANGED thread
          \/ /\ parent[n] # 0
             /\ \E state \in {"none", "heal"} : thread' = [thread EXCEPT ![parent[n]] = state]
      BY <1>4 DEF Refuse, Raise, Retry, Daemon, daemons
    <2>3. placed' \subseteq placed
      BY <1>4 DEF Refuse, Raise, starting
    <2>4. UNCHANGED pc \/ \E c \in Callers, state \in {"publish", "teardown", "idle"} :
                             pc[c] = "spawning" /\ pc' = [pc EXCEPT ![c] = state]
      BY <1>4 DEF Refuse, Raise, Goto
    <2> QED BY <1>1, <1>2, <2>1, <2>2, <2>3, <2>4, FailedSpawnCustody
  <1>5. CASE \E state \in {"create", "wait", "drop", "abandon"} : Advance(n, state)
    <2>1. PICK state \in {"create", "wait", "drop", "abandon"} :
             spawn' = [spawn EXCEPT ![n] = state]
      BY <1>5 DEF Advance
    <2>2. UNCHANGED <<free, placed, pc, client, thread>>
      BY <1>5 DEF Advance, starting, records, daemons
    <2>3. \A m \in Names : /\ spawn'[m] = "done" <=> spawn[m] = "done"
                           /\ spawn'[m] = "unborn" <=> spawn[m] = "unborn"
                           /\ InFlight(m)' <=> InFlight(m)
      <3>1. \A m \in Names \ {n} : spawn'[m] = spawn[m]
        BY <2>1 DEF TypeOK
      <3>2. spawn'[n] = state
        BY <2>1 DEF TypeOK
      <3> QED BY <1>1, <2>1, <3>1, <3>2 DEF InFlight
    <2>4. OneSpawnEach'
      BY <1>2, <2>2, <2>3 DEF CustodyInv, OneSpawnEach
    <2>5. SpawnsAreNew'
      BY <1>2, <2>2, <2>3 DEF CustodyInv, SpawnsAreNew, OutOfPool
    <2> QED BY <1>2, <2>2, <2>4, <2>5 DEF CustodyInv, ExclusiveCustody, OpenClient, PlacedOpen,
          HeldByCustodian
  <1> QED BY <1>3, <1>4, <1>5 DEF SpawnStep, SpawnClear, SpawnCreate, SpawnWatch, SpawnDrop,
        SpawnAbandon

\* Every step of start(): it publishes the workers it placed, or deletes them.
LEMMA StartCustody ==
    ASSUME TypeOK, CustodyInv, NEW c \in Callers, StartStep(c)
    PROVE  CustodyInv'
  <1>1. UNCHANGED <<held, thread>>
    BY DEF StartStep, daemons
  <1>2. CASE StartWarm(c)
    <2>1. BeginSpawn(0) /\ UNCHANGED <<free, placed, client>>
      BY <1>2 DEF StartWarm, starting
    <2>2. pc[c] = "warm" /\ pc' = [pc EXCEPT ![c] = "spawning"]
      BY <1>2 DEF StartWarm, Goto
    <2> QED BY <1>1, <2>1, <2>2, BeginSpawnCustody
  <1>3. CASE StartPublish(c)
    <2>1. UNCHANGED <<serial, client, spawn, parent>>
      BY <1>3 DEF StartPublish, spawning
    <2>2. CASE UNCHANGED <<free, placed>> /\ Goto(c, AfterStart(c)) /\ pc[c] = "publish"
      BY <1>1, <2>1, <2>2, MoveCustody DEF AfterStart, Goto
    <2>3. ASSUME NEW w \in placed, Put(w), placed' = placed \ {w}, UNCHANGED pc
          PROVE  CustodyInv'
      <3>1. /\ w \in Names /\ free[w] = 0 /\ thread[w] = "none" /\ client[w] = "open"
            /\ spawn[w] = "done" /\ \A d \in Callers : held[d] # w
        BY DEF TypeOK, CustodyInv, ExclusiveCustody, PlacedOpen, SpawnsAreNew, OutOfPool
      <3>2. free' = [free EXCEPT ![w] = 1]
        BY <2>3, <3>1 DEF Put
      <3> QED BY <1>1, <2>1, <2>3, <3>1, <3>2 DEF TypeOK, CustodyInv, ExclusiveCustody,
            OpenClient, PlacedOpen, SpawnsAreNew, OutOfPool, OneSpawnEach, InFlight,
            HeldByCustodian
    <2> QED BY <1>3, <2>2, <2>3 DEF StartPublish
  <1>4. CASE StartTeardown(c)
    <2>1. UNCHANGED <<serial, free, spawn, parent>>
      BY <1>4 DEF StartTeardown, pool, spawning
    <2>2. UNCHANGED pc \/ (pc' = [pc EXCEPT ![c] = "idle"] /\ pc[c] \notin Custodian)
      BY <1>4 DEF StartTeardown, Goto
    <2>3. placed' \subseteq placed
      BY <1>4 DEF StartTeardown
    <2>4. \/ UNCHANGED client
          \/ \E w \in placed : client' = [client EXCEPT ![w] = "closed"] /\ w \notin placed'
      BY <1>4 DEF StartTeardown, CloseClient
    <2>5. OpenClient' /\ PlacedOpen'
      BY <1>1, <2>1, <2>3, <2>4 DEF TypeOK, CustodyInv, ExclusiveCustody, OpenClient, PlacedOpen
    <2>6. HeldByCustodian'
      BY <1>1, <2>2 DEF TypeOK, CustodyInv, HeldByCustodian
    <2> QED BY <1>1, <2>1, <2>3, <2>5, <2>6 DEF CustodyInv, ExclusiveCustody, SpawnsAreNew,
          OutOfPool, OneSpawnEach, InFlight
  <1>5. CASE StartEnter(c) \/ StartNamespace(c) \/ StartReclaim(c) \/ StartPolicy(c)
    <2>1. UNCHANGED <<serial, free, placed, client, spawn, parent>>
      BY <1>5 DEF StartEnter, StartNamespace, StartReclaim, StartPolicy, warming, pool, starting,
          spawning
    <2>2. pc[c] \notin Custodian
      BY <1>5 DEF StartEnter, StartNamespace, StartReclaim, StartPolicy
    <2>3. CASE UNCHANGED pc
      BY <1>1, <2>1, <2>3, CustodyFrame DEF custodyVars
    <2>4. CASE \E state \in CallerStates \ Custodian : pc' = [pc EXCEPT ![c] = state]
      BY <1>1, <2>1, <2>2, <2>4, MoveCustody
    <2> QED BY <1>5, <2>3, <2>4 DEF StartEnter, StartNamespace, StartReclaim, StartPolicy,
          AfterLock, AfterStart, Goto
  <1> QED BY <1>2, <1>3, <1>4, <1>5 DEF StartStep

\* Every step of a daemon thread.
LEMMA DaemonCustody ==
    ASSUME TypeOK, CustodyInv, NEW w \in Names, DaemonStep(w)
    PROVE  CustodyInv'
  <1>1. UNCHANGED <<placed, pc, held>>
    BY DEF DaemonStep, starting, requests
  <1>2. CASE ReplaceHeals(w) /\ BeginSpawn(w)
    <2>1. thread[w] = "heal" /\ UNCHANGED <<free, client>>
      BY <1>2 DEF ReplaceHeals, records
    <2>2. CASE thread' = [thread EXCEPT ![w] = "spawning"]
      <3>1. w # 0
        BY DEF Names
      <3> QED BY <1>1, <1>2, <2>1, <2>2, <3>1, BeginSpawnCustody
    <2>3. CASE ~MayHeal /\ UNCHANGED serial
      BY <1>2, <2>3 DEF BeginSpawn, TypeOK
    <2> QED BY <1>2, <2>2, <2>3 DEF ReplaceHeals, Daemon
  <1>3. CASE /\ UNCHANGED <<serial, spawn, parent>>
             /\ thread[w] \in Minding \cup {"heal"}
             /\ \/ /\ UNCHANGED <<free, client>>
                   /\ \E state \in {"none", "wipe", "delete"} :
                         /\ thread' = [thread EXCEPT ![w] = state]
                         /\ state # "none" => thread[w] # "heal"
                \/ /\ UNCHANGED free
                   /\ client' = [client EXCEPT ![w] = "closed"]
                   /\ thread[w] # "heal"
                   /\ \E state \in {"none", "heal"} : thread' = [thread EXCEPT ![w] = state]
                \/ /\ free' = [free EXCEPT ![w] = @ + 1]
                   /\ UNCHANGED client
                   /\ thread[w] # "heal"
                   /\ thread' = [thread EXCEPT ![w] = "none"]
    <2> USE DEF TypeOK, CustodyInv
    <2>1. /\ free[w] = 0 /\ w \notin placed /\ spawn[w] = "done"
          /\ \A c \in Callers : held[c] # w
          /\ thread[w] # "heal" => client[w] = "open"
      BY <1>3 DEF ExclusiveCustody, OpenClient, SpawnsAreNew, OutOfPool, Names
    <2>2. \A v \in Names \ {w} : /\ free'[v] = free[v] /\ thread'[v] = thread[v]
                                 /\ client'[v] = client[v]
      BY <1>3
    <2>3. /\ free'[w] \in {0, 1} /\ (free'[w] = 0 \/ thread'[w] = "none")
          /\ free'[w] = 1 \/ thread'[w] \in Minding => client'[w] = "open"
      BY <1>3, <2>1
    <2>4. ExclusiveCustody'
      BY <1>1, <2>1, <2>2, <2>3 DEF ExclusiveCustody
    <2>5. OpenClient' /\ PlacedOpen'
      BY <1>1, <2>1, <2>2, <2>3 DEF OpenClient, PlacedOpen
    <2>6. SpawnsAreNew'
      BY <1>1, <1>3, <2>1, <2>2 DEF SpawnsAreNew, OutOfPool
    <2>7. OneSpawnEach'
      <3>1. \A n \in Names : InFlight(n) /\ parent[n] # 0 => parent[n] \in Names \ {w}
        BY <1>3 DEF OneSpawnEach
      <3> QED BY <1>3, <2>2, <3>1 DEF OneSpawnEach, InFlight
    <2>8. HeldByCustodian'
      BY <1>1 DEF HeldByCustodian
    <2> QED BY <2>4, <2>5, <2>6, <2>7, <2>8
  <1>4. CASE CleanTests(w)
    BY <1>3, <1>4 DEF CleanTests, CleanIfOpen, Daemon, CloseClient, pool, spawning
  <1>5. CASE WipeSucceeds(w)
    BY <1>3, <1>5 DEF WipeSucceeds, Put, Daemon, records, spawning
  <1>6. CASE WipeFails(w)
    BY <1>3, <1>6 DEF WipeFails, RetireDirty, Daemon, pool, records, spawning
  <1>7. CASE ReplaceDeletes(w)
    BY <1>3, <1>7 DEF ReplaceDeletes, Daemon, CloseClient, controller, spawning
  <1>8. CASE ReplaceHeals(w)
    BY <1>2, <1>3, <1>8 DEF ReplaceHeals, Daemon, records, spawning
  <1> QED BY <1>4, <1>5, <1>6, <1>7, <1>8 DEF DaemonStep

\* Every step of close(): it takes a worker out of the queue and closes its client.
LEMMA CloserCustody ==
    ASSUME TypeOK, CustodyInv, CloseCalled \/ CloserStep
    PROVE  CustodyInv'
  <1>1. UNCHANGED <<serial, placed, pc, held, thread, spawn, parent>>
    BY DEF CloseCalled, CloseBegins, CloserStep, CloseLists, CloseDeletes, CloseDrains, requests,
        daemons, spawning, controller
  <1>2. CASE UNCHANGED <<free, client>>
    BY <1>1, <1>2, CustodyFrame DEF custodyVars
  <1>3. CASE \E w \in Names : Get(w) /\ CloseClient(w)
    <2> USE DEF TypeOK, CustodyInv
    <2>1. PICK w \in Names : /\ free[w] > 0 /\ free' = [free EXCEPT ![w] = @ - 1]
                             /\ client' = [client EXCEPT ![w] = "closed"]
      BY <1>3 DEF Get, CloseClient
    <2>2. /\ free[w] = 1 /\ thread[w] = "none" /\ w \notin placed /\ spawn[w] = "done"
          /\ \A c \in Callers : held[c] # w
      BY <2>1 DEF ExclusiveCustody, SpawnsAreNew, OutOfPool
    <2>3. free'[w] = 0
      BY <2>1, <2>2
    <2>4. \A v \in Names \ {w} : free'[v] = free[v] /\ client'[v] = client[v]
      BY <2>1
    <2>5. ExclusiveCustody'
      BY <1>1, <2>2, <2>3, <2>4 DEF ExclusiveCustody
    <2>6. OpenClient' /\ PlacedOpen'
      BY <1>1, <2>2, <2>3, <2>4 DEF OpenClient, PlacedOpen
    <2>7. SpawnsAreNew'
      BY <1>1, <2>2, <2>4 DEF SpawnsAreNew, OutOfPool
    <2>8. OneSpawnEach' /\ HeldByCustodian'
      BY <1>1 DEF OneSpawnEach, InFlight, HeldByCustodian
    <2> QED BY <2>5, <2>6, <2>7, <2>8
  <1> QED BY <1>2, <1>3 DEF CloseCalled, CloseBegins, CloserStep, CloseLists, CloseDeletes,
        CloseDrains, controller

\* A fresh process has no worker.
LEMMA InitCustody == Init => CustodyInv
  BY ClusterAssumption DEF Init, CustodyInv, ExclusiveCustody, OpenClient, PlacedOpen,
      SpawnsAreNew, OutOfPool, OneSpawnEach, InFlight, HeldByCustodian, Names

\* After a crash nobody has a worker.
LEMMA CrashCustody == Crash => CustodyInv'
  BY ClusterAssumption DEF Crash, CustodyInv, ExclusiveCustody, OpenClient, PlacedOpen,
      SpawnsAreNew, OutOfPool, OneSpawnEach, InFlight, HeldByCustodian, Names

\* CustodyInv is inductive, given the types.
LEMMA CustodyStep == TypeOK /\ CustodyInv /\ [Next]_vars => CustodyInv'
  <1> SUFFICES ASSUME TypeOK, CustodyInv, [Next]_vars PROVE CustodyInv'
    OBVIOUS
  <1>1. CASE \E n \in Names : ClusterStep(n)
    BY <1>1, CustodyFrame DEF ClusterStep, custodyVars, controller, starting, requests,
       records, daemons, spawning
  <1>2. CASE UNCHANGED vars
    BY <1>2, CustodyFrame DEF custodyVars, vars, controller, starting, requests, records,
       daemons, spawning
  <1> QED BY <1>1, <1>2, CallCustody, StartCustody, RequestCustody, SpawnCustody,
        DaemonCustody, CloserCustody, CrashCustody DEF Next, CallerStep

\* CustodyInv holds in every reachable state.
LEMMA CustodyInvariant == Spec => []CustodyInv
  BY InitCustody, CustodyStep, TypeCorrect, PTL DEF Spec

----------------------------------------------------------------------------
(* How a worker comes to somebody: by a step of whom it is with, or from the *)
(* _try_spawn of its own name.                                              *)

\* A worker that will be leased again if nothing happens to it.
Reusable(w) == free[w] > 0 \/ thread[w] \in {"clean", "wipe"} \/ w \in placed

UsesInv == \A w \in Names : Reusable(w) => uses[w] < MaxUses

\* What one step may do to the custody and the uses of the workers.
CustodyMoves ==
    \A w \in Names :
        /\ InCustody(w)' => InCustody(w) \/ InFlight(w)
        /\ w \in InService' => w \in InService \/ (spawn[w] = "wait" /\ Deliver(w) /\ UNCHANGED held)
        /\ Reusable(w)' => (Reusable(w) /\ uses'[w] = uses[w]) \/ uses'[w] < MaxUses

\* A step that only takes workers from those who have them.
LEMMA MovesFrame ==
    ASSUME NEW w \in Names,
           free'[w] > 0 => free[w] > 0,
           thread'[w] # "none" => thread[w] # "none",
           thread'[w] \in {"clean", "wipe"} => thread[w] \in {"clean", "wipe"},
           thread'[w] \in Minding => thread[w] \in Minding,
           w \in placed' => w \in placed,
           UNCHANGED <<held, uses>>
    PROVE  /\ InCustody(w)' => InCustody(w)
           /\ w \in InService' => w \in InService
           /\ Reusable(w)' => Reusable(w) /\ uses'[w] = uses[w]
  BY DEF InCustody, InService, Reusable

\* The end of a run: the worker goes to the queue or is wiped only with a use left.
LEMMA EndMoves ==
    ASSUME TypeOK, CustodyInv, NEW c \in Callers, pc[c] \in Custodian,
           \/ Release(c, TRUE) \/ Release(c, FALSE) \/ RetireNow(c)
           \/ EndHealthy(c) \/ EndUnhealthy(c),
           UNCHANGED placed
    PROVE  CustodyMoves
  <1> USE DEF TypeOK
  <1>1. held[c] \in Names
    BY DEF CustodyInv, HeldByCustodian
  <1>2. CASE Release(c, TRUE) \/ Release(c, FALSE) \/ RetireNow(c)
    <2> PICK v \in Names : v = held[c]
      BY <1>1
    <2>1. free[v] = 0 /\ thread[v] = "none" /\ v \notin placed
      BY <1>1 DEF CustodyInv, ExclusiveCustody
    <2>2. \A w \in Names \ {v} : /\ free'[w] = free[w] /\ thread'[w] = thread[w]
                                 /\ uses'[w] = uses[w]
      BY <1>1, <1>2 DEF Release, RetireNow, Retire, Put, Daemon
    <2>3. \A w \in Names \ {v} : (\E d \in Callers : held'[d] = w)
                                    => \E d \in Callers : held[d] = w
      BY <1>2 DEF Release, RetireNow, Names
    <2>4. Reusable(v)' => uses'[v] < MaxUses
      <3>1. CASE thread'[v] = "delete" /\ UNCHANGED free
        BY <2>1, <3>1 DEF Reusable
      <3>2. CASE ~SpentByUses(v) /\ uses' = [uses EXCEPT ![v] = @ + 1]
        BY <1>1, <3>2, PoolAssumption DEF SpentByUses
      <3> QED BY <1>1, <1>2, <3>1, <3>2 DEF Release, RetireNow, Retire, Daemon
    <2>5. InCustody(v) /\ v \in InService
      BY <1>1 DEF InCustody, InService
    <2>6. ASSUME NEW w \in Names \ {v}
          PROVE  /\ InCustody(w)' => InCustody(w)
                 /\ w \in InService' => w \in InService
                 /\ Reusable(w)' => Reusable(w) /\ uses'[w] = uses[w]
      BY <2>2, <2>3 DEF InCustody, InService, Reusable
    <2> QED BY <1>1, <2>4, <2>5, <2>6 DEF CustodyMoves
  <1>3. CASE UNCHANGED <<free, held, uses, thread>>
    BY <1>3, MovesFrame DEF CustodyMoves
  <1> QED BY <1>2, <1>3 DEF EndHealthy, EndUnhealthy

\* Every step of a request thread outside start().
LEMMA RequestMoves ==
    ASSUME TypeOK, CustodyInv, NEW c \in Callers, RequestStep(c)
    PROVE  CustodyMoves
  <1> USE DEF TypeOK
  <1>1. UNCHANGED placed
    BY DEF RequestStep, starting
  <1>2. CASE Lease(c)
    <2>1. PICK v \in Names : /\ free[v] > 0 /\ free' = [free EXCEPT ![v] = @ - 1]
                             /\ held' = [held EXCEPT ![c] = v]
      BY <1>2 DEF Lease, Get
    <2>2. InCustody(v) /\ v \in InService /\ Reusable(v)
      BY <2>1 DEF InCustody, InService, Reusable
    <2>3. UNCHANGED <<uses, thread>>
      BY <1>2 DEF Lease
    <2>4. ASSUME NEW w \in Names \ {v}
          PROVE  /\ InCustody(w)' => InCustody(w)
                 /\ w \in InService' => w \in InService
                 /\ Reusable(w)' => Reusable(w)
      <3>1. free'[w] = free[w]
        BY <2>1
      <3>2. (\E d \in Callers : held'[d] = w) => \E d \in Callers : held[d] = w
        BY <2>1
      <3> QED BY <1>1, <2>3, <3>1, <3>2 DEF InCustody, InService, Reusable
    <2> QED BY <2>2, <2>3, <2>4 DEF CustodyMoves
  <1>3. CASE LeaseTimesOut(c) \/ RunBegins(c) \/ SessionEnters(c) \/ CheckpointFails(c)
    BY <1>1, <1>3, MovesFrame DEF CustodyMoves, LeaseTimesOut, RunBegins, SessionEnters,
        CheckpointFails
  <1>4. CASE RunOk(c) \/ RunTimesOut(c) \/ RunRejected(c) \/ RunFails(c)
             \/ RunCollectTimesOut(c) \/ RunDropped(c) \/ SessionCloses(c)
    <2>1. pc[c] \in Custodian
      BY <1>4 DEF RunOk, RunTimesOut, RunRejected, RunFails, RunCollectTimesOut, RunDropped,
          SessionCloses
    <2>2. Release(c, FALSE) \/ EndHealthy(c) \/ EndUnhealthy(c)
      BY <1>4 DEF RunOk, RunTimesOut, RunRejected, RunFails, RunCollectTimesOut, RunDropped,
          SessionCloses
    <2> QED BY <1>1, <2>1, <2>2, EndMoves
  <1>5. CASE RunInterrupted(c)
    <2>1. CASE pc[c] \in {"leased", "session", "run"} /\ Release(c, FALSE)
      BY <1>1, <2>1, EndMoves
    <2>2. CASE held' = [held EXCEPT ![c] = 0] /\ UNCHANGED <<free, uses, thread>>
      <3>1. \A w \in Names : (\E d \in Callers : held'[d] = w) => \E d \in Callers : held[d] = w
        BY <2>2 DEF Names
      <3> QED BY <1>1, <2>2, <3>1 DEF CustodyMoves, InCustody, InService, Reusable
    <2> QED BY <1>5, <2>1, <2>2 DEF RunInterrupted
  <1> QED BY <1>2, <1>3, <1>4, <1>5 DEF RequestStep, LeaseStep, RunStep

\* Every step of a _try_spawn: only its return brings anybody a worker, a new one.
LEMMA SpawnMoves ==
    ASSUME TypeOK, CustodyInv, NEW n \in Names, SpawnStep(n)
    PROVE  CustodyMoves
  <1> USE DEF TypeOK
  <1>1. InFlight(n) /\ UNCHANGED held
    BY DEF SpawnStep, SpawnClear, SpawnCreate, SpawnWatch, SpawnDrop, SpawnAbandon, InFlight
  <1>2. parent[n] # 0 => parent[n] \in Names /\ thread[parent[n]] = "spawning"
    BY <1>1 DEF CustodyInv, OneSpawnEach
  <1>3. CASE Deliver(n) /\ spawn[n] = "wait"
    <2>1. uses' = [uses EXCEPT ![n] = 0]
      BY <1>3 DEF Deliver
    <2>2. ASSUME NEW w \in Names \ {n}
          PROVE  /\ InCustody(w)' => InCustody(w)
                 /\ w \in InService' => w \in InService
                 /\ Reusable(w)' => Reusable(w) /\ uses'[w] = uses[w]
      <3>1. /\ free'[w] = free[w]
            /\ thread'[w] = thread[w] \/ thread'[w] = "none"
            /\ w \in placed' => w \in placed
        BY <1>3, <1>2 DEF Deliver, PutReplacement, Put, Daemon
      <3> QED BY <1>1, <2>1, <3>1 DEF InCustody, InService, Reusable
    <2>3. uses'[n] < MaxUses
      BY <2>1, PoolAssumption
    <2> QED BY <1>1, <1>3, <2>2, <2>3 DEF CustodyMoves
  <1>4. CASE Refuse(n) \/ Raise(n)
    <2>1. UNCHANGED <<free, uses>> /\ placed' \subseteq placed
      BY <1>4 DEF Refuse, Raise, records, starting
    <2>2. \A w \in Names : thread'[w] = thread[w]
                             \/ (thread[w] = "spawning" /\ thread'[w] \in {"none", "heal"})
      BY <1>2, <1>4 DEF Refuse, Raise, Retry, Daemon, daemons
    <2> QED BY <1>1, <2>1, <2>2, MovesFrame DEF CustodyMoves
  <1>5. CASE \E state \in {"create", "wait", "drop", "abandon"} : Advance(n, state)
    BY <1>1, <1>5, MovesFrame DEF CustodyMoves, Advance, starting, records, daemons
  <1> QED BY <1>3, <1>4, <1>5 DEF SpawnStep, SpawnClear, SpawnCreate, SpawnWatch, SpawnDrop,
        SpawnAbandon

\* Every step of start(): a worker it publishes was in its list.
LEMMA StartMoves ==
    ASSUME TypeOK, CustodyInv, NEW c \in Callers, StartStep(c)
    PROVE  CustodyMoves
  <1> USE DEF TypeOK
  <1>1. UNCHANGED <<held, uses, thread>>
    BY DEF StartStep, daemons
  <1>2. CASE \E w \in placed : Put(w) /\ placed' = placed \ {w}
    BY <1>1, <1>2 DEF CustodyMoves, Put, InCustody, InService, Reusable
  <1>3. CASE UNCHANGED free /\ placed' \subseteq placed
    BY <1>1, <1>3, MovesFrame DEF CustodyMoves
  <1> QED BY <1>2, <1>3 DEF StartStep, StartEnter, StartNamespace, StartReclaim, StartPolicy,
        StartWarm, StartPublish, StartTeardown, warming, pool, starting

\* Every step of a daemon thread: it puts into the queue the worker it wiped.
LEMMA DaemonMoves ==
    ASSUME TypeOK, CustodyInv, NEW w \in Names, DaemonStep(w)
    PROVE  CustodyMoves
  <1> USE DEF TypeOK
  <1>1. UNCHANGED <<placed, held, uses>>
    BY DEF DaemonStep, CleanTests, WipeSucceeds, WipeFails, ReplaceDeletes, ReplaceHeals,
        starting, requests, records
  <1>2. CASE UNCHANGED free /\ \E state \in DaemonStates :
                 /\ thread' = [thread EXCEPT ![w] = state]
                 /\ thread[w] # "none"
                 /\ state \in {"clean", "wipe"} => thread[w] \in {"clean", "wipe"}
                 /\ state \in Minding => thread[w] \in Minding
    BY <1>1, <1>2, MovesFrame DEF CustodyMoves
  <1>3. CASE WipeSucceeds(w)
    BY <1>1, <1>3 DEF CustodyMoves, WipeSucceeds, Put, Daemon, InCustody, InService, Reusable
  <1>4. CASE CleanTests(w) \/ WipeFails(w)
    BY <1>2, <1>4 DEF CleanTests, CleanIfOpen, WipeFails, RetireDirty, Daemon, pool
  <1>5. CASE ReplaceDeletes(w) \/ ReplaceHeals(w)
    BY <1>2, <1>5 DEF ReplaceDeletes, ReplaceHeals, Daemon, controller
  <1> QED BY <1>3, <1>4, <1>5 DEF DaemonStep

\* Every other step leaves each worker where it is, or takes it away.
LEMMA OtherMoves ==
    ASSUME TypeOK,
           \/ \E c \in Callers : CallStart(c) \/ CallRun(c) \/ CallSession(c)
           \/ \E n \in Names : ClusterStep(n)
           \/ CloseCalled \/ CloserStep
           \/ Crash \/ UNCHANGED vars
    PROVE  CustodyMoves
  <1> USE DEF TypeOK
  <1>1. CASE Crash
    <2>1. ASSUME NEW w \in Names
          PROVE  ~InCustody(w)' /\ w \notin InService' /\ ~Reusable(w)'
      BY <1>1 DEF Crash, InCustody, InService, Reusable, Names
    <2> QED BY <2>1 DEF CustodyMoves
  <1>2. CASE /\ UNCHANGED <<placed, held, uses, thread>>
             /\ UNCHANGED free \/ \E v \in Names : Get(v)
    <2>1. \A w \in Names : free'[w] > 0 => free[w] > 0
      BY <1>2 DEF Get
    <2> QED BY <1>2, <2>1, MovesFrame DEF CustodyMoves
  <1> QED BY <1>1, <1>2 DEF CallStart, CallRun, CallSession, Call, ClusterStep, CloseCalled,
        CloseBegins, CloserStep, CloseLists, CloseDeletes, CloseDrains, vars, controller,
        starting, requests, records, daemons

\* Every step of the pool.
LEMMA StepMoves == TypeOK /\ CustodyInv /\ [Next]_vars => CustodyMoves
  BY RequestMoves, SpawnMoves, StartMoves, DaemonMoves, OtherMoves DEF Next, CallerStep

----------------------------------------------------------------------------
(* The theorems. *)

\* However requests, daemon threads, start() and close() interleave, fail and
\* crash, no worker is ever in two hands, nor twice in the queue.
THEOREM WorkersAreExclusive == Spec => []ExclusiveCustody
  BY CustodyInvariant, PTL DEF CustodyInv

\* Nobody ever has, in the queue, on lease or to wipe, a worker whose ApiClient
\* close() or a retirement has closed.
THEOREM ClientsAreOpen == Spec => []OpenClient
  BY CustodyInvariant, PTL DEF CustodyInv

\* No request is ever handed a worker that has had its max_uses: by the time such a
\* worker could go back to the queue, its use is counted and it is retired.
THEOREM UsesStayLeft == Spec => []UsesLeft
  <1>1. Init => UsesInv
    BY DEF Init, UsesInv, Reusable
  <1>2. TypeOK /\ CustodyInv /\ UsesInv /\ [Next]_vars => UsesInv'
    BY StepMoves DEF CustodyMoves, UsesInv
  <1>3. UsesInv => UsesLeft
    BY DEF UsesInv, UsesLeft, Reusable
  <1> QED BY <1>1, <1>2, <1>3, TypeCorrect, CustodyInvariant, PTL DEF Spec

\* A worker that has left the queue, every lease, its daemon thread's care and
\* start()'s list is never in any of them again, whatever threads are still about.
THEOREM WorkersStayRetired == Spec => NeverResurrected
  <1> DEFINE Retired == \A w \in Names : spawn[w] = "done" /\ ~InCustody(w) => ~InCustody(w)'
  <1>1. TypeOK /\ CustodyInv /\ [Next]_vars => [Retired]_vars
    BY StepMoves DEF CustodyMoves, InFlight
  <1> QED BY <1>1, TypeCorrect, CustodyInvariant, PTL DEF Spec, NeverResurrected

============================================================================
