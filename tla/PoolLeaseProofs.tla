---------------------------- MODULE PoolLeaseProofs ----------------------------
(* The pool hands out clean workers and implements WorkerLease, for every pool  *)
(* size, number of request threads and budget of faults, crashes and close().   *)
EXTENDS SandboxPoolProofs

\* What a clean handout needs.  The code sees to the first, by default; the others
\* are of the runs, the websocket and the request threads, and it does not.
HonestRuns ==
    /\ FreshWorkdir               \* every released worker is wiped (runner.py:682-684)
    /\ "sealed" \notin Lapses     \* no run leaves what the cleaner cannot remove (83-88)
    /\ "child" \notin Lapses      \* no process is left when a run ends well
    /\ "collect" \notin Lapses    \* no collector outlives its timeout (792-793)
    /\ "interrupt" \notin Lapses  \* no exception passes `except Exception` (616-619)
    /\ "drop" \notin FaultKinds   \* no websocket closes without a status (_exec.py:22-24)

----------------------------------------------------------------------------
(* The inductive invariant. *)

Clean(w) == ~pod[w].dirty /\ ~pod[w].live

\* Whoever may hand the worker on has it clean.
OfferedClean ==
    \A w \in Names : free[w] > 0 \/ w \in placed \/ spawn[w] = "wait" => Clean(w)

LeasedClean == \A c \in Callers : pc[c] \in {"leased", "enter"} => Clean(held[c])

\* A wipe deletes files and ends no process: there must be none.
WipedQuiet == \A w \in Names : thread[w] \in {"clean", "wipe"} => ~pod[w].live

SessionQuiet == \A c \in Callers : pc[c] = "session" => ~pod[held[c]].live

\* What a run leaves is there until its pod goes, and the pod does not come back.
RunLeavesTrace == \A c \in Callers : pc[c] = "run" /\ Up(held[c]) => pod[held[c]].dirty

UpOnce == \A n \in Names : spawn[n] = "done" => pod[n].phase # "Pending"

CleanInv ==
    /\ OfferedClean /\ LeasedClean
    /\ WipedQuiet /\ SessionQuiet
    /\ RunLeavesTrace /\ UpOnce

USE DEF CallerStates, StartStates, Custodian, DaemonStates, Minding, SpawnStates

\* A step leaves no new trace in w, nor takes one from under a run.
PodKept(w) ==
    /\ Clean(w) => Clean(w)'
    /\ pod'[w].live => pod[w].live
    /\ (\E c \in Callers : held[c] = w /\ pc[c] = "run") /\ Up(w)'
          => Up(w) /\ pod'[w].dirty = pod[w].dirty
    /\ spawn[w] = "done" /\ pod'[w].phase = "Pending" => pod[w].phase = "Pending"

\* A worker that somebody holds has been delivered.
LEMMA HeldIsDone ==
    ASSUME TypeOK, CustodyInv, NEW c \in Callers, pc[c] \in Custodian
    PROVE  /\ held[c] \in Names /\ spawn[held[c]] = "done"
           /\ free[held[c]] = 0 /\ thread[held[c]] = "none" /\ held[c] \notin placed
           /\ \A d \in Callers : held[d] = held[c] => d = c
  BY DEF TypeOK, CustodyInv, HeldByCustodian, ExclusiveCustody, SpawnsAreNew, OutOfPool

\* A step keeps CleanInv when it hands a worker on only with its pod as it should be.
LEMMA CleanFrame ==
    ASSUME TypeOK, CustodyInv, CleanInv,
           \A w \in Names : PodKept(w),
           \A w \in Names : free'[w] > 0 \/ w \in placed' \/ spawn'[w] = "wait"
                => free[w] > 0 \/ w \in placed \/ spawn[w] = "wait" \/ Clean(w)',
           \A w \in Names : thread'[w] \in {"clean", "wipe"}
                => thread[w] \in {"clean", "wipe"} \/ ~pod'[w].live,
           \A c \in Callers : \/ pc'[c] = pc[c] /\ held'[c] = held[c]
                              \/ pc'[c] \in {"leased", "enter"} /\ Clean(held[c])'
                              \/ pc'[c] = "session" /\ ~pod'[held'[c]].live
                              \/ pc'[c] \notin Custodian,
           \A n \in Names : spawn'[n] = "done" => spawn[n] = "done" \/ pod'[n].phase # "Pending"
    PROVE  CleanInv'
  <1> USE DEF CleanInv
  <1>1. OfferedClean'
    BY DEF OfferedClean, PodKept
  <1>2. LeasedClean'
    <2>1. ASSUME NEW c \in Callers, pc'[c] \in {"leased", "enter"}
          PROVE  Clean(held[c])'
      <3>1. CASE pc'[c] = pc[c] /\ held'[c] = held[c]
        <4>1. held[c] \in Names /\ Clean(held[c])
          BY <2>1, <3>1, HeldIsDone DEF LeasedClean
        <4> QED BY <3>1, <4>1 DEF PodKept, Clean
      <3> QED BY <2>1, <3>1
    <2> QED BY <2>1 DEF LeasedClean, Clean
  <1>3. WipedQuiet'
    BY DEF WipedQuiet, PodKept
  <1>4. SessionQuiet'
    BY HeldIsDone DEF SessionQuiet, PodKept
  <1>5. RunLeavesTrace'
    BY HeldIsDone DEF RunLeavesTrace, PodKept
  <1>6. UpOnce'
    BY DEF UpOnce, PodKept
  <1> QED BY <1>1, <1>2, <1>3, <1>4, <1>5, <1>6

\* A step that changes no pod.
LEMMA PodsUnchanged ==
    ASSUME UNCHANGED pod
    PROVE  /\ \A w \in Names : PodKept(w)
           /\ \A w : Clean(w)' <=> Clean(w)
  BY DEF PodKept, Clean, Up

\* A call of the cluster and what the cluster does by itself.
LEMMA CallsKeepPods ==
    ASSUME TypeOK, CustodyInv, CleanInv, NEW n \in Names,
           \/ DeleteReturns(n) \/ DeleteRaises(n) \/ CreateForbidden(n) \/ WatchSeesRunning(n)
           \/ WatchSeesUnschedulable(n) \/ WatchRaises(n)
           \/ (CreateReturns(n) \/ CreateRaises(n)) /\ spawn[n] # "done"
           \/ PodStarts(n) \/ PodVanishes(n) \/ WatchdogExits(n) \/ RunawayEnds(n)
    PROVE  \A w \in Names : PodKept(w)
  <1> USE DEF TypeOK, ClusterTypeOK
  <1>1. CASE UNCHANGED pod
    BY <1>1, PodsUnchanged
  <1>2. CASE \E phase \in {"Absent", "Terminating", "Succeeded"} :
                pod' = [pod EXCEPT ![n] = Pod(phase)]
    <2>1. \A w \in Names \ {n} : pod'[w] = pod[w]
      BY <1>2
    <2>2. /\ ~pod'[n].dirty /\ ~pod'[n].live
          /\ pod'[n].phase \in {"Absent", "Terminating", "Succeeded"}
      BY <1>2 DEF Pod
    <2> QED BY <2>1, <2>2 DEF PodKept, Clean, Up
  <1>3. CASE pod' = [pod EXCEPT ![n] = Pod("Pending")] /\ spawn[n] # "done"
    BY <1>3 DEF PodKept, Clean, Up, Pod
  <1>4. CASE PodStarts(n)
    <2>1. \A c \in Callers : ~(held[c] = n /\ pc[c] = "run")
      BY <1>4, HeldIsDone DEF PodStarts, CleanInv, UpOnce
    <2> QED BY <1>4, <2>1 DEF PodStarts, PodKept, Clean, Up, Pods
  <1>5. CASE RunawayEnds(n)
    BY <1>5 DEF RunawayEnds, PodKept, Clean, Up, Pods
  <1> QED BY <1>1, <1>2, <1>3, <1>4, <1>5 DEF DeleteReturns, DeleteRaises, CreateReturns,
        CreateForbidden, CreateRaises, WatchSeesRunning, WatchSeesUnschedulable, WatchRaises,
        PodVanishes, WatchdogExits

\* A step of a _try_spawn: what it delivers was created new.
LEMMA SpawnClean ==
    ASSUME TypeOK, CustodyInv, CleanInv, NEW n \in Names, SpawnStep(n)
    PROVE  CleanInv'
  <1> USE DEF TypeOK
  <1>1. \A w \in Names : PodKept(w)
    BY CallsKeepPods DEF SpawnStep, SpawnClear, SpawnCreate, SpawnWatch, SpawnDrop, SpawnAbandon
  <1>2. UNCHANGED held
    BY DEF SpawnStep
  <1>3. CASE Deliver(n) /\ WatchSeesRunning(n) /\ spawn[n] = "wait"
    <2>1. /\ spawn' = [spawn EXCEPT ![n] = "done"]
          /\ placed' \subseteq placed \cup {n}
          /\ \A w \in Names \ {n} : free'[w] = free[w]
          /\ \A w \in Names : thread'[w] = thread[w] \/ thread'[w] = "none"
          /\ \A c \in Callers : pc'[c] = pc[c] \/ pc'[c] \in {"publish", "warm"}
      BY <1>3 DEF Deliver, PutReplacement, Put, Daemon, Goto
    <2>2. pod'[n].phase # "Pending"
      BY <1>3 DEF WatchSeesRunning, Up
    <2> QED BY <1>1, <1>2, <1>3, <2>1, <2>2, CleanFrame
  <1>4. CASE Refuse(n) \/ Raise(n)
    <2>1. /\ spawn' = [spawn EXCEPT ![n] = "failed"]
          /\ placed' \subseteq placed /\ UNCHANGED free
          /\ \A w \in Names : thread'[w] = thread[w] \/ thread'[w] \in {"none", "heal"}
          /\ \A c \in Callers : pc'[c] = pc[c] \/ pc'[c] \in {"publish", "teardown", "idle"}
      BY <1>4 DEF Refuse, Raise, Retry, Daemon, Goto, starting, records, daemons
    <2> QED BY <1>1, <1>2, <2>1, CleanFrame
  <1>5. CASE \E state \in {"create", "wait", "drop", "abandon"} :
                Advance(n, state) /\ (state = "wait" => CreateReturns(n))
    <2>1. UNCHANGED <<free, placed, pc, thread>>
      BY <1>5 DEF Advance, starting, daemons
    <2>2. spawn'[n] = "wait" => Clean(n)'
      BY <1>5 DEF Advance, CreateReturns, Clean, Pod, ClusterTypeOK
    <2>3. spawn'[n] # "done" /\ \A w \in Names \ {n} : spawn'[w] = spawn[w]
      BY <1>5 DEF Advance
    <2> QED BY <1>1, <1>2, <2>1, <2>2, <2>3, CleanFrame
  <1> QED BY <1>3, <1>4, <1>5 DEF SpawnStep, SpawnClear, SpawnCreate, SpawnWatch, SpawnDrop,
        SpawnAbandon

\* A step of start().
LEMMA StartClean ==
    ASSUME TypeOK, CustodyInv, CleanInv, NEW c \in Callers, StartStep(c)
    PROVE  CleanInv'
  <1> USE DEF TypeOK
  <1>1. \A w \in Names : PodKept(w)
    <2>1. CASE \E n \in Names : DeleteReturns(n) \/ DeleteRaises(n)
      BY <2>1, CallsKeepPods
    <2>2. CASE UNCHANGED pod
      BY <2>2, PodsUnchanged
    <2> QED BY <2>1, <2>2 DEF StartStep, StartEnter, StartNamespace, StartReclaim, StartPolicy,
          StartWarm, StartPublish, StartTeardown, cluster
  <1>2. UNCHANGED <<held, thread>>
    BY DEF StartStep, daemons
  <1>3. \A d \in Callers : pc'[d] = pc[d] \/ pc'[d] \notin Custodian
    BY DEF StartStep, StartEnter, StartNamespace, StartReclaim, StartPolicy, StartWarm, StartPublish,
        StartTeardown, AfterLock, AfterStart, Goto, warming
  <1>4. \A w \in Names : free'[w] > 0 \/ w \in placed' => free[w] > 0 \/ w \in placed
    BY DEF StartStep, StartEnter, StartNamespace, StartReclaim, StartPolicy, StartWarm, StartPublish,
        StartTeardown, Put, warming, pool, starting
  <1>5. \A n \in Names : spawn'[n] \in {"wait", "done"} => spawn'[n] = spawn[n]
    <2>1. CASE BeginSpawn(0)
      BY <2>1 DEF BeginSpawn
    <2>2. CASE UNCHANGED spawn
      BY <2>2
    <2> QED BY <2>1, <2>2 DEF StartStep, StartEnter, StartNamespace, StartReclaim, StartPolicy,
          StartWarm, StartPublish, StartTeardown, warming, spawning
  <1> QED BY <1>1, <1>2, <1>3, <1>4, <1>5, CleanFrame

\* A step of a daemon thread: what it has wiped is clean.
LEMMA DaemonClean ==
    ASSUME HonestRuns, TypeOK, CustodyInv, CleanInv, NEW w \in Names, DaemonStep(w)
    PROVE  CleanInv'
  <1> USE DEF TypeOK
  <1>1. UNCHANGED <<placed, pc, held>>
    BY DEF DaemonStep, starting, requests
  <1>2. CASE WipeSucceeds(w)
    <2>1. /\ thread[w] = "wipe" /\ pod' = [pod EXCEPT ![w].dirty = FALSE]
          /\ free' = [free EXCEPT ![w] = @ + 1] /\ thread' = [thread EXCEPT ![w] = "none"]
          /\ UNCHANGED spawn
      BY <1>2 DEF WipeSucceeds, Put, Daemon, spawning, HonestRuns
    <2>2. Clean(w)'
      BY <2>1 DEF CleanInv, WipedQuiet, Clean, ClusterTypeOK, Pods
    <2>3. \A c \in Callers : held[c] # w
      BY <2>1 DEF CustodyInv, ExclusiveCustody
    <2>4. \A v \in Names : PodKept(v)
      <3>1. \A v \in Names \ {w} : pod'[v] = pod[v]
        BY <2>1 DEF ClusterTypeOK
      <3>2. pod'[w].phase = pod[w].phase
        BY <2>1 DEF ClusterTypeOK, Pods
      <3> QED BY <2>2, <2>3, <3>1, <3>2 DEF PodKept, Clean, Up
    <2> QED BY <1>1, <2>1, <2>2, <2>4, CleanFrame
  <1>3. CASE ~WipeSucceeds(w)
    <2>1. \A v \in Names : PodKept(v)
      <3>1. CASE ReplaceDeletes(w)
        BY <3>1, CallsKeepPods DEF ReplaceDeletes
      <3>2. CASE UNCHANGED pod
        BY <3>2, PodsUnchanged
      <3> QED BY <1>3, <3>1, <3>2 DEF DaemonStep, CleanTests, WipeFails, ReplaceHeals, cluster
    <2>2. /\ UNCHANGED free
          /\ \E state \in DaemonStates :
                /\ thread' = [thread EXCEPT ![w] = state]
                /\ state \in {"clean", "wipe"} => thread[w] \in {"clean", "wipe"}
      BY <1>3 DEF DaemonStep, CleanTests, CleanIfOpen, WipeFails, RetireDirty, ReplaceDeletes,
          ReplaceHeals, Daemon, controller, pool
    <2>3. \A n \in Names : spawn'[n] \in {"wait", "done"} => spawn'[n] = spawn[n]
      <3>1. CASE BeginSpawn(w)
        BY <3>1 DEF BeginSpawn
      <3>2. CASE UNCHANGED spawn
        BY <3>2
      <3> QED BY <1>3, <3>1, <3>2 DEF DaemonStep, CleanTests, WipeFails, ReplaceDeletes, ReplaceHeals,
            spawning
    <2> QED BY <1>1, <2>1, <2>2, <2>3, CleanFrame
  <1> QED BY <1>2, <1>3

\* The end of a run or of a session: the worker is retired, or wiped if no process
\* is left in it.
LEMMA EndClean ==
    ASSUME HonestRuns, TypeOK, CustodyInv, CleanInv, NEW c \in Callers, pc[c] \in Custodian,
           \/ Release(c, TRUE) \/ RetireNow(c)
           \/ Release(c, FALSE) /\ ~pod'[held[c]].live,
           \A w \in Names : PodKept(w), UNCHANGED <<placed, spawn>>
    PROVE  CleanInv'
  <1> USE DEF TypeOK
  <1>1. PICK v \in Names : v = held[c]
    BY HeldIsDone
  <1>2. /\ UNCHANGED free
        /\ \/ thread' = [thread EXCEPT ![v] = "delete"]
           \/ thread' = [thread EXCEPT ![v] = "clean"] /\ ~pod'[v].live
    BY <1>1 DEF Release, RetireNow, Retire, Daemon, HonestRuns
  <1>3. pc' = [pc EXCEPT ![c] = "idle"] /\ held' = [held EXCEPT ![c] = 0]
    BY DEF Release, RetireNow, Goto
  <1> QED BY <1>2, <1>3, CleanFrame

\* A step of a request thread outside start().
LEMMA RequestClean ==
    ASSUME HonestRuns, TypeOK, CustodyInv, CleanInv, NEW c \in Callers, RequestStep(c)
    PROVE  CleanInv'
  <1> USE DEF TypeOK, ClusterTypeOK
  <1>1. UNCHANGED <<placed, spawn>>
    BY DEF RequestStep, starting, spawning
  <1>2. CASE Lease(c)
    <2>1. PICK w \in Names : /\ free[w] > 0 /\ free' = [free EXCEPT ![w] = @ - 1]
                             /\ held' = [held EXCEPT ![c] = w]
      BY <1>2 DEF Lease, Get
    <2>2. UNCHANGED <<pod, thread>> /\ \E state \in {"enter", "leased"} :
                                          pc' = [pc EXCEPT ![c] = state]
      BY <1>2 DEF Lease, Goto, cluster
    <2>3. Clean(w) /\ held'[c] = w
      BY <2>1 DEF CleanInv, OfferedClean
    <2>4. Clean(held[c])'
      BY <2>2, <2>3 DEF Clean
    <2> QED BY <1>1, <2>1, <2>2, <2>4, PodsUnchanged, CleanFrame
  <1>3. CASE LeaseTimesOut(c)
    BY <1>1, <1>3, PodsUnchanged, CleanFrame DEF LeaseTimesOut, Goto, cluster
  <1>4. ASSUME pc[c] \in Custodian
        PROVE  CleanInv'
    <2>1. PICK v \in Names : v = held[c]
      BY <1>4, HeldIsDone
    <2>2. /\ spawn[v] = "done" /\ free[v] = 0 /\ thread[v] = "none" /\ v \notin placed
          /\ \A d \in Callers : held[d] = v => d = c
      BY <1>4, <2>1, HeldIsDone
    <2>3. CASE RunBegins(c)
      <3>1. /\ Up(v) /\ pc' = [pc EXCEPT ![c] = "run"]
            /\ pod' = [pod EXCEPT ![v].dirty = TRUE, ![v].live = TRUE]
            /\ UNCHANGED <<free, held, thread>>
        BY <2>1, <2>3 DEF RunBegins, Traces, Goto
      <3>2. /\ \A w \in Names \ {v} : pod'[w] = pod[w]
            /\ pod'[v].dirty /\ pod'[v].phase = pod[v].phase
        BY <3>1 DEF Pods
      <3>3. \A d \in Callers \ {c} : pc'[d] = pc[d] /\ (pc[d] \in Custodian => held[d] \in Names \ {v})
        BY <2>2, <3>1, HeldIsDone
      <3>4. pc'[c] = "run"
        BY <3>1
      <3>5. OfferedClean' /\ WipedQuiet' /\ UpOnce'
        BY <1>1, <2>2, <3>1, <3>2 DEF CleanInv, OfferedClean, WipedQuiet, UpOnce, Clean
      <3>6. LeasedClean' /\ SessionQuiet'
        BY <3>1, <3>2, <3>3, <3>4 DEF CleanInv, LeasedClean, SessionQuiet, Clean
      <3>7. RunLeavesTrace'
        BY <2>1, <3>1, <3>2, <3>3, <3>4 DEF CleanInv, RunLeavesTrace, Up
      <3> QED BY <3>5, <3>6, <3>7 DEF CleanInv
    <2>4. CASE SessionEnters(c)
      <3>1. PICK files \in BOOLEAN : pod' = [pod EXCEPT ![v].dirty = files]
        BY <2>1, <2>4 DEF SessionEnters
      <3>2. /\ pc[c] = "enter" /\ pc' = [pc EXCEPT ![c] = "session"]
            /\ UNCHANGED <<free, held, thread>>
        BY <2>4 DEF SessionEnters, Goto
      <3>3. /\ \A w \in Names \ {v} : pod'[w] = pod[w]
            /\ ~pod'[v].live /\ pod'[v].phase = pod[v].phase
        BY <2>1, <3>1, <3>2 DEF Pods, CleanInv, LeasedClean, Clean
      <3>4. \A d \in Callers \ {c} : pc'[d] = pc[d] /\ (pc[d] \in Custodian => held[d] \in Names \ {v})
        BY <2>2, <3>2, HeldIsDone
      <3>5. pc'[c] = "session"
        BY <3>2
      <3>6. OfferedClean' /\ WipedQuiet' /\ UpOnce'
        BY <1>1, <2>2, <3>2, <3>3 DEF CleanInv, OfferedClean, WipedQuiet, UpOnce, Clean
      <3>7. LeasedClean' /\ SessionQuiet'
        BY <2>1, <3>2, <3>3, <3>4, <3>5 DEF CleanInv, LeasedClean, SessionQuiet, Clean
      <3>8. RunLeavesTrace'
        BY <3>2, <3>3, <3>4, <3>5 DEF CleanInv, RunLeavesTrace, Up
      <3> QED BY <3>6, <3>7, <3>8 DEF CleanInv
    <2>5. CASE RunOk(c)
      <3>1. pod' = [pod EXCEPT ![v].live = FALSE] /\ EndHealthy(c)
        BY <2>1, <2>5 DEF RunOk, HonestRuns
      <3>2. \A w \in Names \ {v} : pod'[w] = pod[w]
        BY <3>1
      <3>3. /\ ~pod'[v].live /\ pod'[v].phase = pod[v].phase /\ pod'[v].dirty = pod[v].dirty
        BY <3>1 DEF Pods
      <3>4. \A w \in Names : PodKept(w)
        BY <3>2, <3>3 DEF PodKept, Clean, Up
      <3>5. CASE Release(c, FALSE)
        BY <1>1, <1>4, <2>1, <3>3, <3>4, <3>5, EndClean
      <3>6. CASE pc' = [pc EXCEPT ![c] = "session"] /\ UNCHANGED <<free, held, thread>>
        BY <1>1, <2>1, <3>3, <3>4, <3>6, CleanFrame
      <3> QED BY <3>1, <3>5, <3>6 DEF EndHealthy, Goto
    <2>6. CASE UNCHANGED pod /\ EndUnhealthy(c)
      <3>1. Release(c, TRUE) \/ RetireNow(c)
        BY <2>6 DEF EndUnhealthy
      <3> QED BY <1>1, <1>4, <2>6, <3>1, PodsUnchanged, EndClean
    <2>7. CASE SessionCloses(c)
      <3>1. UNCHANGED pod /\ pc[c] = "session" /\ Release(c, FALSE)
        BY <2>7 DEF SessionCloses, cluster
      <3>2. ~pod'[held[c]].live
        BY <3>1 DEF CleanInv, SessionQuiet
      <3> QED BY <1>1, <1>4, <3>1, <3>2, PodsUnchanged, EndClean
    <2>8. CASE CheckpointFails(c)
      <3>1. UNCHANGED <<pod, free, pc, held, thread>>
        BY <2>8 DEF CheckpointFails, HonestRuns
      <3> QED BY <1>1, <3>1, PodsUnchanged, CleanFrame
    <2>9. ~RunCollectTimesOut(c) /\ ~RunInterrupted(c) /\ ~RunDropped(c)
      BY DEF RunCollectTimesOut, RunInterrupted, RunDropped, HonestRuns, Fault
    <2>10. ~Lease(c) /\ ~LeaseTimesOut(c)
      BY <1>4 DEF Lease, LeaseTimesOut
    <2> QED BY <2>3, <2>4, <2>5, <2>6, <2>7, <2>8, <2>9, <2>10 DEF RequestStep, LeaseStep,
          RunStep, RunTimesOut, RunRejected, RunFails, cluster
  <1> QED BY <1>2, <1>3, <1>4 DEF RequestStep, LeaseStep, RunStep, RunBegins, RunOk, RunTimesOut,
        RunRejected, RunFails, RunCollectTimesOut, RunInterrupted, RunDropped, CheckpointFails,
        SessionEnters, SessionCloses

\* CleanInv is inductive.
LEMMA CleanStep ==
    ASSUME HonestRuns, TypeOK, CustodyInv, CleanInv, [Next]_vars
    PROVE  CleanInv'
  <1> USE DEF TypeOK
  <1>1. CASE UNCHANGED vars
    BY <1>1, PodsUnchanged, CleanFrame DEF vars, cluster, controller, starting, requests, daemons,
       spawning
  <1>2. ASSUME NEW c \in Callers, CallStart(c) \/ CallRun(c) \/ CallSession(c)
        PROVE  CleanInv'
    <2>1. \E state \in {"start", "lease"} : pc' = [pc EXCEPT ![c] = state]
      BY <1>2 DEF CallStart, CallRun, CallSession, Call, Goto
    <2>2. UNCHANGED <<pod, free, placed, held, thread, spawn>>
      BY <1>2 DEF CallStart, CallRun, CallSession, Call, cluster, controller, starting, daemons,
          spawning
    <2> QED BY <2>1, <2>2, PodsUnchanged, CleanFrame
  <1>3. ASSUME NEW n \in Names, ClusterStep(n)
        PROVE  CleanInv'
    <2>1. \A w \in Names : PodKept(w)
      BY <1>3, CallsKeepPods DEF ClusterStep, IdleTooLong
    <2>2. UNCHANGED <<free, placed, pc, held, thread, spawn>>
      BY <1>3 DEF ClusterStep, controller, starting, requests, daemons, spawning
    <2> QED BY <2>1, <2>2, CleanFrame
  <1>4. CASE CloseCalled \/ CloserStep
    <2>1. \A w \in Names : PodKept(w)
      <3>1. CASE \E n \in Names : DeleteReturns(n) \/ DeleteRaises(n)
        BY <3>1, CallsKeepPods
      <3>2. CASE UNCHANGED pod
        BY <3>2, PodsUnchanged
      <3> QED BY <1>4, <3>1, <3>2 DEF CloseCalled, CloseBegins, CloserStep, CloseLists, CloseDeletes,
            CloseDrains, cluster
    <2>2. UNCHANGED <<placed, pc, held, thread, spawn>>
      BY <1>4 DEF CloseCalled, CloserStep, requests, daemons, spawning
    <2>3. \A w \in Names : free'[w] > 0 => free[w] > 0
      BY <1>4 DEF CloseCalled, CloseBegins, CloserStep, CloseLists, CloseDeletes, CloseDrains, Get,
          controller
    <2> QED BY <2>1, <2>2, <2>3, CleanFrame
  <1>5. CASE Crash
    <2>1. /\ UNCHANGED pod /\ placed' = {}
          /\ \A n \in Names : free'[n] = 0 /\ spawn'[n] = "unborn" /\ thread'[n] = "none"
          /\ \A c \in Callers : pc'[c] = "idle"
      BY <1>5 DEF Crash, cluster
    <2> QED BY <2>1, PodsUnchanged, CleanFrame
  <1> QED BY <1>1, <1>2, <1>3, <1>4, <1>5, SpawnClean, StartClean, DaemonClean, RequestClean
        DEF Next, CallerStep

\* Nothing has been handed out at first.
LEMMA InitClean == Init => CleanInv
  BY DEF Init, ClusterInit, CleanInv, OfferedClean, LeasedClean, WipedQuiet, SessionQuiet,
      RunLeavesTrace, UpOnce, Clean, Pod

\* Under HonestRuns every worker in the queue or newly leased has an empty scratch
\* directory and no process of an earlier run, through faults, crashes and close()
\* (runner.py:675-676, 689-691).
THEOREM HandoutIsClean == HonestRuns => (Spec => []CleanHandout)
  <1> SUFFICES ASSUME HonestRuns
               PROVE  Spec => []CleanHandout
    OBVIOUS
  <1>1. TypeOK /\ CustodyInv /\ CleanInv /\ [Next]_vars => CleanInv'
    BY CleanStep
  <1>2. CleanInv => CleanHandout
    BY DEF CleanInv, OfferedClean, LeasedClean, Clean, CleanHandout
  <1> QED BY <1>1, <1>2, InitClean, TypeCorrect, CustodyInvariant, PTL DEF Spec

----------------------------------------------------------------------------
(* The refinement of WorkerLease. *)

\* What Promise substitutes for offered and tainted.
Offered == {w \in Names : free[w] > 0}
Tainted == {n \in Names : pod[n].dirty \/ pod[n].live}

\* What a step of the pool must do for each step of WorkerLease.
LEMMA AbstractStutter ==
    ASSUME held' = held, Offered' = Offered, Tainted' = Tainted
    PROVE  [Promise!Next]_Promise!vars
  BY DEF Promise!vars, Offered, Tainted

\* A worker that was on offer, clean and nobody's, is request c's.
LEMMA AbstractAcquire ==
    ASSUME NEW c \in Callers, NEW w \in Names, held[c] = 0, w \in Offered \ Tainted,
           \A d \in Callers : held[d] # w, held' = [held EXCEPT ![c] = w],
           Offered' = Offered \ {w}, Tainted' = Tainted
    PROVE  [Promise!Next]_Promise!vars
  <1>1. Promise!Acquire(c, w)
    BY DEF Promise!Acquire, Promise!Leased, Offered, Tainted
  <1> QED BY <1>1 DEF Promise!Next

\* The code of request c leaves a trace in its worker.
LEMMA AbstractUse ==
    ASSUME NEW c \in Callers, held[c] # 0, held' = held, Offered' = Offered,
           Tainted' = Tainted \cup {held[c]}
    PROVE  [Promise!Next]_Promise!vars
  <1>1. Promise!Use(c)
    BY DEF Promise!Use, Offered, Tainted
  <1> QED BY <1>1 DEF Promise!Next

\* Request c has no worker any more.
LEMMA AbstractGiveBack ==
    ASSUME NEW c \in Callers, held[c] # 0, held' = [held EXCEPT ![c] = 0],
           Offered' = Offered, Tainted' = Tainted
    PROVE  [Promise!Next]_Promise!vars
  <1>1. Promise!GiveBack(c)
    BY DEF Promise!GiveBack, Offered, Tainted
  <1> QED BY <1>1 DEF Promise!Next

\* Nobody's worker w enters the queue clean.
LEMMA AbstractOffer ==
    ASSUME NEW w \in Names, \A d \in Callers : held[d] # w, held' = held,
           Offered' = Offered \cup {w}, Tainted' = Tainted \ {w}
    PROVE  [Promise!Next]_Promise!vars
  <1>1. Promise!Offer(w)
    BY DEF Promise!Offer, Promise!Leased, Offered, Tainted
  <1> QED BY <1>1 DEF Promise!Next

\* The traces of w go.
LEMMA AbstractErase ==
    ASSUME NEW w \in Names, held' = held, Offered' = Offered, Tainted' = Tainted \ {w}
    PROVE  [Promise!Next]_Promise!vars
  <1>1. Promise!Erase(w)
    BY DEF Promise!Erase, Offered, Tainted
  <1> QED BY <1>1 DEF Promise!Next

\* Worker w leaves the queue and is nobody's.
LEMMA AbstractWithdraw ==
    ASSUME NEW w \in Names, held' = held, Offered' = Offered \ {w}, Tainted' = Tainted
    PROVE  [Promise!Next]_Promise!vars
  <1>1. Promise!Withdraw(w)
    BY DEF Promise!Withdraw, Offered, Tainted
  <1> QED BY <1>1 DEF Promise!Next

\* The controller dies.
LEMMA AbstractHalt ==
    ASSUME held' = [c \in Callers |-> 0], Offered' = {}, Tainted' = Tainted
    PROVE  [Promise!Next]_Promise!vars
  <1>1. Promise!Halt
    BY DEF Promise!Halt, Offered, Tainted
  <1> QED BY <1>1 DEF Promise!Next

\* The queue, and so what is on offer, gains or loses one worker.
LEMMA QueueChanges ==
    ASSUME TypeOK
    PROVE  /\ UNCHANGED free => Offered' = Offered
           /\ \A w \in Names : Put(w) => Offered' = Offered \cup {w}
           /\ \A w \in Names : free[w] = 1 /\ Get(w) => Offered' = Offered \ {w}
  <1>1. UNCHANGED free => Offered' = Offered
    BY DEF Offered
  <1>2. ASSUME NEW w \in Names, Put(w) PROVE Offered' = Offered \cup {w}
    BY <1>2 DEF Offered, Put, TypeOK
  <1>3. ASSUME NEW w \in Names, free[w] = 1, Get(w) PROVE Offered' = Offered \ {w}
    BY <1>3 DEF Offered, Get, TypeOK
  <1> QED BY <1>1, <1>2, <1>3

\* A call of the cluster, and what the cluster does by itself, leave no trace in any
\* worker and take those of one at most.
LEMMA CallsErase ==
    ASSUME TypeOK, NEW n \in Names,
           \/ DeleteReturns(n) \/ DeleteRaises(n) \/ CreateReturns(n) \/ CreateForbidden(n)
           \/ CreateRaises(n) \/ WatchSeesRunning(n) \/ WatchSeesUnschedulable(n) \/ WatchRaises(n)
           \/ PodStarts(n) \/ PodVanishes(n) \/ WatchdogExits(n) \/ RunawayEnds(n)
    PROVE  Tainted' = Tainted \/ Tainted' = Tainted \ {n}
  <1> USE DEF TypeOK, ClusterTypeOK
  <1>1. CASE UNCHANGED pod
    BY <1>1 DEF Tainted
  <1>2. CASE \E phase \in Phases : pod' = [pod EXCEPT ![n] = Pod(phase)]
    BY <1>2 DEF Tainted, Pod
  <1>3. CASE PodStarts(n)
    BY <1>3 DEF PodStarts, Tainted, Pods
  <1>4. CASE RunawayEnds(n)
    BY <1>4 DEF RunawayEnds, Tainted, Pods
  <1> QED BY <1>1, <1>2, <1>3, <1>4 DEF DeleteReturns, DeleteRaises, CreateReturns,
        CreateForbidden, CreateRaises, WatchSeesRunning, WatchSeesUnschedulable, WatchRaises,
        PodVanishes, WatchdogExits, Phases

\* Such a step, with queue and leases as they were, is a step of WorkerLease.
LEMMA CallsMap ==
    ASSUME TypeOK, UNCHANGED <<free, held>>,
           UNCHANGED pod \/ \E n \in Names : Tainted' = Tainted \/ Tainted' = Tainted \ {n}
    PROVE  [Promise!Next]_Promise!vars
  <1>1. Offered' = Offered
    BY QueueChanges
  <1>2. UNCHANGED pod => Tainted' = Tainted
    BY DEF Tainted
  <1> QED BY <1>1, <1>2, AbstractStutter, AbstractErase

\* A step of a _try_spawn: its worker comes on offer when _replace puts it.
LEMMA SpawnMaps ==
    ASSUME TypeOK, CustodyInv, CleanInv, NEW n \in Names, SpawnStep(n)
    PROVE  [Promise!Next]_Promise!vars
  <1>1. UNCHANGED held
    BY DEF SpawnStep
  <1>2. CASE Deliver(n) /\ WatchSeesRunning(n) /\ spawn[n] = "wait" /\ ~UNCHANGED free
    <2>1. Put(n) /\ Tainted' = Tainted
      BY <1>2 DEF Deliver, PutReplacement, WatchSeesRunning, Tainted
    <2>2. n \notin Tainted
      BY <1>2 DEF CleanInv, OfferedClean, Clean, Tainted
    <2>3. \A d \in Callers : held[d] # n
      BY <1>2 DEF CustodyInv, SpawnsAreNew, OutOfPool
    <2> QED BY <1>1, <2>1, <2>2, <2>3, QueueChanges, AbstractOffer
  <1>3. CASE UNCHANGED free
    <2>1. Tainted' = Tainted \/ Tainted' = Tainted \ {n}
      BY CallsErase DEF SpawnStep, SpawnClear, SpawnCreate, SpawnWatch, SpawnDrop, SpawnAbandon
    <2> QED BY <1>1, <1>3, <2>1, CallsMap
  <1>4. UNCHANGED free \/ (Deliver(n) /\ WatchSeesRunning(n) /\ spawn[n] = "wait")
    BY DEF SpawnStep, SpawnClear, SpawnCreate, SpawnWatch, SpawnDrop, SpawnAbandon, Advance, Refuse,
        Raise
  <1> QED BY <1>2, <1>3, <1>4

\* A step of start(): it puts the workers it has placed on offer.
LEMMA StartMaps ==
    ASSUME TypeOK, CustodyInv, CleanInv, NEW c \in Callers, StartStep(c)
    PROVE  [Promise!Next]_Promise!vars
  <1>1. UNCHANGED held
    BY DEF StartStep
  <1>2. ASSUME NEW w \in placed, Put(w), UNCHANGED cluster
        PROVE  [Promise!Next]_Promise!vars
    <2>1. w \in Names /\ w \notin Tainted
      BY DEF TypeOK, CleanInv, OfferedClean, Clean, Tainted
    <2>2. \A d \in Callers : held[d] # w
      BY <2>1 DEF CustodyInv, ExclusiveCustody
    <2>3. Tainted' = Tainted
      BY <1>2 DEF Tainted, cluster
    <2> QED BY <1>1, <1>2, <2>1, <2>2, <2>3, QueueChanges, AbstractOffer
  <1>3. CASE UNCHANGED free
    <2>1. UNCHANGED pod \/ \E n \in Names : DeleteReturns(n) \/ DeleteRaises(n)
      <3>1. CASE StartReclaim(c)
        BY <3>1 DEF StartReclaim, TypeOK
      <3>2. CASE StartTeardown(c)
        BY <3>2 DEF StartTeardown, TypeOK, cluster
      <3> QED BY <3>1, <3>2 DEF StartStep, StartEnter, StartNamespace, StartPolicy, StartWarm,
            StartPublish, cluster
    <2> QED BY <1>1, <1>3, <2>1, CallsErase, CallsMap
  <1> QED BY <1>2, <1>3 DEF StartStep, StartEnter, StartNamespace, StartReclaim, StartPolicy,
        StartWarm, StartPublish, StartTeardown, warming, pool

\* A step of a daemon thread: the wiped worker comes on offer.
LEMMA DaemonMaps ==
    ASSUME HonestRuns, TypeOK, CustodyInv, CleanInv, NEW w \in Names, DaemonStep(w)
    PROVE  [Promise!Next]_Promise!vars
  <1>1. UNCHANGED held
    BY DEF DaemonStep, requests
  <1>2. CASE WipeSucceeds(w)
    <2>1. /\ thread[w] = "wipe" /\ Put(w) /\ pod' = [pod EXCEPT ![w].dirty = FALSE]
      BY <1>2 DEF WipeSucceeds, HonestRuns
    <2>2. ~pod[w].live
      BY <2>1 DEF CleanInv, WipedQuiet
    <2>3. Tainted' = Tainted \ {w}
      BY <2>1, <2>2 DEF Tainted, TypeOK, ClusterTypeOK, Pods
    <2>4. \A d \in Callers : held[d] # w
      BY <2>1 DEF CustodyInv, ExclusiveCustody
    <2> QED BY <1>1, <2>1, <2>3, <2>4, QueueChanges, AbstractOffer
  <1>3. CASE ReplaceDeletes(w)
    BY <1>1, <1>3, CallsErase, CallsMap DEF ReplaceDeletes, controller
  <1>4. CASE CleanTests(w) \/ WipeFails(w) \/ ReplaceHeals(w)
    BY <1>1, <1>4, CallsMap DEF CleanTests, WipeFails, ReplaceHeals, cluster, pool
  <1> QED BY <1>2, <1>3, <1>4 DEF DaemonStep

\* The end of a run or session is the end of the lease, the queue as it was.
LEMMA EndMaps ==
    ASSUME HonestRuns, TypeOK, CustodyInv, NEW c \in Callers, pc[c] \in Custodian,
           Tainted' = Tainted, (\E retire \in BOOLEAN : Release(c, retire)) \/ RetireNow(c)
    PROVE  [Promise!Next]_Promise!vars
  <1>1. held[c] # 0
    BY DEF CustodyInv, HeldByCustodian
  <1>2. UNCHANGED free /\ held' = [held EXCEPT ![c] = 0]
    BY DEF Release, RetireNow, Retire, HonestRuns
  <1> QED BY <1>1, <1>2, QueueChanges, AbstractGiveBack

\* A step of a request thread outside start().
LEMMA RequestMaps ==
    ASSUME HonestRuns, TypeOK, CustodyInv, CleanInv, NEW c \in Callers, RequestStep(c)
    PROVE  [Promise!Next]_Promise!vars
  <1> USE DEF TypeOK, ClusterTypeOK
  <1>1. CASE Lease(c)
    <2>1. PICK w \in Names : Get(w) /\ held' = [held EXCEPT ![c] = w]
      BY <1>1 DEF Lease
    <2>2. held[c] = 0 /\ Tainted' = Tainted
      BY <1>1 DEF Lease, CustodyInv, HeldByCustodian, Tainted, cluster
    <2>3. free[w] = 1 /\ \A d \in Callers : held[d] # w
      BY <2>1 DEF Get, CustodyInv, ExclusiveCustody
    <2>4. w \in Offered \ Tainted
      BY <2>3 DEF CleanInv, OfferedClean, Clean, Offered, Tainted
    <2> QED BY <2>1, <2>2, <2>3, <2>4, QueueChanges, AbstractAcquire
  <1>2. CASE LeaseTimesOut(c)
    BY <1>2, CallsMap DEF LeaseTimesOut, cluster
  <1>3. ASSUME pc[c] \in Custodian
        PROVE  [Promise!Next]_Promise!vars
    <2>1. held[c] \in Names /\ held[c] # 0
      BY <1>3, HeldIsDone DEF CustodyInv, HeldByCustodian
    <2>2. CASE RunBegins(c)
      <3>1. /\ pod' = [pod EXCEPT ![held[c]].dirty = TRUE, ![held[c]].live = TRUE]
            /\ UNCHANGED <<free, held>>
        BY <2>2 DEF RunBegins, Traces
      <3>2. Tainted' = Tainted \cup {held[c]}
        BY <2>1, <3>1 DEF Tainted, Pods
      <3> QED BY <2>1, <3>1, <3>2, QueueChanges, AbstractUse
    <2>3. CASE SessionEnters(c)
      <3>1. PICK files \in BOOLEAN : pod' = [pod EXCEPT ![held[c]].dirty = files]
        BY <2>3 DEF SessionEnters
      <3>2. UNCHANGED <<free, held>> /\ Clean(held[c])
        BY <2>3 DEF SessionEnters, CleanInv, LeasedClean
      <3>3. CASE files
        <4>1. Tainted' = Tainted \cup {held[c]}
          BY <2>1, <3>1, <3>3 DEF Tainted, Pods
        <4> QED BY <2>1, <3>2, <4>1, QueueChanges, AbstractUse
      <3>4. CASE ~files
        <4>1. Tainted' = Tainted
          BY <2>1, <3>1, <3>2, <3>4 DEF Tainted, Clean, Pods
        <4> QED BY <3>2, <4>1, QueueChanges, AbstractStutter
      <3> QED BY <3>3, <3>4
    <2>4. CASE RunOk(c)
      <3>1. pod' = [pod EXCEPT ![held[c]].live = FALSE] /\ pod[held[c]].dirty /\ EndHealthy(c)
        BY <2>4 DEF RunOk, CleanInv, RunLeavesTrace, HonestRuns
      <3>2. Tainted' = Tainted
        BY <2>1, <3>1 DEF Tainted, Pods
      <3>3. CASE Release(c, FALSE)
        BY <1>3, <3>2, <3>3, EndMaps
      <3>4. CASE UNCHANGED <<free, held>>
        BY <3>2, <3>4, QueueChanges, AbstractStutter
      <3> QED BY <3>1, <3>3, <3>4 DEF EndHealthy
    <2>5. CASE UNCHANGED pod /\ (EndUnhealthy(c) \/ Release(c, FALSE))
      <3>1. Tainted' = Tainted
        BY <2>5 DEF Tainted
      <3> QED BY <1>3, <2>5, <3>1, EndMaps DEF EndUnhealthy
    <2>6. CASE CheckpointFails(c)
      <3>1. UNCHANGED <<pod, free, held>>
        BY <2>6 DEF CheckpointFails, HonestRuns
      <3> QED BY <3>1, CallsMap
    <2>7. ~RunCollectTimesOut(c) /\ ~RunInterrupted(c) /\ ~RunDropped(c)
      BY DEF RunCollectTimesOut, RunInterrupted, RunDropped, HonestRuns, Fault
    <2>8. ~Lease(c) /\ ~LeaseTimesOut(c)
      BY <1>3 DEF Lease, LeaseTimesOut
    <2> QED BY <2>2, <2>3, <2>4, <2>5, <2>6, <2>7, <2>8 DEF RequestStep, LeaseStep, RunStep,
          RunTimesOut, RunRejected, RunFails, SessionCloses, cluster
  <1> QED BY <1>1, <1>2, <1>3 DEF RequestStep, LeaseStep, RunStep, RunBegins, RunOk, RunTimesOut,
        RunRejected, RunFails, RunCollectTimesOut, RunInterrupted, RunDropped, CheckpointFails,
        SessionEnters, SessionCloses

\* A step of close(): the workers of the queue are withdrawn.
LEMMA CloserMaps ==
    ASSUME TypeOK, CustodyInv, CloseCalled \/ CloserStep
    PROVE  [Promise!Next]_Promise!vars
  <1>1. UNCHANGED held
    BY DEF CloseCalled, CloserStep, requests
  <1>2. ASSUME NEW w \in Names, Get(w), UNCHANGED cluster
        PROVE  [Promise!Next]_Promise!vars
    <2>1. free[w] = 1
      BY <1>2 DEF Get, TypeOK, CustodyInv, ExclusiveCustody
    <2>2. Tainted' = Tainted
      BY <1>2 DEF Tainted, cluster
    <2> QED BY <1>1, <1>2, <2>1, <2>2, QueueChanges, AbstractWithdraw
  <1>3. CASE UNCHANGED free
    <2>1. UNCHANGED pod \/ \E n \in Names : DeleteReturns(n) \/ DeleteRaises(n)
      BY DEF CloseCalled, CloseBegins, CloserStep, CloseLists, CloseDeletes, CloseDrains, TypeOK,
          cluster
    <2> QED BY <1>1, <1>3, <2>1, CallsErase, CallsMap
  <1> QED BY <1>2, <1>3 DEF CloseCalled, CloseBegins, CloserStep, CloseLists, CloseDeletes,
        CloseDrains, controller

\* Every step of the pool is one of WorkerLease or changes nothing it shows.
LEMMA StepMaps ==
    ASSUME HonestRuns, TypeOK, CustodyInv, CleanInv, [Next]_vars
    PROVE  [Promise!Next]_Promise!vars
  <1>1. CASE UNCHANGED vars
    BY <1>1, CallsMap DEF vars, cluster, controller, requests
  <1>2. ASSUME NEW c \in Callers, CallStart(c) \/ CallRun(c) \/ CallSession(c)
        PROVE  [Promise!Next]_Promise!vars
    BY <1>2, CallsMap DEF CallStart, CallRun, CallSession, Call, cluster, controller
  <1>3. ASSUME NEW n \in Names, ClusterStep(n)
        PROVE  [Promise!Next]_Promise!vars
    <2>1. Tainted' = Tainted \/ Tainted' = Tainted \ {n}
      BY <1>3, CallsErase DEF ClusterStep, IdleTooLong
    <2> QED BY <1>3, <2>1, CallsMap DEF ClusterStep, controller, requests
  <1>4. CASE Crash
    <2>1. held' = [c \in Callers |-> 0] /\ Offered' = {} /\ Tainted' = Tainted
      BY <1>4 DEF Crash, Offered, Tainted, cluster
    <2> QED BY <2>1, AbstractHalt
  <1> QED BY <1>1, <1>2, <1>3, <1>4, SpawnMaps, StartMaps, DaemonMaps, RequestMaps, CloserMaps
        DEF Next, CallerStep

\* Under HonestRuns the pool implements WorkerLease: one caller at a time has a worker,
\* gets it without a trace of an earlier run, and only its code leaves traces
\* (runner.py:675-676, 213-216); through retirements, replacements, close() and crashes.
THEOREM PoolImplementsWorkerLease == HonestRuns => (Spec => ImplementsWorkerLease)
  <1> SUFFICES ASSUME HonestRuns
               PROVE  Spec => ImplementsWorkerLease
    OBVIOUS
  <1>1. Init => Promise!Init
    <2>1. Init => Offered = {} /\ Tainted = {} /\ held = [c \in Callers |-> 0]
      BY DEF Init, ClusterInit, Offered, Tainted, Pod
    <2> QED BY <2>1 DEF Promise!Init, Offered, Tainted
  <1>2. TypeOK /\ CustodyInv /\ CleanInv /\ [Next]_vars => CleanInv'
    BY CleanStep
  <1>3. TypeOK /\ CustodyInv /\ CleanInv /\ [Next]_vars => [Promise!Next]_Promise!vars
    BY StepMaps
  <1> QED BY <1>1, <1>2, <1>3, InitClean, TypeCorrect, CustodyInvariant, PTL
        DEF Spec, ImplementsWorkerLease, Promise!Spec

==============================================================================
