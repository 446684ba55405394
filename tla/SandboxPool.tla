------------------------------ MODULE SandboxPool ------------------------------
(****************************************************************************)
(* SandboxPool of runner.py: a pool of warm worker pods shared by request   *)
(* threads.  A request leases a worker from the queue _free, runs in it and *)
(* releases it; a daemon thread wipes the released worker or deletes it and *)
(* spawns a replacement; start() warms the pool and close() deletes it.     *)
(*                                                                          *)
(* A step of the model lies between two accesses of a thread to what other  *)
(* threads can see: the queue, a flag, the cluster.  One call of the        *)
(* cluster (a whole _delete with its polling included) is one step.  The    *)
(* queue is a bag: its order is left out, how often a worker is in it is    *)
(* kept.  The counters that only stats() reads are left out.                *)
(****************************************************************************)
EXTENDS Cluster, FiniteSets

CONSTANTS
    Callers,         \* request threads
    PoolSize,        \* config.pool_size
    Floor,           \* config.min_pool_size, or pool_size when that is unset
    MaxUses,         \* config.max_uses
    AgeExpires,      \* a worker may reach config.max_age_s
    FreshWorkdir,    \* config.fresh_workdir_per_run
    ReclaimOnStart,  \* config.reclaim_on_start
    AcquireTimeout,  \* config.acquire_timeout_s is set
    Lapses,          \* what the code takes for a healthy end of a run or a wipe
    MayClose,        \* close() may be called
    Jobs,            \* what the request threads ask for
    MaxCalls,        \* bound: calls of all request threads
    MaxCrashes       \* bound: crashes (SIGKILL) of the controller process

\* "collect": a collector outlives its exec; "interrupt": a KeyboardInterrupt or
\* another exception outside Exception reaches the request thread; "child": a run
\* ends well with a process left, a child of its command or one that was there
\* before; "sealed": a run leaves what the cleaner cannot remove.
ASSUME PoolAssumption ==
    /\ PoolSize \in Nat \ {0}
    /\ Floor \in 1..PoolSize
    /\ MaxUses \in Nat \ {0}
    /\ {AgeExpires, FreshWorkdir, ReclaimOnStart, AcquireTimeout, MayClose}
         \subseteq BOOLEAN
    /\ Lapses \subseteq {"collect", "interrupt", "child", "sealed"}
    /\ Jobs \subseteq {"start", "run", "session"}
    /\ MaxCalls \in Nat
    /\ MaxCrashes \in Nat

VARIABLES
    serial, started, closed,   \* _serial, _started, _closed
    free,                      \* _free: how often each worker is in the queue
    placed,                    \* start()'s local list of placed workers
    sweep,                     \* pods a _delete_workers() has listed, not yet deleted
    pc, job, held, calls,      \* each request thread; held is 0 for no worker
    uses, client,              \* _Worker.uses and the state of its ApiClient
    thread, attempt,           \* the daemon thread of each worker, if any
    spawn, parent,             \* the _try_spawn of each name, and for whom it is
    closer,                    \* the thread that calls close()
    crashes

controller == <<serial, started, closed, free>>
starting   == <<placed, sweep>>
requests   == <<pc, job, held, calls>>
records    == <<uses, client>>
daemons    == <<thread, attempt>>
spawning   == <<spawn, parent>>
cluster    == <<pod, faults>>
pool       == <<serial, started, free>>
warming    == <<pool, starting, spawning>>
vars == <<cluster, controller, starting, requests, records, daemons, spawning,
          closer, crashes>>

\* A request thread in start(); one that holds a worker: a run before its exec
\* ("leased"), a session in __enter__ or between two calls, either in its exec.
StartStates == {"namespace", "reclaim", "warm", "spawning", "publish", "teardown"}
Custodian   == {"leased", "enter", "session", "run"}
CallerStates == {"idle", "start", "lease"} \cup StartStates \cup Custodian

\* A daemon thread wipes ("clean" before its test of _closed), or is in
\* _replace: "delete" the old pod, "heal" and "spawning" its replacement.
Minding == {"clean", "wipe", "delete"}
DaemonStates == {"none", "heal", "spawning"} \cup Minding

SpawnStates == {"unborn", "clear", "create", "wait", "drop", "abandon",
                "failed", "done"}

TypeOK ==
    /\ ClusterTypeOK
    /\ serial \in 0..MaxSerial
    /\ started \in BOOLEAN /\ closed \in BOOLEAN
    /\ free \in [Names -> Nat]
    /\ placed \subseteq Names
    /\ sweep \in [{"start", "close"} -> SUBSET Names]
    /\ pc \in [Callers -> CallerStates]
    /\ job \in [Callers -> {"start", "run", "session"}]
    /\ held \in [Callers -> Names \cup {0}]
    /\ calls \in 0..MaxCalls
    /\ uses \in [Names -> Nat]
    /\ client \in [Names -> {"none", "open", "closed"}]
    /\ thread \in [Names -> DaemonStates]
    /\ attempt \in [Names -> 0..2]
    /\ spawn \in [Names -> SpawnStates]
    /\ parent \in [Names -> Names \cup {0}]
    /\ closer \in {"idle", "list", "sweep", "done"}
    /\ crashes \in 0..MaxCrashes

Init ==
    /\ ClusterInit
    /\ serial = 0 /\ started = FALSE /\ closed = FALSE
    /\ free = [n \in Names |-> 0]
    /\ placed = {}
    /\ sweep = [s \in {"start", "close"} |-> {}]
    /\ pc = [c \in Callers |-> "idle"]
    /\ job = [c \in Callers |-> "run"]
    /\ held = [c \in Callers |-> 0]
    /\ uses = [n \in Names |-> 0]
    /\ client = [n \in Names |-> "none"]
    /\ thread = [n \in Names |-> "none"]
    /\ attempt = [n \in Names |-> 0]
    /\ spawn = [n \in Names |-> "unborn"]
    /\ parent = [n \in Names |-> 0]
    /\ closer = "idle"
    /\ calls = 0
    /\ crashes = 0

Goto(c, state)    == pc' = [pc EXCEPT ![c] = state]
Put(w)            == free' = [free EXCEPT ![w] = @ + 1]
Daemon(w, state)  == thread' = [thread EXCEPT ![w] = state]
CloseClient(w)    == client' = [client EXCEPT ![w] = "closed"]

----------------------------------------------------------------------------
(* _try_spawn, on behalf of start() (parent 0) or of the daemon thread of    *)
(* the worker being replaced.                                               *)

\* It takes the next serial number.  MaxSerial bounds them.
BeginSpawn(p) ==
    /\ serial < MaxSerial
    /\ serial' = serial + 1
    /\ spawn' = [spawn EXCEPT ![serial'] = "clear"]
    /\ parent' = [parent EXCEPT ![serial'] = p]

\* Mutated form: the replaced worker is put back, not its replacement.
PutReplaced(n) == Put(parent[n])

PutReplacement(n) == Put(n)

\* Return of the worker: start() appends it to its list, _replace puts it
\* into the queue and ends.
Deliver(n) ==
    /\ spawn' = [spawn EXCEPT ![n] = "done"]
    /\ uses' = [uses EXCEPT ![n] = 0]
    /\ client' = [client EXCEPT ![n] = "open"]
    /\ \/ /\ parent[n] = 0
          /\ placed' = placed \cup {n}
          /\ \E c \in Callers :
                /\ pc[c] = "spawning"
                /\ Goto(c, IF Cardinality(placed') = PoolSize THEN "publish" ELSE "warm")
          /\ UNCHANGED <<free, thread>>
       \/ /\ parent[n] # 0
          /\ PutReplacement(n)
          /\ Daemon(parent[n], "none")
          /\ UNCHANGED <<placed, pc>>
    /\ UNCHANGED <<attempt, sweep>>

\* Mutated forms: the first failure ends the thread; no failure does.
RetryNever(w)  == Daemon(w, "none") /\ UNCHANGED attempt
RetryAlways(w) == Daemon(w, "heal") /\ UNCHANGED attempt

\* _replace: the spawn raised.  Sleep and try again, at most three times.
Retry(w) ==
    \/ /\ attempt[w] < 2
       /\ attempt' = [attempt EXCEPT ![w] = @ + 1]
       /\ Daemon(w, "heal")
    \/ /\ attempt[w] = 2
       /\ Daemon(w, "none")
       /\ UNCHANGED attempt

\* The cluster would not place the worker: start() stops probing and judges
\* what it has, _spawn raises to _replace.
Refuse(n) ==
    /\ spawn' = [spawn EXCEPT ![n] = "failed"]
    /\ \/ /\ parent[n] = 0
          /\ \E c \in Callers :
                /\ pc[c] = "spawning"
                /\ Goto(c, IF Cardinality(placed) >= Floor THEN "publish" ELSE "teardown")
          /\ UNCHANGED daemons
       \/ /\ parent[n] # 0
          /\ Retry(parent[n])
          /\ UNCHANGED pc
    /\ UNCHANGED <<starting, free, records>>

\* It raises: out of start(), which forgets its list, or to _replace.
Raise(n) ==
    /\ spawn' = [spawn EXCEPT ![n] = "failed"]
    /\ \/ /\ parent[n] = 0
          /\ placed' = {}
          /\ \E c \in Callers : pc[c] = "spawning" /\ Goto(c, "idle")
          /\ UNCHANGED daemons
       \/ /\ parent[n] # 0
          /\ Retry(parent[n])
          /\ UNCHANGED <<placed, pc>>
    /\ UNCHANGED <<sweep, free, records>>

Advance(n, state) ==
    /\ spawn' = [spawn EXCEPT ![n] = state]
    /\ UNCHANGED <<free, starting, pc, records, daemons>>

\* _delete(name): clear any stale pod with this name.
SpawnClear(n) ==
    /\ spawn[n] = "clear"
    /\ \/ DeleteReturns(n) /\ Advance(n, "create")
       \/ DeleteRaises(n) /\ Raise(n)

SpawnCreate(n) ==
    /\ spawn[n] = "create"
    /\ \/ CreateReturns(n) /\ Advance(n, "wait")
       \/ CreateForbidden(n) /\ Refuse(n)
       \/ CreateRaises(n) /\ Raise(n)

SpawnWatch(n) ==
    /\ spawn[n] = "wait"
    /\ \/ WatchSeesRunning(n) /\ Deliver(n)
       \/ WatchSeesUnschedulable(n) /\ Advance(n, "drop")
       \/ WatchRaises(n) /\ Advance(n, "abandon")

\* Mutated form: the Pending pod is left.
SpawnDropKeepsPod(n) ==
    /\ spawn[n] = "drop"
    /\ Refuse(n)
    /\ UNCHANGED cluster

\* _delete(name): drop the Pending pod the scheduler turned away.
SpawnDrop(n) ==
    /\ spawn[n] = "drop"
    /\ \/ DeleteReturns(n) /\ Refuse(n)
       \/ DeleteRaises(n) /\ Raise(n)

\* Mutated form: the abandoned pod is left.
SpawnAbandonKeepsPod(n) ==
    /\ spawn[n] = "abandon"
    /\ Raise(n)
    /\ UNCHANGED cluster

\* _delete(name): do not leak the pod being abandoned.
SpawnAbandon(n) ==
    /\ spawn[n] = "abandon"
    /\ DeleteReturns(n) \/ DeleteRaises(n)
    /\ Raise(n)

SpawnStep(n) ==
    /\ \/ SpawnClear(n) \/ SpawnCreate(n) \/ SpawnWatch(n)
       \/ SpawnDrop(n)  \/ SpawnAbandon(n)
    /\ UNCHANGED <<serial, started, closed, job, held, calls, parent, closer, crashes>>

----------------------------------------------------------------------------
(* start(), explicit or by the first run. *)

\* _start_lock is free.
StartLockFree == \A c \in Callers : pc[c] \notin StartStates

\* What the thread does once the pool is started: an explicit start() returns, a
\* run or a session goes on to lease a worker.
AfterStart(c) == IF job[c] = "start" THEN "idle" ELSE "lease"

\* Mutated form: _started is not tested again under the lock.
AfterLockBlindly(c) == "namespace"

AfterLock(c) == IF started THEN AfterStart(c) ELSE "namespace"

\* The lock is taken and _started tested again.
StartEnter(c) ==
    /\ pc[c] = "start"
    /\ StartLockFree
    /\ Goto(c, AfterLock(c))
    /\ UNCHANGED <<cluster, warming, client>>

\* _ensure_namespace, which may raise, and the listing of _reclaim_orphans: an
\* ApiException of it is swallowed and sweeps nothing, any other error ends start().
StartNamespace(c) ==
    /\ pc[c] = "namespace"
    /\ \/ /\ sweep' = [sweep EXCEPT !["start"] =
                          IF ReclaimOnStart THEN {n \in Names : Exists(n)} ELSE {}]
          /\ Goto(c, "reclaim")
          /\ UNCHANGED faults
       \/ ReclaimOnStart /\ Fault("api") /\ Goto(c, "reclaim") /\ UNCHANGED sweep
       \/ Fault("api") /\ Goto(c, "idle") /\ UNCHANGED sweep
    /\ UNCHANGED <<pod, pool, placed, spawning, client>>

\* _reclaim_orphans deletes a listed pod; the first ApiException ends it, and
\* an error of the connection ends start().
StartReclaim(c) ==
    /\ pc[c] = "reclaim"
    /\ \E n \in sweep["start"] :
          \/ /\ DeleteReturns(n)
             /\ sweep' = [sweep EXCEPT !["start"] = @ \ {n}]
             /\ UNCHANGED pc
          \/ /\ DeleteRaises(n)
             /\ sweep' = [sweep EXCEPT !["start"] = {}]
             /\ UNCHANGED pc \/ Goto(c, "idle")
    /\ UNCHANGED <<pool, placed, spawning, client>>

\* _ensure_network_policy, which may raise.
StartPolicy(c) ==
    /\ pc[c] = "reclaim"
    /\ sweep["start"] = {}
    /\ \/ Goto(c, "warm") /\ UNCHANGED faults
       \/ Goto(c, "idle") /\ Fault("api")
    /\ UNCHANGED <<pod, warming, client>>

\* One turn of the warming loop calls _try_spawn.
StartWarm(c) ==
    /\ pc[c] = "warm"
    /\ BeginSpawn(0)
    /\ Goto(c, "spawning")
    /\ UNCHANGED <<cluster, started, free, starting, client>>

\* Each placed worker is put into the queue, then the pool is started.
StartPublish(c) ==
    /\ pc[c] = "publish"
    /\ \/ \E w \in placed :
             /\ Put(w)
             /\ placed' = placed \ {w}
             /\ UNCHANGED <<started, pc>>
       \/ /\ placed = {}
          /\ started' = TRUE
          /\ Goto(c, AfterStart(c))
          /\ UNCHANGED <<free, placed>>
    /\ UNCHANGED <<cluster, serial, sweep, spawning, client>>

\* Below the floor: the placed workers are deleted, then start() raises.
StartTeardown(c) ==
    /\ pc[c] = "teardown"
    /\ \/ \E w \in placed :
             /\ DeleteReturns(w)
             /\ CloseClient(w)
             /\ placed' = placed \ {w}
             /\ UNCHANGED pc
       \/ /\ \E w \in placed : DeleteRaises(w)
          /\ placed' = {}
          /\ Goto(c, "idle")
          /\ UNCHANGED client
       \/ /\ placed = {}
          /\ Goto(c, "idle")
          /\ UNCHANGED <<cluster, client, placed>>
    /\ UNCHANGED <<pool, sweep, spawning>>

StartStep(c) ==
    /\ \/ StartEnter(c) \/ StartNamespace(c) \/ StartReclaim(c) \/ StartPolicy(c)
       \/ StartWarm(c) \/ StartPublish(c) \/ StartTeardown(c)
    /\ UNCHANGED <<closed, job, held, calls, uses, daemons, closer, crashes>>

----------------------------------------------------------------------------
(* _dispatch: run, shell, exec and run_project. *)

Call(c, what, state) ==
    /\ pc[c] = "idle" /\ what \in Jobs
    /\ calls < MaxCalls /\ calls' = calls + 1
    /\ job' = [job EXCEPT ![c] = what]
    /\ Goto(c, state)
    /\ UNCHANGED <<cluster, controller, starting, held, records, daemons,
                   spawning, closer, crashes>>

\* On a started pool start() returns at once.
CallStart(c) == ~started /\ Call(c, "start", "start")

\* A closed pool refuses the call; a pool not started is started first.
CallRun(c) == ~closed /\ Call(c, "run", IF started THEN "lease" ELSE "start")

\* SandboxSession.__enter__ begins the same way.
CallSession(c) == ~closed /\ Call(c, "session", IF started THEN "lease" ELSE "start")

\* Mutated forms: the worker stays in the queue; the queue may be empty.
Peek(w)         == free[w] > 0 /\ UNCHANGED free
GetUnchecked(w) == free' = [free EXCEPT ![w] = @ - 1]

Get(w) == free[w] > 0 /\ free' = [free EXCEPT ![w] = @ - 1]

\* _lease: some worker of the queue.
Lease(c) ==
    /\ pc[c] = "lease"
    /\ \E w \in Names : Get(w) /\ held' = [held EXCEPT ![c] = w]
    /\ Goto(c, IF job[c] = "session" THEN "enter" ELSE "leased")
    /\ UNCHANGED <<cluster, uses, thread>>

QueueEmpty == \A w \in Names : free[w] = 0

\* Mutated form: a closed pool keeps its waiters.
LeaseExpiresIfOpen == AcquireTimeout /\ QueueEmpty /\ ~closed

LeaseExpires == AcquireTimeout /\ QueueEmpty

\* acquire_timeout_s has passed and the queue is empty.
LeaseTimesOut(c) ==
    /\ pc[c] = "lease"
    /\ LeaseExpires
    /\ Goto(c, "idle")
    /\ UNCHANGED <<cluster, free, held, uses, thread>>

\* Mutated form: tested before the use is counted.
SpentByEarlierUses(w) == uses[w] >= MaxUses

\* _Worker.spent: by its uses for certain, by its age perhaps.
SpentByUses(w) == uses[w] + 1 >= MaxUses
MaySpend(w)    == SpentByUses(w) \/ AgeExpires

\* Mutated form: _release goes on after _retire.
RetireAndPut(w) == Daemon(w, "delete") /\ Put(w)

Retire(w) == Daemon(w, "delete") /\ UNCHANGED free

\* _release(worker, retire, clean): count the use, then retire the worker, wipe
\* it in the background, or put it back.  A session always has it wiped.
Release(c, retire) ==
    LET w == held[c] IN
    /\ uses' = [uses EXCEPT ![w] = @ + 1]
    /\ held' = [held EXCEPT ![c] = 0]
    /\ Goto(c, "idle")
    /\ \/ (retire \/ MaySpend(w)) /\ Retire(w)
       \/ /\ ~retire /\ ~SpentByUses(w)
          /\ IF FreshWorkdir \/ job[c] = "session"
             THEN Daemon(w, "clean") /\ UNCHANGED free
             ELSE Put(w) /\ UNCHANGED thread

\* SandboxSession._retire_now: the session is dead, the use is not counted.
RetireNow(c) ==
    /\ held' = [held EXCEPT ![c] = 0]
    /\ Goto(c, "idle")
    /\ Retire(held[c])
    /\ UNCHANGED uses

\* A run the code takes for healthy: _dispatch's finally releases the worker, a
\* session keeps it for its next call.
EndHealthy(c) ==
    \/ job[c] # "session" /\ Release(c, FALSE)
    \/ job[c] = "session" /\ Goto(c, "session") /\ UNCHANGED <<free, held, uses, thread>>

\* Mutated form: an unhealthy worker stays in the pool.
EndForgiven(c) == Release(c, FALSE)

\* A run that timed out or failed retires its worker and ends its session.
EndUnhealthy(c) ==
    \/ job[c] # "session" /\ Release(c, TRUE)
    \/ job[c] = "session" /\ RetireNow(c)

\* What is done in the pod of w leaves files and a process there.
Traces(w) == [pod EXCEPT ![w].dirty = TRUE, ![w].live = TRUE]

\* _exec_on_worker: inputs are uploaded and the code starts.  MaxCalls bounds the
\* calls of a session, too.
RunBegins(c) ==
    /\ \/ pc[c] = "leased" /\ UNCHANGED calls
       \/ /\ pc[c] = "session"
          /\ calls < MaxCalls /\ calls' = calls + 1
    /\ Up(held[c])
    /\ pod' = Traces(held[c])
    /\ Goto(c, "run")
    /\ UNCHANGED <<faults, free, held, uses, thread>>

\* The process ends by itself, with any exit code.  Nothing ends its children.
RunOk(c) ==
    /\ pc[c] = "run"
    /\ Up(held[c])
    /\ \E child \in BOOLEAN :
          /\ child => "child" \in Lapses
          /\ pod' = [pod EXCEPT ![held[c]].live = child]
    /\ EndHealthy(c)
    /\ UNCHANGED <<faults, calls>>

\* _ExecTimeout: the process is left running.
RunTimesOut(c) ==
    /\ pc[c] = "run"
    /\ EndUnhealthy(c)
    /\ UNCHANGED <<cluster, calls>>

\* A ValueError before anything is sent to the worker (too large an input, a bad
\* name in env) is an Exception like any other.
RunRejected(c) ==
    /\ pc[c] \in {"leased", "session"}
    /\ EndUnhealthy(c)
    /\ UNCHANGED <<cluster, calls>>

\* The wipe or upload of a session's entry, the upload or the exec of a run
\* fails: the pod is gone, or the connection breaks.
RunFails(c) ==
    /\ pc[c] \in Custodian
    /\ \/ ~Up(held[c]) /\ UNCHANGED faults
       \/ Fault("exec")
    /\ EndUnhealthy(c)
    /\ UNCHANGED <<pod, calls>>

\* _collect swallows the timeout of its own exec: the call is a success and the
\* collector process may still be live.
RunCollectTimesOut(c) ==
    /\ pc[c] = "run"
    /\ "collect" \in Lapses
    /\ Up(held[c])
    /\ EndHealthy(c)
    /\ UNCHANGED <<cluster, calls>>

\* checkpoint() does not end its session: an error of the collector's exec is
\* raised and its timeout swallowed, the collector ended or not.
CheckpointFails(c) ==
    /\ pc[c] = "session"
    /\ Fault("exec") \/ UNCHANGED faults
    /\ \/ UNCHANGED pod
       \/ /\ "collect" \in Lapses
          /\ Up(held[c])
          /\ pod' = [pod EXCEPT ![held[c]].live = TRUE]
    /\ UNCHANGED <<free, pc, held, calls, uses, thread>>

\* A BaseException passes every except clause: the finally of _dispatch and the
\* exit of a session release the worker as healthy, what was under way in it left
\* running.  In a session's __enter__ nothing releases it.
RunInterrupted(c) ==
    /\ "interrupt" \in Lapses
    /\ \/ pc[c] \in {"leased", "session", "run"} /\ Release(c, FALSE)
       \/ /\ pc[c] = "enter"
          /\ held' = [held EXCEPT ![c] = 0]
          /\ Goto(c, "idle")
          /\ UNCHANGED <<free, uses, thread>>
    /\ \/ UNCHANGED pod
       \/ Up(held[c]) /\ pod' = Traces(held[c])
    /\ UNCHANGED <<faults, calls>>

\* The websocket closes with no status on the error channel, which _exit_code
\* reads as exit code 0.
RunDropped(c) ==
    /\ pc[c] = "run"
    /\ Fault("drop")
    /\ EndHealthy(c)
    /\ UNCHANGED <<pod, calls>>

\* A session wipes the workspace it starts in; files are there if the wipe left
\* some or a snapshot's were uploaded.
SessionEnters(c) ==
    /\ pc[c] = "enter"
    /\ Up(held[c])
    /\ \E files \in BOOLEAN : pod' = [pod EXCEPT ![held[c]].dirty = files]
    /\ Goto(c, "session")
    /\ UNCHANGED <<faults, free, held, calls, uses, thread>>

\* SandboxSession._close of a live session.
SessionCloses(c) ==
    /\ pc[c] = "session"
    /\ Release(c, FALSE)
    /\ UNCHANGED <<cluster, calls>>

LeaseStep(c) == (Lease(c) \/ LeaseTimesOut(c)) /\ UNCHANGED calls

RunStep(c) ==
    \/ RunBegins(c) \/ RunOk(c) \/ RunTimesOut(c) \/ RunRejected(c) \/ RunFails(c)
    \/ RunCollectTimesOut(c) \/ RunInterrupted(c) \/ RunDropped(c) \/ CheckpointFails(c)
    \/ SessionEnters(c) \/ SessionCloses(c)

RequestStep(c) ==
    /\ LeaseStep(c) \/ RunStep(c)
    /\ UNCHANGED <<serial, started, closed, starting, job, client, attempt,
                   spawning, closer, crashes>>

CallerStep(c) == StartStep(c) \/ RequestStep(c)

----------------------------------------------------------------------------
(* The daemon threads: _clean_and_return's task and _replace. *)

\* Mutated form: the client is closed first.
CleanClosesFirst(w) == CloseClient(w) /\ Daemon(w, IF closed THEN "none" ELSE "wipe")

\* On a closed pool the worker is left to close(); only its client is closed.
CleanIfOpen(w) ==
    IF closed THEN Daemon(w, "none") /\ CloseClient(w)
              ELSE Daemon(w, "wipe") /\ UNCHANGED client

CleanTests(w) ==
    /\ thread[w] = "clean"
    /\ CleanIfOpen(w)
    /\ UNCHANGED <<cluster, pool, closed, uses, attempt, spawning>>

\* _clean_workspace empties the scratch directory and kills no process.  The
\* cleaner passes over what it cannot remove and reports success all the same.
WipeSucceeds(w) ==
    /\ thread[w] = "wipe"
    /\ Up(w)
    /\ \/ pod' = [pod EXCEPT ![w].dirty = FALSE]
       \/ "sealed" \in Lapses /\ UNCHANGED pod
    /\ Put(w)
    /\ Daemon(w, "none")
    /\ UNCHANGED <<faults, serial, started, closed, records, attempt, spawning>>

\* Mutated form: the worker is dropped, not replaced.
DropDirty(w) == Daemon(w, "none")

\* A failed wipe is an isolation failure: the worker is retired.
RetireDirty(w) == Daemon(w, "delete")

WipeFails(w) ==
    /\ thread[w] = "wipe"
    /\ \/ ~Up(w) /\ UNCHANGED faults
       \/ Fault("exec")
    /\ RetireDirty(w)
    /\ UNCHANGED <<pod, pool, closed, records, attempt, spawning>>

\* The _delete of _replace lies outside its try: what it raises ends the thread.
ReplaceDeletes(w) ==
    /\ thread[w] = "delete"
    /\ \/ /\ DeleteReturns(w)
          /\ CloseClient(w)
          /\ Daemon(w, "heal")
          /\ attempt' = [attempt EXCEPT ![w] = 0]
       \/ /\ DeleteRaises(w)
          /\ Daemon(w, "none")
          /\ UNCHANGED <<client, attempt>>
    /\ UNCHANGED <<controller, uses, spawning>>

\* Mutated form: it spawns for a closed pool too.
MayHealAlways == TRUE

MayHeal == ~closed

\* Each attempt tests _closed before it spawns.
ReplaceHeals(w) ==
    /\ thread[w] = "heal"
    /\ \/ ~MayHeal /\ Daemon(w, "none") /\ UNCHANGED <<serial, spawning>>
       \/ MayHeal /\ Daemon(w, "spawning") /\ BeginSpawn(w)
    /\ UNCHANGED <<cluster, started, closed, free, records, attempt>>

DaemonStep(w) ==
    /\ \/ CleanTests(w) \/ WipeSucceeds(w) \/ WipeFails(w)
       \/ ReplaceDeletes(w) \/ ReplaceHeals(w)
    /\ UNCHANGED <<starting, requests, closer, crashes>>

----------------------------------------------------------------------------
(* close(), from the with statement, atexit or the SIGTERM handler.  It may *)
(* be called again.                                                         *)

CloseBegins ==
    /\ MayClose
    /\ closer \in {"idle", "done"}
    /\ closed' = TRUE
    /\ closer' = "list"
    /\ UNCHANGED <<cluster, serial, started, free, sweep, client>>

\* _delete_workers lists the pods with the pool's labels.
CloseLists ==
    /\ closer = "list"
    /\ \/ /\ sweep' = [sweep EXCEPT !["close"] = {n \in Names : Exists(n)}]
          /\ closer' = "sweep"
          /\ UNCHANGED faults
       \/ /\ Fault("api")
          /\ closer' \in {"sweep", "done"}
          /\ UNCHANGED sweep
    /\ UNCHANGED <<pod, controller, client>>

\* It deletes a listed pod.  An ApiException ends the sweep in silence; an error
\* of the connection ends close().
CloseDeletes ==
    /\ closer = "sweep"
    /\ \E n \in sweep["close"] :
          \/ /\ DeleteReturns(n)
             /\ sweep' = [sweep EXCEPT !["close"] = @ \ {n}]
             /\ UNCHANGED closer
          \/ /\ DeleteRaises(n)
             /\ sweep' = [sweep EXCEPT !["close"] = {}]
             /\ closer' \in {"sweep", "done"}
    /\ UNCHANGED <<controller, client>>

\* The clients of the workers in the queue are closed.
CloseDrains ==
    /\ closer = "sweep"
    /\ sweep["close"] = {}
    /\ \/ /\ \E w \in Names :
                /\ Get(w)
                /\ CloseClient(w)
          /\ UNCHANGED closer
       \/ /\ QueueEmpty
          /\ closer' = "done"
          /\ UNCHANGED <<free, client>>
    /\ UNCHANGED <<cluster, serial, started, closed, sweep>>

CloserStep ==
    /\ CloseLists \/ CloseDeletes \/ CloseDrains
    /\ UNCHANGED <<placed, requests, uses, daemons, spawning, crashes>>

CloseCalled ==
    /\ CloseBegins
    /\ UNCHANGED <<placed, requests, uses, daemons, spawning, crashes>>

----------------------------------------------------------------------------
(* The process and the cluster. *)

\* The controller is killed and started again: its pods stay as they are.
Crash ==
    /\ crashes < MaxCrashes
    /\ crashes' = crashes + 1
    /\ serial' = 0 /\ started' = FALSE /\ closed' = FALSE
    /\ free' = [n \in Names |-> 0]
    /\ placed' = {}
    /\ sweep' = [s \in {"start", "close"} |-> {}]
    /\ pc' = [c \in Callers |-> "idle"]
    /\ job' = [c \in Callers |-> "run"]
    /\ held' = [c \in Callers |-> 0]
    /\ uses' = [n \in Names |-> 0]
    /\ client' = [n \in Names |-> "none"]
    /\ thread' = [n \in Names |-> "none"]
    /\ attempt' = [n \in Names |-> 0]
    /\ spawn' = [n \in Names |-> "unborn"]
    /\ parent' = [n \in Names |-> 0]
    /\ closer' = "idle"
    /\ UNCHANGED <<cluster, calls>>

\* A process no request waits for ends by itself.
RunawayEnds(n) ==
    /\ pod[n].live
    /\ \A c \in Callers : ~(held[c] = n /\ pc[c] = "run")
    /\ pod' = [pod EXCEPT ![n].live = FALSE]
    /\ UNCHANGED faults

\* The watch reports Running long before idle_shutdown_s has passed.
IdleTooLong(n) == spawn[n] # "wait" /\ WatchdogExits(n)

ClusterStep(n) ==
    /\ PodStarts(n) \/ PodVanishes(n) \/ IdleTooLong(n) \/ RunawayEnds(n)
    /\ UNCHANGED <<controller, starting, requests, records, daemons, spawning,
                   closer, crashes>>

Next ==
    \/ \E c \in Callers : CallStart(c) \/ CallRun(c) \/ CallSession(c) \/ CallerStep(c)
    \/ \E n \in Names : SpawnStep(n) \/ DaemonStep(n) \/ ClusterStep(n)
    \/ CloseCalled \/ CloserStep
    \/ Crash

Spec == Init /\ [][Next]_vars

\* Each thread of the process goes on, every run ends (at its timeout if not
\* before) and the cluster starts the pods it can place.  Nobody has to call, to
\* close, to crash, or to end a runaway.
Fairness ==
    /\ \A c \in Callers : WF_vars(CallerStep(c))
    /\ \A n \in Names : /\ WF_vars(SpawnStep(n))
                        /\ WF_vars(DaemonStep(n))
                        /\ WF_vars(PodStarts(n) /\ ClusterStep(n))
    /\ WF_vars(CloserStep)

FairSpec == Spec /\ Fairness

============================================================================
