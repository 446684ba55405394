----------------------------- MODULE PoolProperties -----------------------------
(* What SandboxPool must keep, and what its documentation says of it. *)
EXTENDS SandboxPool

\* A worker is in one place: once in the queue, or leased by one request, or
\* with its daemon thread, or in start()'s list.  This is what makes one
\* ApiClient per worker safe (runner.py:213-216) and a run's workspace its own.
ExclusiveCustody ==
    \A w \in Names :
        /\ free[w] <= 1
        /\ free[w] > 0 => thread[w] = "none" /\ w \notin placed
        /\ thread[w] # "none" => w \notin placed
        /\ \A c \in Callers : held[c] = w =>
              /\ free[w] = 0
              /\ thread[w] = "none"
              /\ w \notin placed
              /\ \A d \in Callers : held[d] = w => d = c

\* Whoever has a worker has it with an open ApiClient, close() or not: no exec
\* goes through a client that close() or a retirement has closed.
OpenClient ==
    \A w \in Names :
        (free[w] > 0 \/ thread[w] \in Minding \/ \E c \in Callers : held[c] = w)
            => client[w] = "open"

\* A worker in the queue has a use left: max_uses is a ceiling.  A session is one
\* use however many calls it makes (runner.py:677, 1174-1184), although config.py:73
\* and src/README.md:448 count runs.
UsesLeft == \A w \in Names : free[w] > 0 => uses[w] < MaxUses

\* The workers in use or on their way back to the queue.
InService ==
    {w \in Names : free[w] > 0 \/ thread[w] # "none" \/ w \in placed
                     \/ \E c \in Callers : held[c] = w}

\* However requests, retirements and failed starts interleave, the pool never
\* has more workers than pool_size, hence no more than that many runs at once.
ParallelismCeiling == Cardinality(InService) <= PoolSize

InCustody(w) == free[w] > 0 \/ thread[w] \in Minding \/ w \in placed
                  \/ \E c \in Callers : held[c] = w

\* Once out of the queue, of every lease and of its daemon thread's care, a
\* worker never comes back: no thread puts a deleted pod's worker in the queue.
NeverResurrected ==
    [][\A w \in Names : spawn[w] = "done" /\ ~InCustody(w) => ~InCustody(w)']_vars

\* The pool only hands out clean workspaces (runner.py:675-676) and no process
\* of an earlier run.  For fresh_workdir_per_run, for runs whose files the cleaner
\* can remove, and as long as no process survives an end that counts as healthy;
\* without these, and in the words of src/README.md:539-545 with them as well,
\* nobody may assume a clean slate.
CleanHandout ==
    \A w \in Names : (free[w] > 0 \/ \E c \in Callers : held[c] = w /\ pc[c] \in {"leased", "enter"})
        => ~pod[w].dirty /\ ~pod[w].live

\* Self-heal (runner.py:848-850): a transient failure does not permanently shrink
\* the pool.  _replace makes three attempts, so each worker that a started pool is
\* short of its floor has cost three faults: up to two shrink nothing.  close()
\* ends the replacements.
PoolKeepsItsSize == started /\ ~closed => 3 * (Floor - Cardinality(InService)) <= faults

\* A _try_spawn that fails, turned away, too slow or broken, does not leak its pod
\* (runner.py:816-817, 835): none turns up in the cluster under that name later.
\* As long as the API server answers and a deletion ends within its 60 s.
GivenUpIsDeleted == \A n \in Names : spawn[n] = "failed" => ~Exists(n)

\* A start() that the cluster turned away leaves no pod behind (runner.py:299-302).
RefusedStartLeavesNothing ==
    ~started /\ StartLockFree => \A n \in Names : ~Exists(n)

\* A request blocked in _lease() gets a worker: replacements come, wipes end.
LeaseServed == \A c \in Callers : pc[c] = "lease" ~> held[c] # 0

\* With acquire_timeout_s set, no request waits for ever, close() or not.
BoundedWait == \A c \in Callers : pc[c] = "lease" ~> pc[c] # "lease"

\* Every daemon thread ends, though the cluster refuse every replacement: _replace
\* gives up after three attempts (runner.py:851-864).
DaemonsEnd == \A w \in Names : thread[w] # "none" ~> thread[w] = "none"

\* Nothing is being spawned and nothing will be: _closed is set, start() is over.
Quiet ==
    /\ closed /\ started
    /\ \A n \in Names : spawn[n] \in {"unborn", "failed", "done"}

\* close() leaves no pod of a pool that is not spawning as it lists, whatever the
\* requests and daemon threads in flight still do.  Without faults.
CloseSweepsQuietPool ==
    [](Quiet /\ closer = "list" =>
           [](closer = "done" /\ faults = 0 => \A n \in Names : ~Exists(n)))

\* What a pool that hands out clean workers shows its callers; under what
\* CleanHandout supposes.
Promise == INSTANCE WorkerLease
    WITH Workers <- Names,
         Nobody  <- 0,
         lessee  <- held,
         offered <- {w \in Names : free[w] > 0},
         tainted <- {n \in Names : pod[n].dirty \/ pod[n].live}

\* Every step of the pool is a step of WorkerLease or changes nothing it shows.
ImplementsWorkerLease == Promise!Spec

----------------------------------------------------------------------------
(* What the documentation says and the code does not keep. *)

\* The process has nothing left to do.
AtRest ==
    /\ \A c \in Callers : pc[c] \in {"idle", "lease"}
    /\ \A n \in Names : thread[n] = "none" /\ spawn[n] \in {"unborn", "failed", "done"}

\* close(): "Delete all worker pods owned by this pool" (runner.py:313).  Stated
\* for the pods _replace creates, so that a start() after close() does not count.
CloseDeletesAll ==
    closer = "done" /\ AtRest => \A n \in Names : parent[n] # 0 => ~Exists(n)

\* start(): "raising only below that floor" (runner.py:265).
RaisesOnlyBelowFloor ==
    [][\A c \in Callers : pc[c] = "spawning" /\ pc'[c] = "idle"
           => Cardinality(placed) < Floor]_vars

============================================================================
