# vomero_sandbox: specification, model checking and proofs

`vomero_sandbox` keeps a pool of warm Kubernetes pods and runs untrusted snippets in
them. This directory holds TLA+ modules translated from its source
(`src/vomero_sandbox/`), the TLC configurations that check them and the theorems TLAPS
proves about them. Line numbers in the modules are those of `runner.py` unless another
file is named.

## 1. The system

| component | state it keeps | operations | works with |
|---|---|---|---|
| `SandboxPool` lifecycle | `_started`, `_closed`, `_start_lock`, `start()`'s local list | `start`, `close`, lazy start, `_reclaim_orphans`, atexit/SIGTERM hooks | placing, queue, API server |
| placing a worker | `_serial`; per call: name, pod | `_try_spawn`, `_wait_placed`, `_delete` | API server; called by `start` and `_replace` |
| requests | `_free` (queue of `_Worker`), `_Worker.uses`, `api_client` | `_dispatch`, `_exec_on_worker`, `_lease`, `_release` | queue, exec channel, daemon threads |
| daemon threads | the worker each one owns, its attempt | `_clean_and_return`, `_retire`/`_replace` | queue, `_closed`, placing |
| `SandboxSession` | `_worker`, `_dead`, `_restore` | enter, `_call`, `checkpoint`, `_retire_now`, `_close` | as a request that keeps its worker |
| `SandboxStream` | `_worker`, `_retire`, `_iterated`, `_finished`, a suspended generator | enter, iterate, complete, exit | lease/release, or a session |
| exec channel (`_exec.py`) | one websocket, frames per channel, a deadline | `exec_stream`, `exec_capture`, `upload_files`, `_exit_code` | one `ApiClient` per worker |
| workspace contents | files of the scratch directory | collector, cleaner, snapshot packing, project tree | exec channel |
| idle watchdog (`_pod.py`) | `last`, sampled every `poll` seconds | PID 1 of each worker | processes in the pod |
| pod spec, config, namespace, policy, result types | none that changes | build, validate, provision | |

Request threads, daemon threads and whoever calls `close()` share the queue, the flags
`_started` and `_closed` and the pods; only the start and the serial number are under a
lock. Everything hard follows from that: interleavings of those threads, API calls that
fail half way, timeouts that leave a process running, a killed controller whose pods
live on, and a queue that must be refilled for a blocked request to make progress.
`PROJECT.json` lists these hazards line by line with the property that covers each.

What makes each component correct:

- *requests and daemon threads*: a worker is in one hand; it has an open client, a use
  left and, as far as the cleaner can see to it, a clean workspace when handed out; a spent
  or failed one never comes back.
- *lifecycle*: never more than `pool_size` workers; a refused start and a failed placement
  leave no pod; a retired worker is replaced; `close()` deletes the pods.
- *progress*: a blocked request is served, or gives up after `acquire_timeout_s`; daemon
  threads end.
- *idle watchdog*: a worker nobody uses ends by itself, and not under a run its samples
  had to see.
- *exec channel*: all output comes before the exit code, an upload that returns is whole, and
  no run outlives its deadline for its caller.
- *streams*: a result tells how the command ended; whatever the consumer does, the worker
  is given back once, and retired unless its command has ended.
- *conversation*: a resumed session has what was checkpointed and nothing else, and the
  agent finds the variables of its last completed run.

## 2. The modules

| module | what it is |
|---|---|
| `Cluster` | The namespace as the pool uses it: a pod per name, what each API call may do and return, faults from a budget, what the cluster does by itself. External to the code; taken from the calls and the except clauses of `runner.py`. |
| `SandboxPool` | `SandboxPool` and `SandboxSession` over `Cluster`: request threads, daemon threads, the thread of `close()`, the process. |
| `PoolProperties` | The properties of the pool, and what its documentation claims that does not hold. |
| `WorkerLease` | The promise to a caller, without threads, pods or faults: a worker is offered clean, leased by one caller, comes back or is gone for good. |
| `MCSandboxPool` | The module TLC runs; adds the symmetry of the request threads. |
| `SandboxPoolProofs` | Theorems about the pool: types, custody of the workers, their clients and uses. |
| `CapacityProofs` | How many workers the pool has, what a refused start and `close()` leave. |
| `PoolLeaseProofs` | The pool hands out clean workers and implements `WorkerLease`. |
| `IdleWatchdog` | PID 1 of a worker: the loop that samples `/proc`, and its timer. TLC runs it as it stands. |
| `IdleWatchdogProofs` | The theorems about the watchdog. |
| `ExecStream` | `_exec.py`: the loop of `exec_stream` and `upload_files` over the frames of one websocket, with the worker's end of it. |
| `SandboxStream` | `SandboxStream` over `ExecStream`, of the pool or of a session, with the lease of its worker. TLC runs it as it stands. |
| `Workspace` | Files and sizes, without a state: the collector, the cleaner, the uploader, the project tree and the snapshot as operators. |
| `Conversation` | Sessions resumed from checkpoints over `Workspace`, with the harness of `examples/stateful_agent.py` that carries an agent's variables. |
| `ConversationProofs` | What the operators of `Workspace` compute for every input, and the theorems about `Conversation`. |
| `MCConversation` | The host trees and leftovers TLC runs `Conversation` with. |
| `ExecStreamProofs`, `SandboxStreamProofs`, `StreamLeaseProofs` | The theorems about the exec channel, the streams, and the refinement. |

`SandboxPool` and `SandboxStream` both implement `WorkerLease`: the pool in all that its
threads do with a worker, the stream in what becomes of one between two chunks, with the
pool reduced to where each worker is. `Conversation` looks at one session's workspace and
leaves out where the worker comes from.

### How `SandboxPool` corresponds to the code

A step lies between two accesses of a thread to what another thread can see.

- `pc[c]`, `job[c]`, `held[c]` are a request thread: where it is, whether it called
  `start()`, a run or a session, and the `_Worker` in its hand. `StartEnter` to
  `StartTeardown` are `start()`; `Lease` to `SessionCloses` are `_dispatch`,
  `_exec_on_worker` and `SandboxSession`.
- `free[w]` is how often a worker is in `_free`. The queue is a bag: which of its
  workers a request gets plays no part in any property, how often one is in it does.
- `thread[w]`, `attempt[w]` are the daemon thread that `_clean_and_return` or `_retire`
  started for `w`: `clean`/`wipe` the task, `delete`/`heal`/`spawning` `_replace`.
- `spawn[n]`, `parent[n]` are the `_try_spawn` that took serial number `n`, and the
  worker whose daemon thread waits for it (0 for `start()`).
- `sweep` holds the two listings `_delete_workers` may be working off.
- `pod[n].dirty` and `.live` are all that is kept of what runs do: something was written
  to the scratch directory, a process is running. Exit codes, output and file contents
  are left out.
- An API call is one step, its 60 s of polling included. It may return, return although
  the pod is still there (`_delete` is silent after 60 s), or raise with its effect done,
  under way or not. `_ensure_namespace` may raise before the orphans are listed,
  `_ensure_network_policy` after they are deleted.
- `uses[w]` counts as `_release` does: a session is one use however many calls it makes,
  although `config.py:73` and `src/README.md:448` speak of runs.
- A `checkpoint()` that raises or whose collector times out leaves its session open
  (`CheckpointFails`), a call that fails ends it.
- `Lapses` is what the code takes for a healthy end of a run or of a wipe and is none. `child`:
  a command ends well and leaves a process, which nothing in the code kills. `collect`: a
  collector outlives its timeout, which `_collect` swallows. `interrupt`: a BaseException passes
  `except Exception`; the run is released as healthy, and a session's `__enter__` releases
  nothing. `sealed`: a run leaves what the cleaner cannot remove, and it prints `CLEAN_OK`
  all the same. All of them are possible in `pool_hazards`.
- Left out: `_spawned`, `_retired` and the start report, which only `stats()` reads; the
  order of the queue; back-off times; the SIGTERM handler's re-entrance.

`Crash` kills the controller: all its state is that of a fresh process, the pods stay.

### How `IdleWatchdog` corresponds to the code

`Look` is `os.listdir`, `Decide` the three branches of the loop, `Wake` the return of
`time.sleep(poll)`, no more than `Lag` late; `last` and `seen` are the locals `last` and
`active`. `active` is whether a process other than PID 1 runs; `born`, `used` and `long` are
history. A run may start or end in any state, also between the look and the exit. The
clock stands still outside the sleep: a look that takes long is the same as a sleep that
returns late. 24 ticks hold two full idle periods after a run anywhere in the first one. `IdleWorkerEnds` counts
from the last moment a process ran: one that never ends keeps its worker, although
`src/README.md:504` lets the watchdog cover "everything".

### How `ExecStream` and `SandboxStream` correspond to the code

- `log` is the websocket: the frames that were sent, of which the client has read the
  first `read`. A chunk of output is the place of its frame. `buf` and `status` are the
  buffers of `WSClient`, `got` what `exec_stream` has yielded or `upload_files` has kept.
- `Pump` is `update(timeout=1)`, `Peek` is `peek_stdout`/`read_stdout` and the same for stderr. A
  peek of the kubernetes client updates too, so any of the three may read the next frame.
- `pc` is the place in the loop, or the `yield` the generator is suspended at. `exec_capture` is
  the consumer that always asks for the next chunk.
- `late` is `time.monotonic() > deadline`, which may become true in any state.
- `Endings` says how a socket may end: with a status (`status`), one that is no JSON
  (`garbled`), without one (`bare`), with an internal error (`failure`), or broken (`lost`). After
  the last three the process may go on: nothing tells it.
- `stream` is one `SandboxStream`: `worker`, `retire`, `finished` and `result` are `_worker`,
  `_retire`, `_finished` and `_result`; `life` is where it is between `__init__` and `__exit__`, `gen`
  its generator. `bound` is the worker that a session's stream captures when it is made.
- `at`, `dirty`, `left` and `on` are the workers: where each is, which have files or a process
  of an earlier exec, and which one the current exec is on. A retired worker is not replaced here.
- `Releases` wipes the worker of a stream or puts it back as it is, by `FreshWorkdir`; that of a
  session is always wiped.
- Streams are driven one after the other. `Lapses` is what a caller may do that the classes
  neither forbid nor promise anything about: leave the `with` block while holding a suspended
  iterator (`keep`), enter a stream twice (`reenter`), use a session's stream after the
  session (`outlive`); and, as in `SandboxPool`, `child`, `collect`, `sealed` and `interrupt`. The
  collector of `_complete` and of a session's call may leave its process behind (`Lingers`), and
  a BaseException in `__enter__` leaves the worker to nobody (`Escapes`). One in `__iter__` ends
  the channel and the run like a broken connection.
- Left out: the text of output and of environment variables, timestamps, exit codes other
  than whether they are 0.

### How `Workspace` and `Conversation` correspond to the code

- A workspace maps paths to entries with a kind, a size and data. `Collected` folds over the
  paths in the order of the walk, which `os.walk` does not promise, so `Checkpoint` takes
  every order. A link is read as the file it points to; a file that cannot be opened and an
  empty directory are passed over; the cleaner removes all but what is sealed.
- `Opens` is `resume()` and `__enter__` with wipe and upload; `RunCompletes` and `RunFails` are
  `run()` with the harness of `examples/stateful_agent.py`: prelude, the agent's code,
  epilogue. `Dies` is every path to `_retire_now`. `Stores` is the caller saving the blob.
- `With` is one more entry in a workspace, `Joined` the `files.update(extra_files)` of
  `run_project`; `TypeOK` asks that a workspace holds `Entries`.
- The data of a file is the number of the run that wrote it, that of `ns.pkl` the run whose
  variables it holds. A blob carries the workspace and the variables of its checkpoint,
  which only the properties read.
- `Lapses`: the collector fails (`collector`), a resumed session is entered a second time
  (`reenter`), the epilogue is killed while it writes `ns.pkl` (`torn`).
- Left out: the text and the normalisation of paths, the test of member names in a snapshot
  (the collector's own paths pass it), base64 and the framing of payloads, gzip.

## 3. Runs

All runs of the pool have two request threads. Bounds: `MaxCalls` calls of all threads together (a
session's calls included), `MaxFaults` faults, `MaxCrashes` crashes, `MaxSerial` serial
numbers. In `pool_service` `MaxSerial` is at least `PoolSize + MaxCalls + MaxFaults` retries, so
it never stops a spawn; in `pool_shutdown` it is the worker and three attempts at each of its
two replacements, all that the code may need and one less than a fourth attempt would; in `pool_hazards` it does bind (4: two workers and two
replacements), which cuts behaviours short and cannot hide a state reached before. `CHECK_DEADLOCK FALSE` in all of them: calls are bounded, and a
pool without calls rests.

| run | bounds | shows |
|---|---|---|
| `pool_hazards` | `PoolSize` 2, `Floor` 1, 2 calls, any two faults, 1 crash, `close()` at any time, all four lapses, no `fresh_workdir_per_run`, ages; symmetry | `TypeOK`, `ExclusiveCustody`, `OpenClient`, `UsesLeft`, `ParallelismCeiling` |
| `pool_service` | `PoolSize` = `Floor` = 2, 3 calls, two refusals by the scheduler, the watchdog | `CleanHandout`, `PoolKeepsItsSize`, `RefusedStartLeavesNothing`, `NeverResurrected`, `LeaseServed`, refinement of `WorkerLease` |
| `pool_shutdown` | `PoolSize` = `Floor` = 1, 2 calls, 7 placements, execs and sockets that fail, 7 names, `close()`, `acquire_timeout_s` | `PoolKeepsItsSize`, `GivenUpIsDeleted`, `BoundedWait`, `DaemonsEnd`, `CloseSweepsQuietPool` |
| `close_race` | no fault | violation: `close()` misses a pod that `_replace` is about to create |
| `self_heal` | one API error | violation: the slot of a worker is lost |
| `start_floor` | one failed startup | violation: `start()` raises above its floor |
| `collect_runaway` | the collector times out | violation: a worker is reused with a live process |
| `watchdog` | `idle_shutdown_s` of 8 s, a poll of 2 s, sleeps up to 1 s late, 24 s | `TypeOK`, `IdleWorkerEnds`, `SeenRunsCount` |
| `watchdog_poll` | the same | violation: a run between two samples does not keep its worker alive |
| `streams` | two workers, two streams, two frames of output, one input file; status or broken connection at any time; no lapse | `StreamTypeOK`, `UploadComplete`, `OutputComplete`, `ResultTells`, `NoWorkerLost`, refinement of `WorkerLease`, `WorkerComesBack` |
| `conversation` | three runs, two paths and the pickle, sizes 1 and 2, both limits 3, four host trees, any number of sessions and crashes | `TypeOK`, `Resumable`, `NamespaceCarries`, `CollectTells`, `ResumesReadable` |
| `lost_checkpoint` | two runs, plain files only, a collector that may fail | violation: a checkpoint is not the workspace |

`MaxUses` is 2 so that a worker is used, reused and spent within two calls. Two request
threads and two workers are enough for every pairwise interleaving of request, daemon
thread, start and close; where there are three calls, one meets the replacement of a worker
another one retired. `pool_hazards` gives up the third call for a second fault, so that a
failure meets the aftermath of another.

In `streams` a second worker and a second stream are what it takes for a worker to be
wiped, handed on and met by the next run; two frames of output let one arrive in each
of the two peeks, or both in one channel; what more frames or files would add is covered
by the theorems. The session counts as a third user. `Lapses` is empty, `FreshWorkdir` TRUE and
the socket honest; beyond that TLC finds `ImplementsWorkerLease` violated by each of the lapses
and without `FreshWorkdir` (the next tenant gets the worker with files or a process of the
last), `NoWorkerLost` by `reenter` and `interrupt`, and `ResultTells` by `reenter`, `bare` and `failure`.
Of the callers' lapses no document says what they do; whether a socket ever ends as `bare` or `failure` is up to what lies between the client
and the worker, and then `ok` is true of a command that is still running. They are listed as
hazards. `CHECK_DEADLOCK FALSE`: two streams are made and then the
system rests.

In `conversation` three runs are one that writes, one that changes or removes what a
checkpoint kept, and one after a resume. Files of size 1 and 2 under a limit of 3 meet the
limit exactly, pass it by one and leave room for a smaller one. TLC finds `NamespaceCarries`
violated by each of the three lapses, and `Resumable` when `MaxUpload` is below `MaxCollect`,
which `validate()` does not exclude. `CHECK_DEADLOCK FALSE`: the runs are bounded.

`CleanHandout`, the two `ImplementsWorkerLease`, `PoolKeepsItsSize`, `GivenUpIsDeleted` and
`RefusedStartLeavesNothing` need limits that the code's hazards force, and say so in their
comments and the hypotheses of their theorems: no lapse that the code takes for a healthy
end, no API error. The violation runs show what happens beyond them.

That workers are handed out clean is what the docstrings of `_release` and
`_clean_and_return` say and what `_dispatch` relies on (603-605). `src/README.md:539-545` says the
contrary, that files persist and that nobody may "assume a clean slate"; by default the
workspace is wiped after every run (see below), and yet the second warning is right: a
leftover the cleaner cannot remove, a child or a collector that lives on, an interrupted call
or a socket that closes without a status puts a worker into the queue that is not clean. TLC
finds `CleanHandout` violated by each of the four lapses, by the fault `drop` and without
`fresh_workdir_per_run`. `CleanHandout` therefore says that nothing else does: no interleaving of
runs, wipes, retirements, failures, `close()` and crashes.

`PoolKeepsItsSize` allows one slot to be lost per three faults, until `close()`: with the two
faults of `pool_service` none is lost, in `pool_shutdown` the one slot is, to three of its seven.
There the daemon threads end because `_replace` counts its attempts, not because the faults run
out: the budget is larger than what two replacements may use up. A thread that tried again
would want an eighth name and wait for it for ever.

### Findings

1. `close()` says it deletes all worker pods. A `_replace` past its test of `_closed`
   creates one after `close()` has listed them (`close_race`). With the close after the
   last spawn the sweep is complete (`CloseSweepsQuietPool`).
2. `_replace` calls `_delete(old.name)` before its `try`: one API error ends the thread
   and the pool shrinks for good (`self_heal`). With `acquire_timeout_s` unset a request
   may then wait for ever.
3. `start()` raises above `min_pool_size` when a spawn raises instead of being refused,
   and forgets the workers it has placed (`start_floor`).
4. `_collect` swallows its timeout, so the worker is reused with the collector possibly
   alive (`collect_runaway`).
5. `config.py` says a worker ends "if no run touches it for this many seconds". The
   watchdog samples once per poll and misses a run between two samples, so a worker that
   only short runs touch is ended in the middle of its service (`watchdog_poll`). The pool
   replaces it, and a run that meets its end fails. `tests/smoke_idle_shutdown.py:96-120` asserts
   that short pings keep a worker running; it passes when enough of them fall on a sample.
   `EndsOnlyIdle` concedes one poll and its lateness, by which the timer of a run that was sampled
   may be ahead, so only a run that no sample saw violates it. In a shortest trace a run starts
   and ends after the look at 5 s, as late as at 7 s, and the worker exits at the look at 8 s;
   in others of the same length the run ends at 5 s, just before that look.
6. `_collect` answers a timeout, a failure and unusable output alike with no file and none
   left out. `checkpoint()` only looks at what was left out, so it packs an empty snapshot,
   and the next turn starts with an empty workspace (`lost_checkpoint`). The README says
   `checkpoint()` raises rather than silently dropping files, and that `resume()` continues from
   exactly that filesystem state. The run has plain files only, so that the links and empty
   directories a snapshot does not keep play no part in it.
What the documents say of a reused worker does not agree, neither among themselves nor with
the code:

- The docstrings of `_release` and `_clean_and_return` (`runner.py:675-676`, `689-691`) say that the
  pool only ever hands out clean workspaces, and that a worker whose wipe fails is retired
  instead of being reused dirty. The cleaner ignores what it cannot remove and prints `CLEAN_OK`
  (80-89), so the test of its output (776) cannot fail for that and the worker is reused
  dirty. With `sealed` in `Lapses`, `pool_service` ends in a violation of `CleanHandout`, as
  `collect_runaway` does for a process.
- `src/README.md:539-545` (also 192-193 and 220-222) and the comment on `scratch_dir`
  (`config.py:110-112`) say that files persist across runs on a worker, which is wiped only when
  it is retired or the pool closes. `fresh_workdir_per_run` is True by default (`config.py:113-119`),
  and then every healthy worker is wiped when its run is over (682-684). They describe the
  code with the field set to False.

### Fairness

`FairSpec` gives weak fairness to each thread of the process (request, spawn, daemon and
close) and to the start of a pod the scheduler accepted. A thread of a running Python
process goes on; an exec ends at its timeout if not before; `_delete` and `_wait_placed`
are bounded by their deadlines. Weak is enough because a thread's next step stays enabled
once it is, with one exception: a lease, which others can take the worker away from. Its
starvation by newcomers is excluded by the bounded number of calls, not by fairness
(`queue.Queue` promises no order to its waiters). Calls, `close()`, crashes, faults and the
end of a runaway process are under no fairness.

In `SandboxStream` weak fairness is given to the client's loop (a thread that runs), to the
passing of the deadline (time), to the entry, the completion and the exit of a stream, and to
the caller: it asks for the next chunk or breaks off, and leaves its `with` blocks some time.
Nothing is asked of the command or the socket, so `WorkerComesBack` holds although neither may
ever be heard of again. `IdleWatchdog` and `Conversation` need none.

## 4. Proofs

TLAPS proves the following for every value of the constants the assumptions
`ClusterAssumption`, `PoolAssumption`, `WorkspaceAssumption`, ... allow: any number of
request threads, any pool size, fault budget, paths, sizes and lapses. Where a theorem needs
more, its hypothesis is a definition of its own and part of its statement. All invariants
were checked with TLC on the instances of section 3 before they were proved.

### The pool

- `TypeCorrect`: `Spec => []TypeOK`, one lemma per group of actions.
- `WorkersAreExclusive`, `ClientsAreOpen`: `[]ExclusiveCustody`, `[]OpenClient`. Neither is
  inductive. `Deliver` puts a new worker in the queue or in `start()`'s list, so the invariant
  must say that a name whose `_try_spawn` has not returned is in nobody's hand
  (`SpawnsAreNew`), and that the daemon thread it reports to waits for it and for no other
  (`OneSpawnEach`). A release needs to know that whoever is in a run has a worker
  (`HeldByCustodian`), a publish that placed workers have open clients (`PlacedOpen`).
  `CustodyInv` is their conjunction; each group of actions has a lemma that it keeps it,
  most of them instances of a few moves: lease, give up, move on, begin, fail and deliver a
  spawn.
- `UsesStayLeft`: `[]UsesLeft`. `UsesInv` says it of every worker that may come back, not only
  of one on offer: `uses` is read after the run by the thread that has the worker in hand.
- `WorkersStayRetired`: `Spec => NeverResurrected`, an action property, from `CustodyInv`: only
  a `_try_spawn` that returns brings a worker into custody, and a name has one.
- `PoolNeverOverfills`: `[]ParallelismCeiling`, without a hypothesis. A worker in service is
  counted as a member of a finite set, so each step is a lemma about that set: a daemon
  thread's replacement takes the place of the worker it replaces (`Replaces`), and only
  `start()` adds one, which before the end of the start has nothing but its own list
  (`StartInv`: one thread starts, once, and nothing is served until it has published).
- `PoolStaysFull`: `[]PoolKeepsItsSize`, under `HealAssumption`, for any floor and any number of
  faults: each worker the pool is short of its floor has cost three of them. `Charges` is the set
  of attempts of a `_replace` that have failed and not yet been made good, with those of a
  `_try_spawn` that is about to raise; `LossInv` says that three times the missing workers and
  the charges are within the faults. A step charges at most the fault it meets
  (`ChargesArePaid`), and a daemon thread that gives up trades its three charges for its slot
  (`LossIsPaid`). The count alone is not inductive: the third failure would come from nowhere.
  Neither part of the hypothesis can go: one API error loses a slot (`self_heal`), and an
  interrupted call does without any fault. The property ends with `close()`, which ends the
  replacements, and so does `HealInv`. Crashes are allowed: a new controller is not started.
- `RefusalIsClean`: `[]RefusedStartLeavesNothing`, under `RefusalAssumption`: the scheduler, the
  quota and execs may fail, but no API call does, nobody closes the pool and the controller
  is not killed. `StartAccounts` says where each pod is before the pool is started: in
  `start()`'s list, published, or with a `_try_spawn` that will give it up or deliver it.
- `CloseSweepsAll`: `Spec => CloseSweepsQuietPool` when no controller is killed. A closed pool in
  which nothing is being spawned stays so (`QuietStep`), so what `close()` listed covers what
  is left (`SweepCovers`). The property nests two boxes: the outer one comes from the invariant,
  the inner one from `SweepCovers` being kept from the listing on.
- `NothingLeaks`: `[]GivenUpIsDeleted`, under `CallsAssumption`: API calls succeed, and a deletion
  ends within the 60 s it is polled for. `ClearedInv` adds that there is no pod between the
  clearing of a name and its creation; crashes and `close()` are allowed.
- `HandoutIsClean`: `[]CleanHandout`, under `HonestRuns`, whose six parts are `fresh_workdir_per_run`,
  nothing the cleaner cannot remove, no child, no collector that outlives its timeout, no
  BaseException, no websocket that closes without a status. The code sees to the first only, and
  TLC finds the invariant violated without any one of them. `CleanInv` follows the two kinds of trace apart: a
  wipe removes files but ends no process, so a worker may only go to the wipe when its
  process has ended (`WipedQuiet`), and a session in between keeps files and no process
  (`SessionQuiet`). `collect_runaway` shows what happens without it.
- `PoolImplementsWorkerLease`: `Spec => Promise!Spec` under `HonestRuns`. The mapping offers what is
  in the queue, leases what a request holds, and calls tainted what has files or a process. Each group of actions maps to a lease, a run, a return, a retirement, an
  offer, a halt of the controller, or a stutter.

### The watchdog

- `WatchdogTypesCorrect`: `Spec => []TypeOK`.
- `IdleWorkersEnd`: `[]IdleWorkerEnds`, and `LongRunsAreSeen`: `Spec => SeenRunsCount`, for every
  `idle_shutdown_s`, every lateness of the sleep and every length of the clock. The
  invariant ties the timer to what it has sampled: `last` is never later than the last time a
  process ran, and a sleep is only begun within `idle_shutdown_s` of it (`TimerInv`); a run going
  on has begun since the last sample or that sample saw it (`SampleInv`).

### The exec channel and the streams

- `StreamTypesCorrect`: `[]StreamTypeOK`.
- `StreamOutputComplete`, `StreamUploadComplete`: `[]OutputComplete`, `[]UploadComplete`, for every
  number of frames, files and streams and every end of the socket. They are proved of the
  exec channel alone (`ExitCodeAfterOutput`, `UploadReturnsWhenWritten`) and hold of a stream
  because each of its steps is one of the channel or leaves it alone (`StreamStepsExec`). The
  invariant `ExecInv` says where each chunk is: what was read is taken or in its channel's
  buffer (`Carried`), and a closed socket was read to the close frame, which is the last
  (`LastFrame`, `ReadAll`). The peek of stderr may leave a chunk of stdout in its buffer, but
  then the close is still to be read and the loop goes round once more (`Drained`).
- `StreamsLoseNoWorker`: `[]NoWorkerLost`, unless streams are entered twice (`EnteredOnce`) or a
  BaseException reaches an `__enter__` (`Uninterrupted`). TLC finds it violated without either.
- `ResultsTell`: `[]ResultTells`, where sockets report a status or break (`HonestEndings`) and no
  stream is entered twice. `StatusInv` follows the end of the process into the log, from
  there into the client's status and into the exit code.
- `StreamsImplementWorkerLease`: `Spec => Lease!Spec`, under `HonestEndings` and `HonestUse`:
  `fresh_workdir_per_run`, nothing the cleaner cannot remove, no process left behind by a command or
  a collector, no BaseException, and a caller who enters a stream once, closes its iterator
  and does not drive it after its session. A
  worker is tainted while it has files or a process of an earlier run, so the invariant
  (`LeaseInv`) must show that no clean-looking worker has a process: one that runs is on the
  worker of the current exec (`Placed`), that worker is still leased or gone unless the
  command has ended (`StreamHolds`, `Yields`), and a worker on its way back has no process
  left (`Clean`). Each part is needed: TLC finds the refinement violated by each of the
  lapses, without `FreshWorkdir`, and by `bare`.

### The conversation

`Collected` is a fold over the paths and `Total` one over the files, so what they compute is
proved by induction on data. The library's induction theorems take an operator as a
parameter, which the provers cannot instantiate; instead the set of counterexamples is
formed, a family of subsets of a finite set, and its smallest member refuted
(`MinimalSubset`, from the well-foundedness of the strict subset ordering). In this way the
fold is shown to be defined (`PassesDefined`), a total to be the number of bytes, counted
as pairs of a path and a position (`TotalIsBytes`), and a pass over any paths in any order to
collect what it says (`WalkCollects`).

- `ConversationTypesCorrect`: `[]TypeOK`. `ConversationInv` adds that a blob unpacks to a workspace of
  at most `MaxCollect` bytes.
- `CheckpointsFit`: `[]Resumable` if `MaxCollect <= MaxUpload`, which the defaults are and `validate()`
  does not demand; with the opposite TLC finds a checkpoint that `resume()` refuses.
- `CollectionsTell`: `[]CollectTells`, without a hypothesis.
- `ResumedSessionsReadable`: `Spec => ResumesReadable`, under `HonestRestores`: the cleaner can remove
  what tenants leave, collectors answer, a closed session is not entered again. A pickle may
  be cut off. `SnapshotInv` says that each blob, stored or not, unpacks to what was readable
  when it was taken; that packing loses and renames nothing is `UnpackedIsPacked`.
- `NamespaceCarried`: `[]NamespaceCarries`, if moreover no pickle is cut off (`HonestTurns`). The
  property is about open sessions; `NamespaceInv` needs the same of every blob, and that the
  harness's file is a plain file wherever it is, so that a checkpoint carries it. TLC finds
  the property violated by each of the lapses.

### Only model-checked

The liveness properties: `LeaseServed`, `BoundedWait`, `DaemonsEnd` and `WorkerComesBack` (fairness and
ENABLED are beyond the prover). Every invariant and every other action property or
refinement that a passing run checks is the statement of a theorem above. The violation runs
show where the code leaves its documentation; there is nothing to prove about them.

## 5. Plan

Done: the pool with its requests, daemon threads, lifecycle and sessions over the
cluster; the idle watchdog; the exec channel and the streams; the workspace and the
conversation over it. `WorkerLease` is implemented by the pool and by the streams, both
checked and proved.

Next, in this order:

1. `SharedNamespace`: two controllers with one `app_label` over one `Cluster`, and the SIGTERM
   handler that calls `close()` inside `start()`.
2. A stream over the whole of `SandboxPool` instead of its reduction, with `close()` between
   making and entering a stream (`runner.py:594`).

Not modelled, and why: `build_worker_pod`, the egress policy and the result types are
constant data; paths, environment variables and payloads are text that is parsed and
formatted without a state; quantity parsing and the overcommit warning touch no state; `stats()` is a
read that its docstring calls eventually consistent; the other examples and the tests are clients that
the request threads stand for.
