-------------------------------- MODULE Cluster --------------------------------
(****************************************************************************)
(* The Kubernetes namespace as the pool in runner.py uses it: the worker    *)
(* pods, what an API call does to them, and what the cluster does by        *)
(* itself.  The API server is not under src/: its side is modelled from the *)
(* calls the pool makes (create, delete then poll for 404, list, watch).    *)
(*                                                                          *)
(* A pod is known by its serial number (the code's "{app_label}-{serial}"). *)
(* Of the work done in a pod only two bits matter to the pool: "dirty", a   *)
(* run has written to its scratch directory, and "live", a process other    *)
(* than PID 1 is running in it.                                             *)
(****************************************************************************)
EXTENDS Naturals

CONSTANTS
    MaxSerial,      \* bound: serial numbers of one controller process
    FaultKinds,     \* the faults the environment may inject
    MaxFaults,      \* bound: how many of them in one behaviour
    IdleShutdown    \* config.idle_shutdown_s is set

\* "api": an API call answers 5xx or the connection breaks; "stuck": a deleted
\* pod outlives the 60 s poll; "noroom": quota or scheduler turns a worker away;
\* "startup": image pull, Failed, or slower than startup_timeout_s; "exec": an
\* exec, upload or wipe fails; "drop": the exec websocket closes with no status.
Faults == {"api", "stuck", "noroom", "startup", "exec", "drop"}

ASSUME ClusterAssumption ==
    /\ MaxSerial \in Nat
    /\ MaxFaults \in Nat
    /\ FaultKinds \subseteq Faults
    /\ IdleShutdown \in BOOLEAN

Names  == 1..MaxSerial
Phases == {"Absent", "Pending", "Running", "Terminating", "Succeeded"}
Pods   == [phase : Phases, dirty : BOOLEAN, live : BOOLEAN]

VARIABLES
    pod,      \* the pod of each name
    faults    \* how many faults have happened

Pod(phase) == [phase |-> phase, dirty |-> FALSE, live |-> FALSE]

ClusterTypeOK ==
    /\ pod \in [Names -> Pods]
    /\ faults \in Nat

ClusterInit ==
    /\ pod = [n \in Names |-> Pod("Absent")]
    /\ faults = 0

Exists(n) == pod[n].phase # "Absent"
Up(n)     == pod[n].phase = "Running"

\* A fault of kind k happens now.
Fault(k) ==
    /\ k \in FaultKinds
    /\ faults < MaxFaults
    /\ faults' = faults + 1

----------------------------------------------------------------------------
(* What a call of the pool does.  _delete() returns when a poll sees 404, or *)
(* in silence after 60 s of polling; it raises on any API error but a 404:   *)
(* of the delete, or of a poll, the pod gone by then or not.                 *)

DeleteReturns(n) ==
    \/ /\ pod' = [pod EXCEPT ![n] = Pod("Absent")]
       /\ UNCHANGED faults
    \/ /\ Exists(n)
       /\ Fault("stuck")
       /\ pod' = [pod EXCEPT ![n] = Pod("Terminating")]

DeleteRaises(n) ==
    /\ Fault("api")
    /\ \/ UNCHANGED pod
       \/ pod' = [pod EXCEPT ![n] = Pod("Absent")]
       \/ Exists(n) /\ pod' = [pod EXCEPT ![n] = Pod("Terminating")]

CreateReturns(n) ==
    /\ ~Exists(n)
    /\ pod' = [pod EXCEPT ![n] = Pod("Pending")]
    /\ UNCHANGED faults

\* Admission answers 403: the ResourceQuota is exhausted.
CreateForbidden(n) ==
    /\ Fault("noroom")
    /\ UNCHANGED pod

\* A 409 because the name is taken, or an API error; the error may reach the
\* caller although the server did create the pod.
CreateRaises(n) ==
    \/ Exists(n) /\ UNCHANGED <<pod, faults>>
    \/ Fault("api") /\ UNCHANGED pod
    \/ /\ Fault("api")
       /\ ~Exists(n)
       /\ pod' = [pod EXCEPT ![n] = Pod("Pending")]

\* The watch of _wait_placed shows Running.
WatchSeesRunning(n) ==
    /\ Up(n)
    /\ UNCHANGED <<pod, faults>>

\* The watch shows PodScheduled=False, reason Unschedulable.
WatchSeesUnschedulable(n) ==
    /\ pod[n].phase = "Pending"
    /\ Fault("noroom")
    /\ UNCHANGED pod

\* The watch shows Failed or an image pull error, breaks, or runs into
\* startup_timeout_s; the last is what happens when the pod is gone.
WatchRaises(n) ==
    \/ Fault("startup") /\ UNCHANGED pod
    \/ /\ pod[n].phase \notin {"Pending", "Running"}
       /\ UNCHANGED <<pod, faults>>

----------------------------------------------------------------------------
(* What the cluster does by itself. *)

\* The pod is scheduled and its container starts.
PodStarts(n) ==
    /\ pod[n].phase = "Pending"
    /\ pod' = [pod EXCEPT ![n].phase = "Running"]
    /\ UNCHANGED faults

\* A pod that outlived the 60 s poll is gone at last.
PodVanishes(n) ==
    /\ pod[n].phase = "Terminating"
    /\ pod' = [pod EXCEPT ![n] = Pod("Absent")]
    /\ UNCHANGED faults

\* The idle watchdog (PID 1 of the worker) ends the container: it has seen no
\* process but its own for idle_shutdown_s.  restartPolicy is Never, so the pod
\* completes and stays listed.
WatchdogExits(n) ==
    /\ IdleShutdown
    /\ Up(n)
    /\ ~pod[n].live
    /\ pod' = [pod EXCEPT ![n] = Pod("Succeeded")]
    /\ UNCHANGED faults

============================================================================
