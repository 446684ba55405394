------------------------------ MODULE WorkerLease ------------------------------
(****************************************************************************)
(* What SandboxPool promises its callers, with nothing of how it does it:   *)
(* a worker on offer is leased to one caller at a time and carries no trace *)
(* of an earlier run.  (runner.py:675-676: the pool only ever hands out     *)
(* clean workspaces; runner.py:213-216: the worker is leased exclusively.)  *)
(****************************************************************************)
CONSTANTS
    Callers,   \* who may lease
    Workers,   \* what may be leased
    Nobody     \* a caller's lease when it has none

VARIABLES
    lessee,    \* the worker each caller holds
    offered,   \* the workers on offer
    tainted    \* the workers with a trace of a run: files or a process

vars == <<lessee, offered, tainted>>

Init ==
    /\ lessee = [c \in Callers |-> Nobody]
    /\ offered = {}
    /\ tainted = {}

Leased(w) == \E c \in Callers : lessee[c] = w

\* A caller gets a clean worker that nobody else has.
Acquire(c, w) ==
    /\ lessee[c] = Nobody
    /\ w \in offered \ tainted
    /\ ~Leased(w)
    /\ lessee' = [lessee EXCEPT ![c] = w]
    /\ offered' = offered \ {w}
    /\ UNCHANGED tainted

\* Only the lessee's code leaves traces.
Use(c) ==
    /\ lessee[c] # Nobody
    /\ tainted' = tainted \cup {lessee[c]}
    /\ UNCHANGED <<lessee, offered>>

\* What becomes of the worker is the pool's business.
GiveBack(c) ==
    /\ lessee[c] # Nobody
    /\ lessee' = [lessee EXCEPT ![c] = Nobody]
    /\ UNCHANGED <<offered, tainted>>

\* A worker comes on offer without a trace of a run.
Offer(w) ==
    /\ ~Leased(w)
    /\ offered' = offered \cup {w}
    /\ tainted' = tainted \ {w}
    /\ UNCHANGED lessee

\* Traces go with the pod, when it is deleted or ends.
Erase(w) ==
    /\ tainted' = tainted \ {w}
    /\ UNCHANGED <<lessee, offered>>

Withdraw(w) ==
    /\ offered' = offered \ {w}
    /\ UNCHANGED <<lessee, tainted>>

\* The controller dies: no leases, no offers; the traces stay in the pods.
Halt ==
    /\ lessee' = [c \in Callers |-> Nobody]
    /\ offered' = {}
    /\ UNCHANGED tainted

Next ==
    \/ \E c \in Callers : Use(c) \/ GiveBack(c) \/ \E w \in Workers : Acquire(c, w)
    \/ \E w \in Workers : Offer(w) \/ Erase(w) \/ Withdraw(w)
    \/ Halt

Spec == Init /\ [][Next]_vars

============================================================================
