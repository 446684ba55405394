----------------------------- MODULE MCSandboxPool -----------------------------
(* Instances of SandboxPool for TLC. *)
EXTENDS PoolProperties, TLC

\* Request threads are interchangeable; used in runs without liveness only.
CallerSymmetry == Permutations(Callers)

============================================================================
