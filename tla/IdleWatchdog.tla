------------------------------ MODULE IdleWatchdog ------------------------------
(****************************************************************************)
(* The idle watchdog of _pod.py, PID 1 of a worker: it samples /proc and    *)
(* exits when no process but its own has been seen for idle_shutdown_s.     *)
(*                                                                          *)
(* Time is counted in ticks.  What runs in the worker is one bit, active;   *)
(* born and used are history: when the activity of now began, and when some *)
(* process was last running, whether the watchdog saw it or not.            *)
(****************************************************************************)
EXTENDS Integers

CONSTANTS
    Second,     \* ticks in a second
    Ttl,        \* config.idle_shutdown_s, in ticks
    Lag,        \* how late time.sleep may return: the container's CPU is throttled
    MaxTime     \* bound of the clock

\* validate() wants idle_shutdown_s > 0.  A quarter of it is a whole number of
\* ticks, or too small to matter.
ASSUME WatchdogAssumption ==
    /\ Second \in Nat \ {0}
    /\ Ttl \in Nat \ {0}
    /\ Ttl % 4 = 0 \/ Ttl < 4 * Second
    /\ Lag \in Nat
    /\ MaxTime \in Nat

\* _worker_command: max(1.0, min(30.0, idle_shutdown_s / 4)).
Quarter == Ttl \div 4
Capped  == IF Quarter < 30 * Second THEN Quarter ELSE 30 * Second
Poll    == IF Capped < Second THEN Second ELSE Capped

VARIABLES
    now,       \* time.monotonic()
    pc,        \* the loop: "look" at /proc, "decide", "sleep", or "exited"
    seen,      \* its local active
    last,      \* its local last
    wake,      \* when its sleep is over
    active,    \* a process other than PID 1 is running
    born, used,
    long       \* the end of the last activity that went on for more than a Poll

vars == <<now, pc, seen, last, wake, active, born, used, long>>
work == <<active, born, used, long>>

TypeOK ==
    /\ now \in 0..MaxTime
    /\ pc \in {"look", "decide", "sleep", "exited"}
    /\ seen \in BOOLEAN
    /\ last \in 0..now
    /\ wake \in 0..(MaxTime + Poll)
    /\ active \in BOOLEAN
    /\ born \in 0..now
    /\ used \in 0..now
    /\ long \in 0..now

Init ==
    /\ now = 0 /\ last = 0 /\ wake = 0 /\ born = 0 /\ used = 0 /\ long = 0
    /\ pc = "look"
    /\ seen = FALSE /\ active = FALSE

Alive == pc # "exited"

\* os.listdir('/proc')
Look ==
    /\ pc = "look"
    /\ seen' = active
    /\ pc' = "decide"
    /\ UNCHANGED <<now, last, wake, work>>

Sleep == pc' = "sleep" /\ wake' = now + Poll

\* Mutated forms: the timer starts after the sleep; it is not reset; it is reset
\* whatever was seen.
ResetAhead == Sleep /\ last' = now + Poll
ResetNever == Sleep /\ UNCHANGED last
WaitAnew   == Sleep /\ last' = now

Reset == Sleep /\ last' = now
Wait  == Sleep /\ UNCHANGED last

\* The container stops: whatever has started since the look ends with it.
Exit ==
    /\ pc' = "exited"
    /\ active' = FALSE
    /\ UNCHANGED <<last, wake>>

Decide ==
    /\ pc = "decide"
    /\ \/ seen /\ Reset /\ UNCHANGED active
       \/ ~seen /\ now - last < Ttl /\ Wait /\ UNCHANGED active
       \/ ~seen /\ now - last >= Ttl /\ Exit
    /\ UNCHANGED <<now, seen, born, used, long>>

Wake ==
    /\ pc = "sleep"
    /\ now >= wake
    /\ pc' = "look"
    /\ UNCHANGED <<now, seen, last, wake, work>>

\* Time passes while the watchdog sleeps, and no longer than Lag over its sleep.
Tick ==
    /\ pc = "sleep"
    /\ now < wake + Lag
    /\ now < MaxTime
    /\ now' = now + 1
    /\ used' = IF active THEN now' ELSE used
    /\ UNCHANGED <<pc, seen, last, wake, active, born, long>>

\* The first process of an exec starts in the worker; the last one ends.
RunStarts ==
    /\ Alive /\ ~active
    /\ active' = TRUE
    /\ born' = now
    /\ used' = now
    /\ UNCHANGED <<now, pc, seen, last, wake, long>>

RunEnds ==
    /\ active
    /\ active' = FALSE
    /\ long' = IF now - born > Poll + Lag THEN now ELSE long
    /\ UNCHANGED <<now, pc, seen, last, wake, born, used>>

Next == Look \/ Decide \/ Wake \/ Tick \/ RunStarts \/ RunEnds

Spec == Init /\ [][Next]_vars

----------------------------------------------------------------------------
\* The backstop against leaked workers (_pod.py:5-9): a worker nothing runs in
\* is gone after idle_shutdown_s and one poll, however its last runs fell
\* between the samples.  src/README.md:504 lets the watchdog cover "everything"; a
\* process that never ends keeps its worker, with or without a controller.
IdleWorkerEnds == Alive => now - used < Ttl + Poll + Lag

\* A run of more than a poll is seen by a sample: it is not going on when the
\* worker ends, nor did it end less than idle_shutdown_s, but for a poll, before.
SeenRunsCount ==
    [][pc' = "exited" => /\ active => now - born <= Poll + Lag
                         /\ long > 0 => now - long >= Ttl - Poll - Lag]_vars

\* "exits, letting the pod stop, if no run touches it for this many seconds"
\* (config.py:143-145).  A poll and its lag are conceded, as to a run that was
\* sampled, and a run that starts as the worker ends is let alone.
EndsOnlyIdle ==
    [][pc' = "exited" /\ used < now => now - used >= Ttl - Poll - Lag]_vars

============================================================================
