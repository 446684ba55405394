--------------------------- MODULE IdleWatchdogProofs ---------------------------
(* What the idle watchdog guarantees for every idle_shutdown_s, every length of *)
(* a second in ticks and every lateness of its sleep.                           *)
EXTENDS IdleWatchdog, TLAPS

\* The poll is at least a second, whatever a quarter of idle_shutdown_s is.
LEMMA PollNat == Poll \in Nat /\ Poll > 0
  <1>1. Quarter \in Nat
    BY WatchdogAssumption DEF Quarter
  <1> QED BY <1>1, WatchdogAssumption DEF Poll, Capped

\* last is the time of a sample that saw a process, so no later than used; the
\* sleep that follows a sample is one the timer allowed.
TimerInv ==
    /\ last <= used
    /\ active => used = now
    /\ pc = "decide" /\ seen => used = now
    /\ Alive => now < last + Ttl + Poll + Lag
    /\ pc = "sleep" => /\ wake < last + Ttl + Poll
                      /\ wake - Poll <= now /\ now <= wake + Lag

\* A run going on is younger than a poll or was seen less than a poll ago.
SampleInv ==
    /\ active /\ Alive => born >= now - Poll - Lag \/ last >= now - Poll - Lag
    /\ active /\ pc = "sleep" => born >= wake - Poll \/ last >= wake - Poll
    /\ active /\ pc = "decide" => seen \/ born = now
    /\ long > 0 => last >= long - Poll - Lag
    /\ pc = "exited" => ~active

Inv == TypeOK /\ TimerInv /\ SampleInv

\* A fresh worker.
LEMMA InitInv == Init => Inv
  <1> SUFFICES ASSUME Init PROVE Inv
    OBVIOUS
  <1> USE PollNat, WatchdogAssumption DEF Init, Alive
  <1>1. TypeOK
    <2>1. 0 \in 0..MaxTime /\ 0 \in 0..0 /\ 0 \in 0..(MaxTime + Poll)
      OBVIOUS
    <2> QED BY <2>1 DEF TypeOK
  <1>2. TimerInv
    BY DEF TimerInv
  <1>3. SampleInv
    BY DEF SampleInv
  <1> QED BY <1>1, <1>2, <1>3 DEF Inv

\* Each step of the watchdog, of the clock and of the runs keeps Inv.
LEMMA NextInv == Inv /\ [Next]_vars => Inv'
  <1> SUFFICES ASSUME Inv, [Next]_vars PROVE Inv'
    OBVIOUS
  <1> USE PollNat, WatchdogAssumption DEF Inv, TypeOK, TimerInv, SampleInv, Alive, work
  <1>1. CASE Look
    BY <1>1 DEF Look
  <1>2. CASE Decide
    <2>1. CASE seen /\ Reset /\ UNCHANGED active
      BY <1>2, <2>1 DEF Decide, Reset, Sleep
    <2>2. CASE ~seen /\ now - last < Ttl /\ Wait /\ UNCHANGED active
      BY <1>2, <2>2 DEF Decide, Wait, Sleep
    <2>3. CASE ~seen /\ now - last >= Ttl /\ Exit
      BY <1>2, <2>3 DEF Decide, Exit
    <2> QED BY <1>2, <2>1, <2>2, <2>3 DEF Decide
  <1>3. CASE Wake
    BY <1>3 DEF Wake
  <1>4. CASE Tick
    BY <1>4 DEF Tick
  <1>5. CASE RunStarts
    <2>1. TypeOK'
      BY <1>5 DEF RunStarts
    <2>2. TimerInv'
      BY <1>5 DEF RunStarts
    <2>3. SampleInv'
      BY <1>5 DEF RunStarts
    <2> QED BY <2>1, <2>2, <2>3
  <1>6. CASE RunEnds
    <2>1. TypeOK'
      <3>1. long' \in 0..now
        BY <1>6 DEF RunEnds
      <3> QED BY <1>6, <3>1 DEF RunEnds
    <2>2. TimerInv'
      BY <1>6 DEF RunEnds
    <2>3. SampleInv'
      <3>1. CASE now - born > Poll + Lag
        BY <1>6, <3>1 DEF RunEnds
      <3>2. CASE ~(now - born > Poll + Lag)
        BY <1>6, <3>2 DEF RunEnds
      <3> QED BY <3>1, <3>2
    <2> QED BY <2>1, <2>2, <2>3
  <1>7. CASE UNCHANGED vars
    BY <1>7 DEF vars
  <1> QED BY <1>1, <1>2, <1>3, <1>4, <1>5, <1>6, <1>7 DEF Next

\* Every variable of the watchdog has its type: last, born, used and long are times
\* that have passed, and wake is at most one poll away.
THEOREM WatchdogTypesCorrect == Spec => []TypeOK
  <1>1. Inv => TypeOK
    BY DEF Inv
  <1> QED BY InitInv, NextInv, <1>1, PTL DEF Spec

\* A worker nothing runs in ends after idle_shutdown_s and one poll, whatever
\* became of the process that controls it.
THEOREM IdleWorkersEnd == Spec => []IdleWorkerEnds
  <1>1. Inv => IdleWorkerEnds
    BY PollNat, WatchdogAssumption DEF Inv, TypeOK, TimerInv, IdleWorkerEnds
  <1> QED BY InitInv, NextInv, <1>1, PTL DEF Spec

\* No run longer than a poll goes unseen.
THEOREM LongRunsAreSeen == Spec => SeenRunsCount
  <1> DEFINE Counts == pc' = "exited" => /\ active => now - born <= Poll + Lag
                                         /\ long > 0 => now - long >= Ttl - Poll - Lag
  <1>1. Inv /\ [Next]_vars => [Counts]_vars
    <2> SUFFICES ASSUME Inv, Next, pc' = "exited", vars' # vars
                 PROVE  Counts
      BY DEF vars
    <2>1. Decide /\ ~seen /\ now - last >= Ttl
      BY DEF Next, Look, Decide, Reset, Wait, Sleep, Wake, Tick, RunStarts, RunEnds, Inv,
         SampleInv, Alive
    <2> QED BY <2>1, PollNat, WatchdogAssumption DEF Decide, Inv, TypeOK, SampleInv
  <1> QED BY <1>1, InitInv, NextInv, PTL DEF Spec, SeenRunsCount

============================================================================
