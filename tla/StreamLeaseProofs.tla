----------------------------- MODULE StreamLeaseProofs -----------------------------
(****************************************************************************)
(* Streams and sessions share the workers as WorkerLease says, for every    *)
(* number of workers and streams: under HonestUse, and with transports that *)
(* do not close without a status.                                           *)
(*                                                                          *)
(* The core of the argument is Clean: a process still running in a worker   *)
(* that is not gone is that of the exec of the stream now in the worker,    *)
(* which ends with the exec, with the flag that retires the worker, or in   *)
(* the caller's hands.                                                      *)
(****************************************************************************)
EXTENDS SandboxStreamProofs

\* What a clean handout needs.  The code sees to the first, by default; the others
\* are of the runs and of the callers, and it does not.
HonestUse ==
    /\ FreshWorkdir               \* every released worker is wiped (runner.py:682-684)
    /\ "sealed" \notin Lapses     \* no run leaves what the cleaner cannot remove (83-88)
    /\ "child" \notin Lapses      \* no process is left when a run ends well
    /\ "collect" \notin Lapses    \* no collector outlives its timeout (792-793)
    /\ Uninterrupted              \* no exception passes `except Exception` (1245-1252)
    /\ EnteredOnce                \* a stream is entered once
    /\ "keep" \notin Lapses       \* and not left while its iterator is suspended,
    /\ "outlive" \notin Lapses    \* a session's not driven after the session

Busy == {"entering", "staging", "inside"}

\* The stream's side: a stream of the pool has a worker of its own while it is
\* entered, one of the session that of the session.
StreamHolds ==
    /\ stream.life \notin Busy => stream.worker = None
    /\ stream.life \in Busy /\ stream.owner = "pool" =>
          at[stream.worker] = "leased" /\ stream.worker # ses.worker
    /\ stream.owner = "session" =>
          /\ ses.phase \in {"open", "over"} /\ stream.bound = ses.home
          /\ stream.life \in Busy => ses.phase = "open" /\ stream.worker = ses.home

\* The session's side: it has its worker until it retires it.
SessionHolds ==
    /\ ses.worker # None =>
          at[ses.worker] = "leased" /\ ses.home = ses.worker /\ ses.phase \in {"entering", "open"}
    /\ ses.phase \in {"entering", "open"} =>
          ses.home # None /\ (ses.worker = None => at[ses.home] = "gone")
    /\ ses.phase = "entering" => ses.worker # None

Clean ==
    /\ \A w \in Workers : at[w] = "free" => w \notin dirty
    /\ \A w \in Workers : at[w] # "gone" => w \notin left
    /\ stream.life \in {"made", "entering"} => on = None
    /\ proc = "running" /\ on # None /\ at[on] # "gone" =>
          /\ stream.worker = on /\ stream.life \in {"staging", "inside"}
          /\ stream.life = "inside" =>
                stream.gen = "running" \/ (stream.gen = "over" /\ stream.retire)

\* Only the exec of a run yields, so not while a stream is staged.
Yields ==
    /\ pc \in Yield => job = "exec"
    /\ job = "exec" => stream.gen # "none"

LeaseInv == TellInv /\ Once /\ Placed /\ Yields /\ StreamHolds /\ SessionHolds /\ Clean

\* The types the steps below rest on.
LEMMA Types ==
    ASSUME LeaseInv
    PROVE  /\ at \in [Workers -> Places] /\ dirty \subseteq Workers /\ left \subseteq Workers
           /\ on \in Workers \cup {None} /\ stream \in Streams /\ ses \in Sesss
           /\ None \notin Workers
           /\ stream.owner \in {"pool", "session"} /\ stream.retire \in BOOLEAN
           /\ stream.life \in Lives /\ stream.worker \in Workers \cup {None}
           /\ stream.bound \in Workers \cup {None}
           /\ ses.worker \in Workers \cup {None} /\ ses.home \in Workers \cup {None}
           /\ stream.life \in Busy => stream.worker \in Workers
BY StreamAssumption DEF LeaseInv, TellInv, BaseInv, LeaseTypeOK, Streams, Sesss, Owners, Held, Busy

----------------------------------------------------------------------------
(* The invariant. *)

\* What _finish does, by owner.
LEMMA FinishCases ==
    ASSUME HonestUse, LeaseInv, stream.life \in Busy, NEW r \in BOOLEAN, Finish(r)
    PROVE  /\ stream'.life = "out" /\ stream'.worker = None /\ stream'.retire = r
           /\ UNCHANGED <<stream.owner, stream.bound, stream.gen>>
           /\ \/ /\ stream.owner = "pool" /\ ses' = ses
                 /\ \E to \in {"gone", "coming"} :
                       (r => to = "gone") /\ at' = [at EXCEPT ![stream.worker] = to]
              \/ /\ stream.owner = "session" /\ r /\ RetireNow
                 /\ ses'.worker = None /\ UNCHANGED <<ses.phase, ses.home>>
              \/ stream.owner = "session" /\ ~r /\ UNCHANGED <<at, ses>>
<1>1. ~stream.finished /\ stream.worker \in Workers /\ stream.worker # None
  BY Types DEF LeaseInv, Once, Busy
<1>2. stream' = [stream EXCEPT !.life = "out", !.retire = r, !.finished = TRUE, !.worker = None]
  BY <1>1 DEF Finish
<1>3. /\ stream'.life = "out" /\ stream'.worker = None /\ stream'.retire = r
      /\ UNCHANGED <<stream.owner, stream.bound, stream.gen>>
  BY <1>2, Types DEF Streams
<1>4. CASE stream.owner = "pool"
  <2>1. Releases(stream.worker, r, TRUE) /\ ses' = ses
    BY <1>1, <1>4 DEF Finish, HonestUse
  <2> QED BY <1>3, <1>4, <2>1 DEF Releases
<1>5. CASE stream.owner = "session"
  <2>1. (r /\ RetireNow) \/ (~r /\ UNCHANGED <<at, ses>>)
    BY <1>1, <1>5 DEF Finish
  <2>2. RetireNow => ses'.worker = None /\ UNCHANGED <<ses.phase, ses.home>>
    BY Types DEF RetireNow, Sesss
  <2> QED BY <1>3, <1>5, <2>1, <2>2
<1> QED BY <1>4, <1>5, Types

\* _finish of an entered stream, when a process left running is a reason to retire.
LEMMA FinishHolds ==
    ASSUME HonestUse, LeaseInv, stream.life \in Busy, NEW r \in BOOLEAN, Finish(r),
           UNCHANGED <<dirty, left, on, execVars>>,
           proc = "running" /\ on # None /\ at[on] # "gone" => r
    PROVE  StreamHolds' /\ SessionHolds' /\ Clean'
<1> USE DEF LeaseInv
<1>0. UNCHANGED proc
  BY DEF execVars
<1>1. /\ stream'.life = "out" /\ stream'.worker = None
      /\ UNCHANGED <<stream.owner, stream.bound>>
  BY FinishCases
<1>2. CASE stream.owner = "pool"
  <2>1. PICK to \in {"gone", "coming"} :
           (r => to = "gone") /\ at' = [at EXCEPT ![stream.worker] = to] /\ ses' = ses
    BY <1>2, FinishCases
  <2>2. /\ at[stream.worker] = "leased" /\ stream.worker # ses.worker /\ stream.worker \in Workers
        /\ \A w \in Workers : at'[w] = IF w = stream.worker THEN to ELSE at[w]
    BY <1>2, <2>1, Types DEF StreamHolds
  <2>3. StreamHolds'
    BY <1>1, <1>2, <2>1 DEF StreamHolds, Busy
  <2>4. SessionHolds'
    BY <2>1, <2>2, Types DEF SessionHolds
  <2>5. Clean'
    <3>1. \A w \in Workers : at'[w] = "free" => at[w] = "free"
      BY <2>1, <2>2
    <3>2. \A w \in Workers : at'[w] # "gone" => at[w] # "gone"
      BY <2>2
    <3>3. ~(proc = "running" /\ on # None /\ at'[on] # "gone")
      BY <2>1, <2>2, <3>2, Types DEF Clean
    <3> QED BY <1>0, <1>1, <3>1, <3>2, <3>3 DEF Clean
  <2> QED BY <2>3, <2>4, <2>5
<1>3. CASE stream.owner = "session" /\ RetireNow
  <2>1. /\ ses'.worker = None /\ UNCHANGED <<ses.phase, ses.home>>
        /\ at' = IF ses.worker = None THEN at ELSE [at EXCEPT ![ses.worker] = "gone"]
    BY <1>3, FinishCases, Types DEF RetireNow, Sesss
  <2>2. \A w \in Workers : at'[w] = IF w = ses.worker THEN "gone" ELSE at[w]
    BY <2>1, Types
  <2>3. StreamHolds'
    BY <1>1, <1>3, <2>1 DEF StreamHolds, Busy
  <2>4. SessionHolds'
    <3>1. ses.phase = "open" /\ ses.home \in Workers
      BY <1>3, Types DEF StreamHolds, SessionHolds
    <3>2. at'[ses.home] = "gone"
      BY <2>2, <3>1 DEF SessionHolds
    <3> QED BY <2>1, <3>1, <3>2 DEF SessionHolds
  <2>5. Clean'
    <3>1. \A w \in Workers : at'[w] = "free" => at[w] = "free"
      BY <2>2
    <3>2. \A w \in Workers : at'[w] # "gone" => at[w] # "gone" /\ w # ses.worker
      BY <2>2
    <3>3. ~(proc = "running" /\ on # None /\ at'[on] # "gone")
      <4>1. SUFFICES ASSUME proc = "running", on # None, at[on] # "gone", on # ses.worker
                     PROVE  FALSE
        BY <3>2, Types
      <4>2. on = stream.worker /\ stream.worker = ses.home /\ ses.phase = "open"
        BY <1>3, <4>1 DEF Clean, StreamHolds
      <4> QED BY <4>1, <4>2 DEF SessionHolds
    <3> QED BY <1>0, <1>1, <3>1, <3>2, <3>3 DEF Clean
  <2> QED BY <2>3, <2>4, <2>5
<1>4. CASE stream.owner = "session" /\ ~r /\ UNCHANGED <<at, ses>>
  <2>1. StreamHolds' /\ SessionHolds'
    BY <1>1, <1>4 DEF StreamHolds, SessionHolds, Busy
  <2>2. Clean'
    BY <1>0, <1>1, <1>4 DEF Clean
  <2> QED BY <2>1, <2>2
<1> QED BY <1>2, <1>3, <1>4, FinishCases

\* Orphaned workers are gone, unless the stream in them knows; before its first exec
\* and out of a with block there is none.
LEMMA OrphansGone ==
    ASSUME LeaseInv, NEW w \in Orphaned, at[w] # "gone"
    PROVE  /\ proc = "running" /\ on = w /\ stream.worker = w /\ w \in Workers
           /\ stream.life \in {"staging", "inside"}
           /\ stream.life = "inside" => stream.gen # "none"
BY Types DEF LeaseInv, Clean, Orphaned

\* An exec that a stream begins on its worker.
LEMMA StartsFields ==
    ASSUME LeaseInv, NEW j \in {"upload", "exec"},
           \/ stream.life = "entering"
           \/ stream.life = "inside" /\ stream.gen = "none",
           StartsOn(stream.worker, j)
    PROVE  /\ on' = stream.worker /\ stream.worker \in Workers
           /\ \A w \in Workers : at[w] # "gone" => w \notin left'
           /\ dirty' \in {dirty, dirty \cup {stream.worker}}
           /\ at[stream.worker] # "free"
<1>1. stream.worker \in Workers /\ stream.life \in Busy
  BY Types DEF Busy
<1>2. at[stream.worker] # "free"
  <2>1. CASE stream.owner = "pool"
    BY <1>1, <2>1 DEF LeaseInv, StreamHolds
  <2>2. CASE stream.owner = "session"
    <3>1. stream.worker = ses.home /\ ses.phase = "open"
      BY <1>1, <2>2 DEF LeaseInv, StreamHolds
    <3> QED BY <1>1, <3>1, Types DEF LeaseInv, SessionHolds
  <2> QED BY <2>1, <2>2, Types
<1>3. \A w \in Workers : at[w] # "gone" => w \notin Orphaned
  BY OrphansGone
<1> QED BY <1>1, <1>2, <1>3 DEF StartsOn, RunsOn, FailsOn

\* The steps of the stream.
LEMMA StreamHoldsOn ==
    ASSUME LeaseInv, HonestUse, HonestEndings,
           \/ MakePoolStream \/ MakeSessionStream \/ Enter \/ Entering
           \/ Iterate \/ Complete \/ Leave
    PROVE  StreamHolds' /\ SessionHolds' /\ Clean'
<1> USE DEF LeaseInv
<1>1. ASSUME NEW o \in {"pool", "session"}, NEW b \in Workers \cup {None}, Make(o, b),
             o = "session" => ses.phase = "open" /\ b = ses.home
      PROVE  StreamHolds' /\ SessionHolds' /\ Clean'
  <2>1. /\ stream.life \in {"none", "made", "out"} /\ UNCHANGED <<at, dirty, ses>>
        /\ left' = Orphaned /\ on' = None
        /\ \E i \in BOOLEAN : stream' = NewStream(o, b, i)
    BY <1>1 DEF Make, Replaceable
  <2>2. stream'.life = "made" /\ stream'.worker = None /\ stream'.owner = o /\ stream'.bound = b
    BY <2>1 DEF NewStream
  <2>3. StreamHolds'
    BY <1>1, <2>1, <2>2 DEF StreamHolds, Busy
  <2>4. \A w \in Workers : at[w] # "gone" => w \notin Orphaned
    BY <2>1, OrphansGone
  <2> QED BY <2>1, <2>3, <2>4 DEF SessionHolds, Clean
<1>2. CASE MakePoolStream
  BY <1>1, <1>2 DEF MakePoolStream
<1>3. CASE MakeSessionStream
  <2>1. ses.worker = ses.home
    BY <1>3 DEF MakeSessionStream, SessionHolds
  <2> QED BY <1>1, <1>3, <2>1, Types DEF MakeSessionStream
<1>4. CASE Enter
  <2>1. stream.life = "made" /\ on = None /\ UNCHANGED <<dirty, left, on, ses, proc>>
    BY <1>4 DEF Enter, MayEnter, Clean, execVars, HonestUse, EnteredOnce
  <2>2. CASE stream.owner = "pool"
    <3>1. PICK u \in Workers :
             Leases(u) /\ stream' = [stream EXCEPT !.life = "entering", !.worker = u]
      BY <1>4, <2>2 DEF Enter
    <3>2. stream'.life = "entering" /\ stream'.worker = u /\ stream'.owner = "pool"
      BY <2>2, <3>1, Types DEF Streams
    <3>3. at[u] = "free" /\ \A w \in Workers : at'[w] = IF w = u THEN "leased" ELSE at[w]
      BY <3>1, Types DEF Leases
    <3>4. StreamHolds'
      <4>1. u # ses.worker
        BY <3>3, Types DEF SessionHolds
      <4> QED BY <2>1, <3>1, <3>2, <3>3, <4>1 DEF StreamHolds, Busy
    <3>5. SessionHolds'
      BY <2>1, <3>3, Types DEF SessionHolds
    <3>6. Clean'
      BY <2>1, <3>2, <3>3 DEF Clean
    <3> QED BY <3>4, <3>5, <3>6
  <2>3. CASE stream.owner = "session"
    <3>1. /\ stream' = [stream EXCEPT !.life = "entering", !.worker = stream.bound]
          /\ at' = at /\ ses.phase = "open"
      BY <1>4, <2>3 DEF Enter, MayEnter, HonestUse
    <3>2. /\ stream'.life = "entering" /\ stream'.worker = stream.bound
          /\ stream'.owner = "session" /\ stream'.bound = stream.bound
      BY <2>3, <3>1, Types DEF Streams
    <3>3. StreamHolds'
      BY <2>1, <2>3, <3>1, <3>2 DEF StreamHolds, Busy
    <3> QED BY <2>1, <3>1, <3>2, <3>3 DEF SessionHolds, Clean
  <2> QED BY <2>2, <2>3, Types
<1>5. ASSUME NEW l \in {"staging", "inside"}, stream' = [stream EXCEPT !.life = l]
      PROVE  /\ stream'.life = l
             /\ UNCHANGED <<stream.owner, stream.bound, stream.worker, stream.gen, stream.retire>>
  BY <1>5, Types DEF Streams
<1>6. ASSUME stream.life \in Busy, stream'.life \in Busy, UNCHANGED <<at, ses>>,
             UNCHANGED <<stream.owner, stream.bound, stream.worker>>
      PROVE  StreamHolds' /\ SessionHolds'
  BY <1>6 DEF StreamHolds, SessionHolds
<1>7. ASSUME NEW j \in {"upload", "exec"}, StartsOn(stream.worker, j), at' = at,
             \/ stream.life = "entering"
             \/ stream.life = "inside" /\ stream.gen = "none",
             stream'.worker = stream.worker,
             \/ stream'.life = "staging"
             \/ stream'.life = "inside" /\ stream'.gen = "running"
      PROVE  Clean'
  <2>1. /\ on' = stream.worker /\ stream.worker \in Workers
        /\ \A w \in Workers : at[w] # "gone" => w \notin left'
        /\ dirty' \in {dirty, dirty \cup {stream.worker}}
        /\ at[stream.worker] # "free"
    BY <1>7, StartsFields
  <2> QED BY <1>7, <2>1 DEF Clean
<1>8. CASE Stage
  <2>1. stream.life = "entering" /\ on = None
    BY <1>8 DEF Stage, Clean
  <2>2. CASE stream' = [stream EXCEPT !.life = "inside"] /\ UNCHANGED <<lease, ses, execVars>>
    BY <1>5, <1>6, <2>1, <2>2 DEF Busy, Clean, lease, execVars
  <2>3. CASE Finish(TRUE) /\ UNCHANGED <<dirty, left, on, execVars>>
    BY <2>1, <2>3, FinishHolds DEF Busy
  <2>4. CASE /\ StartsOn(stream.worker, "upload") /\ stream' = [stream EXCEPT !.life = "staging"]
             /\ UNCHANGED <<at, ses>>
    BY <1>5, <1>6, <1>7, <2>1, <2>4 DEF Busy
  <2> QED BY <1>8, <2>2, <2>3, <2>4 DEF Stage, EnterFails, Escapes, HonestUse, Uninterrupted
<1>9. CASE Staged
  <2>1. stream.life = "staging" /\ UNCHANGED <<dirty, left, on, execVars>>
    BY <1>9 DEF Staged
  <2>2. CASE outcome = "ok" /\ stream' = [stream EXCEPT !.life = "inside"] /\ UNCHANGED <<at, ses>>
    <3>1. proc # "running"
      BY <2>2 DEF TellInv, BaseInv, ExecInv, OkExited, Exited
    <3> QED BY <1>5, <1>6, <2>1, <2>2, <3>1 DEF Busy, Clean, execVars
  <2>3. CASE Finish(TRUE)
    BY <2>1, <2>3, FinishHolds DEF Busy
  <2> QED BY <1>9, <2>2, <2>3 DEF Staged, EnterFails, Escapes, HonestUse, Uninterrupted
<1>10. CASE Iterate
  <2>1. stream.life = "inside" /\ stream.gen = "none" /\ UNCHANGED <<at, ses>>
    BY <1>10 DEF Iterate, lease
  <2>2. ASSUME NEW g \in {"over", "running"}, stream' = [stream EXCEPT !.gen = g]
        PROVE  /\ stream'.gen = g /\ stream'.life = "inside" /\ stream'.worker = stream.worker
               /\ UNCHANGED <<stream.owner, stream.bound, stream.retire>>
    BY <2>1, <2>2, Types DEF Streams
  <2>3. CASE stream' = [stream EXCEPT !.gen = "over"] /\ UNCHANGED <<lease, execVars>>
    BY <1>6, <2>1, <2>2, <2>3 DEF Busy, Clean, lease, execVars
  <2>4. CASE stream' = [stream EXCEPT !.gen = "running"] /\ StartsOn(stream.worker, "exec")
    BY <1>6, <1>7, <2>1, <2>2, <2>4 DEF Busy
  <2> QED BY <1>10, <2>3, <2>4 DEF Iterate
<1>11. CASE Complete
  <2>1. stream.gen = "running" /\ UNCHANGED <<at, dirty, left, on, ses, execVars>>
    BY <1>11 DEF Complete, Lingers, HonestUse
  <2>2. /\ stream'.gen = "over"
        /\ outcome # "code" => stream'.retire
        /\ UNCHANGED <<stream.life, stream.worker, stream.owner, stream.bound>>
    <3>1. PICK b \in BOOLEAN :
             /\ outcome # "code" => b
             /\ \/ stream' = [stream EXCEPT !.gen = "over", !.result = Result, !.retire = b]
                \/ stream' = [stream EXCEPT !.gen = "over", !.retire = b]
      BY <1>11, Types DEF Complete, Retires
    <3>2. CASE stream' = [stream EXCEPT !.gen = "over", !.result = Result, !.retire = b]
      BY <3>1, <3>2, Types DEF Streams
    <3>3. CASE stream' = [stream EXCEPT !.gen = "over", !.retire = b]
      BY <3>1, <3>3, Types DEF Streams
    <3> QED BY <3>1, <3>2, <3>3
  <2>3. outcome = "code" => proc # "running"
    BY DEF TellInv, StatusInv, Exited
  <2>4. StreamHolds' /\ SessionHolds'
    BY <2>1, <2>2 DEF StreamHolds, SessionHolds
  <2>5. Clean'
    BY <2>1, <2>2, <2>3 DEF Clean, execVars
  <2> QED BY <2>4, <2>5
<1>12. CASE Leave
  <2>1. stream.life = "inside" /\ stream.gen # "running" /\ UNCHANGED <<dirty, left, on, execVars>>
    BY <1>12 DEF Leave, HonestUse
  <2>2. PICK r \in BOOLEAN : Finish(r) /\ (stream.retire => r)
    BY <1>12, Types DEF Leave
  <2>3. proc = "running" /\ on # None /\ at[on] # "gone" => r
    BY <2>1, <2>2 DEF Clean
  <2> QED BY <2>1, <2>2, <2>3, FinishHolds DEF Busy
<1> QED BY <1>2, <1>3, <1>4, <1>8, <1>9, <1>10, <1>11, <1>12 DEF Entering

\* A worker of a session that is retired is neither free nor anybody's.
LEMMA RetireHolds ==
    ASSUME LeaseInv, ses.worker # None, ses'.worker = None, ses'.home = ses.home,
           ses'.phase \in {"open", "over"},
           ses'.phase = "over" => ~(stream.owner = "session" /\ stream.life \in Busy),
           stream.owner = "session" => ses.phase = "open",
           NEW to \in {"gone", "coming"}, at' = [at EXCEPT ![ses.worker] = to],
           ses'.phase = "open" => to = "gone",
           UNCHANGED stream
    PROVE  StreamHolds' /\ SessionHolds'
<1>1. /\ ses.worker \in Workers /\ at[ses.worker] = "leased" /\ ses.home = ses.worker
      /\ \A w \in Workers : at'[w] = IF w = ses.worker THEN to ELSE at[w]
  BY Types DEF LeaseInv, SessionHolds
<1>2. StreamHolds'
  BY <1>1, Types DEF LeaseInv, StreamHolds
<1>3. SessionHolds'
  BY <1>1, Types DEF SessionHolds
<1> QED BY <1>2, <1>3

\* The client and the generator's consumer have no hand in the process.
LEMMA ClientKeepsProcess ==
    ASSUME DeadlinePasses \/ Client \/ Resume \/ Abandon
    PROVE  UNCHANGED <<proc, job>> /\ (pc' \in Yield => pc \in Yield \/ job = "exec")
BY DEF DeadlinePasses, Client, Resume, Abandon, Pump, TimesOut, Peek, Returns, Check, UploadEnds,
       ConnectionLost, Stop, process, After, Yield

\* Every step keeps Yields.
LEMMA YieldsOn ==
    ASSUME LeaseInv, HonestUse, [Next]_streamVars
    PROVE  Yields'
<1> USE DEF LeaseInv
<1>1. ASSUME NEW w, NEW j \in {"upload", "exec"}, StartsOn(w, j)
      PROVE  job' = j /\ pc' \notin Yield
  BY <1>1 DEF StartsOn, RunsOn, FailsOn, Begin, BeginFails, Connected, Yield
<1>2. CASE MakePoolStream \/ MakeSessionStream
  BY <1>2 DEF MakePoolStream, MakeSessionStream, Make, NoExec, Connected, Yields, Yield
<1>3. ASSUME stream'.gen = stream.gen, UNCHANGED execVars PROVE Yields'
  BY <1>3 DEF Yields, execVars
<1>4. ASSUME NEW r, Finish(r) PROVE stream'.gen = stream.gen
  BY <1>4, Types DEF Finish, Streams
<1>5. CASE Enter
  <2>1. UNCHANGED execVars /\ \E w : stream' = [stream EXCEPT !.life = "entering", !.worker = w]
    BY <1>5 DEF Enter
  <2>2. stream'.gen = stream.gen
    BY <2>1, Types DEF Streams
  <2> QED BY <1>3, <2>1, <2>2
<1>6. CASE Entering
  <2>1. \/ \E r : Finish(r)
        \/ \E l \in {"inside", "staging"} : stream' = [stream EXCEPT !.life = l]
    BY <1>6 DEF Entering, Stage, Staged, EnterFails, Escapes, HonestUse, Uninterrupted
  <2>2. stream'.gen = stream.gen
    BY <1>4, <2>1, Types DEF Streams
  <2>3. UNCHANGED execVars \/ StartsOn(stream.worker, "upload")
    BY <1>6 DEF Entering, Stage, Staged, EnterFails, Escapes, HonestUse, Uninterrupted, execVars, process, channel
  <2> QED BY <1>1, <1>3, <2>2, <2>3 DEF Yields
<1>7. CASE Iterate
  <2>1. /\ UNCHANGED execVars \/ StartsOn(stream.worker, "exec")
        /\ \E g \in {"over", "running"} : stream' = [stream EXCEPT !.gen = g]
    BY <1>7 DEF Iterate
  <2>2. stream'.gen # "none"
    BY <2>1, Types DEF Streams
  <2> QED BY <1>1, <2>1, <2>2 DEF Yields, execVars
<1>8. CASE Complete
  <2>1. stream'.gen = "over" /\ UNCHANGED execVars
    BY <1>8, Types DEF Complete, Streams
  <2> QED BY <2>1 DEF Yields, execVars
<1>9. CASE Leave
  BY <1>3, <1>4, <1>9 DEF Leave
<1>10. CASE Channel \/ Consume
  <2>1. stream' = stream
    BY <1>10 DEF Channel, Consume
  <2>2. CASE Worker
    <3>1. UNCHANGED <<job, pc>>
      BY <2>2, WorkerAdds DEF TellInv, BaseInv, ExecInv, quiet
    <3> QED BY <2>1, <3>1 DEF Yields
  <2>3. CASE DeadlinePasses \/ Client \/ Resume \/ Abandon
    BY <2>1, <2>3, ClientKeepsProcess DEF Yields
  <2> QED BY <1>10, <2>2, <2>3 DEF Channel, Consume, ExecStep
<1>11. CASE \/ Sessions \/ UNCHANGED streamVars
            \/ \E w \in Workers : Wipe(w) \/ PodGoes(w)
  <2>1. stream' = stream /\ UNCHANGED execVars
    BY <1>11 DEF Sessions, SessionEnters, SessionReady, SessionCall, SessionExits,
                 Wipe, PodGoes, streamVars
  <2> QED BY <1>3, <2>1
<1> QED BY <1>2, <1>5, <1>6, <1>7, <1>8, <1>9, <1>10, <1>11 DEF Next

\* The steps of the session, of the channel and of the workers.
LEMMA OthersHoldOn ==
    ASSUME LeaseInv, HonestUse,
           \/ Sessions \/ Channel \/ Consume \/ UNCHANGED streamVars
           \/ \E w \in Workers : Wipe(w) \/ PodGoes(w)
    PROVE  StreamHolds' /\ SessionHolds' /\ Clean'
<1> USE DEF LeaseInv
<1>1. CASE SessionEnters
  <2>1. ses.phase = "new" /\ UNCHANGED <<dirty, left, on, stream, proc>>
    BY <1>1 DEF SessionEnters, execVars
  <2>2. PICK u \in Workers :
           Leases(u) /\ ses' = [phase |-> "entering", home |-> u, worker |-> u]
    BY <1>1 DEF SessionEnters
  <2>3. at[u] = "free" /\ \A w \in Workers : at'[w] = IF w = u THEN "leased" ELSE at[w]
    BY <2>2, Types DEF Leases
  <2>4. stream.owner = "pool"
    BY <2>1, Types DEF StreamHolds
  <2>5. StreamHolds'
    BY <2>1, <2>2, <2>3, <2>4, Types DEF StreamHolds
  <2>6. SessionHolds'
    BY <2>2, <2>3, Types DEF SessionHolds
  <2>7. Clean'
    BY <2>1, <2>3, Types DEF Clean
  <2> QED BY <2>5, <2>6, <2>7
<1>2. CASE SessionReady
  <2>1. ses.phase = "entering" /\ ses.worker # None /\ ses.home = ses.worker
        /\ ses.worker \in Workers /\ UNCHANGED <<left, on, stream, proc>>
        /\ stream.owner = "pool"
    BY <1>2, Types DEF SessionReady, SessionHolds, StreamHolds, execVars
  <2>2. CASE /\ ses' = [ses EXCEPT !.phase = "open"] /\ at' = at
             /\ dirty' \in {dirty \ {ses.home}, dirty \cup {ses.home}}
    <3>1. ses'.phase = "open" /\ ses'.worker = ses.worker /\ ses'.home = ses.home
      BY <2>2, Types DEF Sesss
    <3>2. StreamHolds' /\ SessionHolds'
      BY <2>1, <2>2, <3>1 DEF StreamHolds, SessionHolds
    <3>3. Clean'
      BY <2>1, <2>2 DEF Clean, SessionHolds
    <3> QED BY <3>2, <3>3
  <2>3. CASE /\ at' = [at EXCEPT ![ses.worker] = "gone"]
             /\ ses' = [ses EXCEPT !.phase = "over", !.worker = None] /\ dirty' = dirty
    <3>1. ses'.phase = "over" /\ ses'.worker = None /\ ses'.home = ses.home
      BY <2>3, Types DEF Sesss
    <3>2. StreamHolds' /\ SessionHolds'
      BY <2>1, <2>3, <3>1, RetireHolds
    <3>3. \A w \in Workers : at'[w] = IF w = ses.worker THEN "gone" ELSE at[w]
      BY <2>3, Types
    <3>4. Clean'
      BY <2>1, <2>3, <3>3, Types DEF Clean
    <3> QED BY <3>2, <3>4
  <2> QED BY <1>2, <2>2, <2>3 DEF SessionReady, HonestUse, Uninterrupted
<1>3. CASE SessionCall
  <2>1. /\ ses.phase = "open" /\ ses.worker # None /\ ses.worker \in Workers
        /\ at[ses.worker] = "leased" /\ ses.home = ses.worker
        /\ dirty' = dirty \cup {ses.worker} /\ UNCHANGED <<on, stream, proc>>
    BY <1>3, Types DEF SessionCall, SessionHolds, execVars
  <2>2. CASE UNCHANGED <<at, left, ses>>
    <3>1. StreamHolds' /\ SessionHolds'
      BY <2>1, <2>2 DEF StreamHolds, SessionHolds
    <3>2. Clean'
      BY <2>1, <2>2 DEF Clean
    <3> QED BY <3>1, <3>2
  <2>3. CASE RetireNow /\ left' \in {left, left \cup {ses.worker}}
    <3>1. at' = [at EXCEPT ![ses.worker] = "gone"] /\ ses' = [ses EXCEPT !.worker = None]
      BY <2>1, <2>3 DEF RetireNow
    <3>2. ses'.phase = "open" /\ ses'.worker = None /\ ses'.home = ses.home
      BY <2>1, <3>1, Types DEF Sesss
    <3>3. StreamHolds' /\ SessionHolds'
      BY <2>1, <3>1, <3>2, RetireHolds
    <3>4. \A w \in Workers : at'[w] = IF w = ses.worker THEN "gone" ELSE at[w]
      BY <3>1, Types
    <3>5. Clean'
      BY <2>1, <2>3, <3>4, Types DEF Clean
    <3> QED BY <3>3, <3>5
  <2> QED BY <1>3, <2>2, <2>3 DEF SessionCall, Lingers, HonestUse, Uninterrupted
<1>4. CASE SessionExits
  <2>1. /\ ses.phase = "open" /\ UNCHANGED <<dirty, left, on, stream, proc>>
        /\ ~(stream.owner = "session" /\ stream.life \in Busy)
    BY <1>4 DEF SessionExits, HonestUse, Control, TellInv, ResultInv, Yields, execVars, Busy
  <2>2. ses' = [ses EXCEPT !.phase = "over", !.worker = None]
    BY <1>4 DEF SessionExits
  <2>3. ses'.phase = "over" /\ ses'.worker = None /\ ses'.home = ses.home
    BY <2>2, Types DEF Sesss
  <2>4. CASE ses.worker = None
    <3>1. at' = at
      BY <1>4, <2>4 DEF SessionExits
    <3>2. StreamHolds'
      BY <2>1, <2>3, <2>4, <3>1 DEF StreamHolds
    <3>3. SessionHolds'
      BY <2>3 DEF SessionHolds
    <3>4. Clean'
      BY <2>1, <3>1 DEF Clean
    <3> QED BY <3>2, <3>3, <3>4
  <2>5. CASE ses.worker # None
    <3>1. PICK to \in {"gone", "coming"} : at' = [at EXCEPT ![ses.worker] = to]
      BY <1>4, <2>5 DEF SessionExits, Releases
    <3>2. StreamHolds' /\ SessionHolds'
      BY <2>1, <2>3, <2>5, <3>1, RetireHolds
    <3>3. /\ at[ses.worker] = "leased" /\ ses.worker \in Workers
          /\ \A w \in Workers : at'[w] = IF w = ses.worker THEN to ELSE at[w]
      BY <2>5, <3>1, Types DEF SessionHolds
    <3>4. Clean'
      BY <2>1, <3>3, Types DEF Clean
    <3> QED BY <3>2, <3>4
  <2> QED BY <2>4, <2>5
<1>5. CASE Channel \/ Consume
  <2>1. UNCHANGED <<at, dirty, left, on, stream, ses>>
    BY <1>5 DEF Channel, Consume, lease
  <2>2. proc' = proc \/ proc = "running"
    <3>1. CASE Worker
      BY <3>1, WorkerAdds DEF TellInv, BaseInv, ExecInv
    <3>2. CASE DeadlinePasses \/ Client \/ Resume \/ Abandon
      BY <3>2, ClientKeepsProcess
    <3> QED BY <1>5, <3>1, <3>2 DEF Channel, Consume, ExecStep
  <2> QED BY <2>1, <2>2 DEF StreamHolds, SessionHolds, Clean
<1>6. CASE UNCHANGED streamVars
  BY <1>6 DEF streamVars, lease, execVars, StreamHolds, SessionHolds, Clean
<1>7. ASSUME NEW u \in Workers, Wipe(u) \/ PodGoes(u)
      PROVE  StreamHolds' /\ SessionHolds' /\ Clean'
  <2>1. UNCHANGED <<on, stream, ses, proc>> /\ left' \subseteq left
    BY <1>7 DEF Wipe, PodGoes, execVars
  <2>2. /\ \A w \in Workers : w # u => at'[w] = at[w]
        /\ at[u] \in {"coming", "gone"} /\ at'[u] \in {"free", "gone"}
        /\ at'[u] = "free" => at[u] = "coming" /\ u \notin dirty'
        /\ dirty' \subseteq dirty
    BY <1>7, Types DEF Wipe, PodGoes, HonestUse
  <2>3. StreamHolds'
    BY <2>1, <2>2, Types DEF StreamHolds
  <2>4. SessionHolds'
    BY <2>1, <2>2, Types DEF SessionHolds
  <2>5. Clean'
    BY <2>1, <2>2, Types DEF Clean
  <2> QED BY <2>3, <2>4, <2>5
<1> QED BY <1>1, <1>2, <1>3, <1>4, <1>5, <1>6, <1>7 DEF Sessions

\* The first state, and every step.
LEMMA LeaseInvInit == Init => LeaseInv
<1> SUFFICES ASSUME Init PROVE LeaseInv
  OBVIOUS
<1>1. stream = [NewStream("pool", None, FALSE) EXCEPT !.life = "none"]
  BY DEF Init
<1>2. /\ stream.gen = "none" /\ stream.result = "none" /\ stream.owner = "pool"
      /\ stream.life = "none" /\ stream.worker = None /\ ~stream.finished
  BY <1>1 DEF NewStream
<1>3. /\ ses.phase = "new" /\ ses.worker = None /\ on = None /\ dirty = {} /\ left = {}
      /\ pc = "idle" /\ job = "none"
  BY DEF Init, ExecInit
<1>4. BaseInv /\ StatusInv
  BY InitBase, StatusInit DEF Init
<1>5. \A w \in Workers : at[w] # "leased" /\ at[w] # "free"
  BY DEF Init
<1> QED BY <1>2, <1>3, <1>4, <1>5
        DEF LeaseInv, TellInv, ResultInv, Once, Placed, Yields, Yield, StreamHolds,
            SessionHolds, Clean, Busy

\* Every step.
LEMMA LeaseInvKept ==
    ASSUME HonestUse, HonestEndings, LeaseInv, [Next]_streamVars
    PROVE  LeaseInv'
<1>1. TellInv'
  BY BaseKept, StatusKept, StreamStepsExec, ResultKept DEF HonestUse, LeaseInv, TellInv, BaseInv
<1>2. Once' /\ Placed'
  BY StreamPlaced, OthersPlaced DEF HonestUse, LeaseInv, TellInv, BaseInv, Next
<1>3. Yields'
  BY YieldsOn
<1>4. StreamHolds' /\ SessionHolds' /\ Clean'
  BY StreamHoldsOn, OthersHoldOn DEF Next
<1> QED BY <1>1, <1>2, <1>3, <1>4 DEF LeaseInv

----------------------------------------------------------------------------
(* The refinement. *)

StreamLease  == IF stream.owner = "pool" THEN stream.worker ELSE None
SessionLease == IF ses.phase \in {"entering", "open"} THEN ses.home ELSE None
Offered      == {w \in Workers : at[w] = "free"}

\* The two leases are the mapped ones.
LEMMA LesseeIs ==
    /\ Lessee = [c \in {"stream", "session"} |-> IF c = "stream" THEN StreamLease ELSE SessionLease]
    /\ Lessee' = [c \in {"stream", "session"} |-> IF c = "stream" THEN StreamLease' ELSE SessionLease']
BY DEF Lessee, StreamLease, SessionLease

\* Nobody leases a worker that is free or being wiped.
LEMMA FreeIsNobodys ==
    ASSUME LeaseInv, NEW w \in Workers, at[w] \in {"free", "coming"}
    PROVE  StreamLease # w /\ SessionLease # w
<1>1. StreamLease # w
  BY Types DEF LeaseInv, StreamHolds, StreamLease, Busy
<1>2. SessionLease # w
  BY Types DEF LeaseInv, SessionHolds, SessionLease
<1> QED BY <1>1, <1>2

\* The steps of WorkerLease, on the mapped variables.
LEMMA AbstractStutter ==
    ASSUME Lessee' = Lessee, Offered' = Offered, Tainted' = Tainted
    PROVE  [Lease!Next]_Lease!vars
BY DEF Lease!vars, Offered

\* A lease.
LEMMA AbstractAcquire ==
    ASSUME LeaseInv, NEW c \in {"stream", "session"}, NEW w \in Workers, Lessee[c] = None,
           at[w] = "free", w \notin Tainted,
           Lessee' = [Lessee EXCEPT ![c] = w], Offered' = Offered \ {w}, Tainted' = Tainted
    PROVE  [Lease!Next]_Lease!vars
<1>1. \A d \in {"stream", "session"} : Lessee[d] # w
  BY FreeIsNobodys, LesseeIs
<1>2. Lease!Acquire(c, w)
  BY <1>1 DEF Lease!Acquire, Lease!Leased, Offered
<1> QED BY <1>2 DEF Lease!Next

\* Something is run in a leased worker.
LEMMA AbstractUse ==
    ASSUME NEW c \in {"stream", "session"}, Lessee[c] # None,
           Lessee' = Lessee, Offered' = Offered, Tainted' = Tainted \cup {Lessee[c]}
    PROVE  [Lease!Next]_Lease!vars
<1>1. Lease!Use(c)
  BY DEF Lease!Use, Offered
<1> QED BY <1>1 DEF Lease!Next

\* A lease ends.
LEMMA AbstractGiveBack ==
    ASSUME NEW c \in {"stream", "session"}, Lessee[c] # None,
           Lessee' = [Lessee EXCEPT ![c] = None], Offered' = Offered, Tainted' = Tainted
    PROVE  [Lease!Next]_Lease!vars
<1>1. Lease!GiveBack(c)
  BY DEF Lease!GiveBack, Offered
<1> QED BY <1>1 DEF Lease!Next

\* A worker comes on offer.
LEMMA AbstractOffer ==
    ASSUME LeaseInv, NEW w \in Workers, at[w] = "coming",
           Lessee' = Lessee, Offered' = Offered \cup {w}, Tainted' = Tainted \ {w}
    PROVE  [Lease!Next]_Lease!vars
<1>1. \A d \in {"stream", "session"} : Lessee[d] # w
  BY FreeIsNobodys, LesseeIs
<1>2. Lease!Offer(w)
  BY <1>1 DEF Lease!Offer, Lease!Leased, Offered
<1> QED BY <1>2 DEF Lease!Next

\* The traces in a worker go.
LEMMA AbstractErase ==
    ASSUME NEW w \in Workers,
           Lessee' = Lessee, Offered' = Offered, Tainted' = Tainted \ {w}
    PROVE  [Lease!Next]_Lease!vars
<1>1. Lease!Erase(w)
  BY DEF Lease!Erase, Offered
<1> QED BY <1>1 DEF Lease!Next

----------------------------------------------------------------------------
(* Each step is mapped to one of those. *)

\* How a change of one lease changes the mapped function.
LEMMA LesseeChanges ==
    /\ Lessee["stream"] = StreamLease /\ Lessee["session"] = SessionLease
    /\ StreamLease' = StreamLease /\ SessionLease' = SessionLease => Lessee' = Lessee
    /\ SessionLease' = SessionLease => Lessee' = [Lessee EXCEPT !["stream"] = StreamLease']
    /\ StreamLease' = StreamLease => Lessee' = [Lessee EXCEPT !["session"] = SessionLease']
BY LesseeIs

\* The traces only depend on these.
LEMMA TaintedKept == UNCHANGED <<dirty, left, on, proc>> => Tainted' = Tainted
BY DEF Tainted, Orphaned

\* A place that is not free before a step nor after it is not on offer.
LEMMA OfferedKept ==
    ASSUME LeaseInv, NEW w, at[w] # "free", NEW to \in {"gone", "coming"},
           at' = [at EXCEPT ![w] = to]
    PROVE  Offered' = Offered
BY Types DEF Offered

\* The end of a stream gives the lease of a stream of the pool back.
LEMMA FinishMaps ==
    ASSUME HonestUse, LeaseInv, stream.life \in Busy, NEW r \in BOOLEAN, Finish(r),
           UNCHANGED <<dirty, left, on, execVars>>
    PROVE  [Lease!Next]_Lease!vars
<1>1. Tainted' = Tainted
  BY TaintedKept DEF execVars
<1>2. stream'.worker = None /\ stream'.owner = stream.owner
  BY FinishCases
<1>3. CASE stream.owner = "pool"
  <2>1. PICK to \in {"gone", "coming"} : at' = [at EXCEPT ![stream.worker] = to] /\ ses' = ses
    BY <1>3, FinishCases
  <2>2. stream.worker # None /\ at[stream.worker] = "leased"
    BY <1>3, Types DEF LeaseInv, StreamHolds
  <2>3. Offered' = Offered
    BY <2>1, <2>2, OfferedKept
  <2>4. /\ StreamLease = stream.worker /\ StreamLease' = None
        /\ SessionLease' = SessionLease
    BY <1>2, <1>3, <2>1 DEF StreamLease, SessionLease
  <2> QED BY <1>1, <2>2, <2>3, <2>4, LesseeChanges, AbstractGiveBack
<1>4. CASE stream.owner = "session"
  <2>1. StreamLease = None /\ StreamLease' = None
    BY <1>2, <1>4 DEF StreamLease
  <2>2. CASE UNCHANGED <<at, ses>>
    BY <1>1, <2>1, <2>2, LesseeChanges, AbstractStutter DEF SessionLease, Offered
  <2>3. CASE RetireNow
    <3>1. UNCHANGED <<ses.phase, ses.home>>
      BY <2>3, Types DEF RetireNow, Sesss
    <3>2. Offered' = Offered
      <4>1. CASE ses.worker = None
        BY <2>3, <4>1 DEF RetireNow, Offered
      <4>2. CASE ses.worker # None
        BY <2>3, <4>2, OfferedKept DEF RetireNow, LeaseInv, SessionHolds
      <4> QED BY <4>1, <4>2
    <3> QED BY <1>1, <2>1, <3>1, <3>2, LesseeChanges, AbstractStutter DEF SessionLease
  <2> QED BY <1>4, <2>2, <2>3, FinishCases
<1> QED BY <1>3, <1>4, Types

\* An exec on the worker of a stream is a use of the lease of the stream or of its
\* session.
LEMMA StartsMaps ==
    ASSUME LeaseInv, stream.life \in {"entering", "inside"}, NEW j, StartsOn(stream.worker, j),
           UNCHANGED <<at, ses>>, UNCHANGED <<stream.owner, stream.worker>>
    PROVE  [Lease!Next]_Lease!vars
<1>1. stream.worker \in Workers /\ stream.worker # None
  BY Types DEF Busy
<1>2. Lessee' = Lessee /\ Offered' = Offered
  BY LesseeChanges DEF StreamLease, SessionLease, Offered
<1>3. PICK c \in {"stream", "session"} : Lessee[c] = stream.worker
  <2>1. CASE stream.owner = "pool"
    BY <2>1, LesseeChanges DEF StreamLease
  <2>2. CASE stream.owner = "session"
    <3>1. SessionLease = stream.worker
      BY <2>2 DEF LeaseInv, StreamHolds, SessionLease, Busy
    <3> QED BY <3>1, LesseeChanges
  <2> QED BY <2>1, <2>2, Types
<1>4. CASE RunsOn(stream.worker, j)
  <2>1. /\ on' = stream.worker /\ proc' = "running"
        /\ left' = Orphaned /\ dirty' = dirty \cup {stream.worker}
    BY <1>4 DEF RunsOn, Begin
  <2>2. Tainted' = Tainted \cup {stream.worker}
    BY <1>1, <2>1 DEF Tainted, Orphaned
  <2> QED BY <1>1, <1>2, <1>3, <2>2, AbstractUse
<1>5. CASE FailsOn(stream.worker, j)
  <2>1. proc' = "none" /\ left' = Orphaned /\ dirty' = dirty
    BY <1>5 DEF FailsOn, BeginFails
  <2>2. Tainted' = Tainted
    BY <2>1 DEF Tainted, Orphaned
  <2> QED BY <1>2, <2>2, AbstractStutter
<1> QED BY <1>4, <1>5 DEF StartsOn

\* The steps of the stream.
LEMMA StreamMaps ==
    ASSUME LeaseInv, HonestUse,
           \/ MakePoolStream \/ MakeSessionStream \/ Enter \/ Entering
           \/ Iterate \/ Complete \/ Leave
    PROVE  [Lease!Next]_Lease!vars
<1>1. CASE MakePoolStream \/ MakeSessionStream
  <2>1. /\ stream.life \in {"none", "made", "out"} /\ UNCHANGED <<at, dirty, ses>>
        /\ left' = Orphaned /\ on' = None /\ \E o, b, i : stream' = NewStream(o, b, i)
    BY <1>1 DEF MakePoolStream, MakeSessionStream, Make, Replaceable
  <2>2. stream.worker = None /\ stream'.worker = None
    BY <2>1 DEF NewStream, LeaseInv, StreamHolds, Busy
  <2>3. StreamLease' = StreamLease /\ SessionLease' = SessionLease /\ Offered' = Offered
    BY <2>1, <2>2 DEF StreamLease, SessionLease, Offered
  <2>4. Tainted' = Tainted
    BY <2>1, Types DEF Tainted, Orphaned
  <2> QED BY <2>3, <2>4, LesseeChanges, AbstractStutter
<1>2. CASE Enter
  <2>1. /\ stream.life = "made" /\ stream.worker = None
        /\ UNCHANGED <<dirty, left, on, ses, proc>>
    BY <1>2 DEF HonestUse, EnteredOnce, Enter, MayEnter, LeaseInv, StreamHolds, Busy, execVars
  <2>2. Tainted' = Tainted /\ SessionLease' = SessionLease
    BY <2>1, TaintedKept DEF SessionLease
  <2>3. CASE stream.owner = "pool"
    <3>1. PICK u \in Workers :
             Leases(u) /\ stream' = [stream EXCEPT !.life = "entering", !.worker = u]
      BY <1>2, <2>3 DEF Enter
    <3>2. StreamLease' = u /\ StreamLease = None
      BY <2>1, <2>3, <3>1, Types DEF Streams, StreamLease
    <3>3. at[u] = "free" /\ Offered' = Offered \ {u}
      BY <3>1, Types DEF Leases, Offered
    <3>4. u \notin Tainted
      <4>1. u \notin dirty
        BY <3>3 DEF LeaseInv, Clean
      <4>2. u \notin Orphaned
        BY <2>1, <3>3, OrphansGone
      <4> QED BY <4>1, <4>2 DEF Tainted
    <3> QED BY <2>2, <3>2, <3>3, <3>4, LesseeChanges, AbstractAcquire
  <2>4. CASE stream.owner = "session"
    <3>1. stream'.owner = "session" /\ at' = at
      BY <1>2, <2>4, Types DEF Enter, Streams
    <3> QED BY <2>2, <2>4, <3>1, LesseeChanges, AbstractStutter DEF StreamLease, Offered
  <2> QED BY <2>3, <2>4, Types
<1>3. ASSUME UNCHANGED <<stream.owner, stream.worker>>, UNCHANGED <<lease, ses, execVars>>
      PROVE  [Lease!Next]_Lease!vars
  <2>1. UNCHANGED <<at, ses, dirty, left, on, proc>>
    BY <1>3 DEF lease, execVars
  <2>2. StreamLease' = StreamLease /\ SessionLease' = SessionLease /\ Offered' = Offered
    BY <1>3, <2>1 DEF StreamLease, SessionLease, Offered
  <2> QED BY <2>1, <2>2, TaintedKept, LesseeChanges, AbstractStutter
<1>4. ASSUME NEW l, stream' = [stream EXCEPT !.life = l]
      PROVE  UNCHANGED <<stream.owner, stream.worker>>
  BY <1>4, Types DEF Streams
<1>5. CASE Stage
  <2>1. stream.life = "entering"
    BY <1>5 DEF Stage
  <2>2. CASE stream' = [stream EXCEPT !.life = "inside"] /\ UNCHANGED <<lease, ses, execVars>>
    BY <1>3, <1>4, <2>2
  <2>3. CASE Finish(TRUE) /\ UNCHANGED <<dirty, left, on, execVars>>
    BY <2>1, <2>3, FinishMaps DEF Busy
  <2>4. CASE /\ StartsOn(stream.worker, "upload") /\ stream' = [stream EXCEPT !.life = "staging"]
             /\ UNCHANGED <<at, ses>>
    BY <1>4, <2>1, <2>4, StartsMaps
  <2> QED BY <1>5, <2>2, <2>3, <2>4 DEF Stage, EnterFails, Escapes, HonestUse, Uninterrupted
<1>6. CASE Staged
  <2>1. stream.life = "staging" /\ UNCHANGED <<dirty, left, on, execVars>>
    BY <1>6 DEF Staged
  <2>2. CASE stream' = [stream EXCEPT !.life = "inside"] /\ UNCHANGED <<at, ses>>
    BY <1>3, <1>4, <2>1, <2>2 DEF lease
  <2>3. CASE Finish(TRUE)
    BY <2>1, <2>3, FinishMaps DEF Busy
  <2> QED BY <1>6, <2>2, <2>3 DEF Staged, EnterFails, Escapes, HonestUse, Uninterrupted
<1>7. CASE Iterate
  <2>1. stream.life = "inside" /\ UNCHANGED <<at, ses>>
    BY <1>7 DEF Iterate, lease
  <2>2. UNCHANGED <<stream.owner, stream.worker>>
    BY <1>7, Types DEF Iterate, Streams
  <2>3. UNCHANGED <<lease, execVars>> \/ StartsOn(stream.worker, "exec")
    BY <1>7 DEF Iterate
  <2> QED BY <1>3, <2>1, <2>2, <2>3, StartsMaps
<1>8. CASE Complete
  <2>1. UNCHANGED <<stream.owner, stream.worker>>
    BY <1>8, Types DEF Complete, Streams
  <2> QED BY <1>3, <1>8, <2>1 DEF Complete, Lingers, HonestUse, lease
<1>9. CASE Leave
  <2>1. stream.life = "inside" /\ UNCHANGED <<dirty, left, on, execVars>>
        /\ \E r \in BOOLEAN : Finish(r)
    BY <1>9, Types DEF Leave
  <2> QED BY <2>1, FinishMaps DEF Busy
<1> QED BY <1>1, <1>2, <1>5, <1>6, <1>7, <1>8, <1>9 DEF Entering

\* The steps of the session, of the channel and of the workers.
LEMMA OthersMap ==
    ASSUME LeaseInv, HonestUse,
           \/ Sessions \/ Channel \/ Consume \/ UNCHANGED streamVars
           \/ \E w \in Workers : Wipe(w) \/ PodGoes(w)
    PROVE  [Lease!Next]_Lease!vars
<1>1. CASE SessionEnters
  <2>1. PICK u \in Workers :
           Leases(u) /\ ses' = [phase |-> "entering", home |-> u, worker |-> u]
    BY <1>1 DEF SessionEnters
  <2>2. /\ ses.phase = "new" /\ UNCHANGED <<dirty, left, on, stream, proc>>
        /\ at[u] = "free" /\ at' = [at EXCEPT ![u] = "leased"]
    BY <1>1, <2>1 DEF SessionEnters, Leases, execVars
  <2>3. SessionLease = None /\ SessionLease' = u /\ StreamLease' = StreamLease
    BY <2>1, <2>2 DEF SessionLease, StreamLease
  <2>4. Offered' = Offered \ {u}
    BY <2>2, Types DEF Offered
  <2>5. u \notin Tainted
    <3>1. u \notin dirty
      BY <2>2 DEF LeaseInv, Clean
    <3>2. u \notin Orphaned
      <4>1. StreamLease # u /\ SessionLease # u
        BY <2>2, FreeIsNobodys
      <4>2. SUFFICES ASSUME u \in Orphaned PROVE FALSE
        OBVIOUS
      <4>3. stream.worker = u /\ stream.life \in {"staging", "inside"}
        BY <2>2, <4>2, OrphansGone
      <4>4. stream.owner = "session" /\ ses.phase \in {"open", "over"}
        BY <4>1, <4>3, Types DEF StreamLease, LeaseInv, StreamHolds
      <4> QED BY <2>2, <4>4
    <3> QED BY <3>1, <3>2 DEF Tainted
  <2> QED BY <2>2, <2>3, <2>4, <2>5, TaintedKept, LesseeChanges, AbstractAcquire
<1>2. CASE SessionReady
  <2>1. /\ ses.phase = "entering" /\ ses.worker = ses.home /\ ses.home \in Workers /\ ses.home # None
        /\ at[ses.worker] = "leased" /\ UNCHANGED <<left, on, stream, proc>>
    BY <1>2, Types DEF SessionReady, LeaseInv, SessionHolds, execVars
  <2>2. SessionLease = ses.home /\ StreamLease' = StreamLease
    BY <2>1 DEF SessionLease, StreamLease
  <2>3. CASE /\ ses' = [ses EXCEPT !.phase = "open"] /\ at' = at
             /\ dirty' \in {dirty \ {ses.home}, dirty \cup {ses.home}}
    <3>1. SessionLease' = SessionLease /\ Offered' = Offered
      BY <2>1, <2>3, Types DEF SessionLease, Sesss, Offered
    <3>2. Orphaned' = Orphaned
      BY <2>1 DEF Orphaned
    <3>3. \/ Tainted' \in {Tainted, Tainted \ {ses.home}}
          \/ Tainted' = Tainted \cup {ses.home}
      BY <2>3, <3>2 DEF Tainted
    <3> QED BY <2>1, <2>2, <3>1, <3>3, LesseeChanges, AbstractStutter, AbstractErase, AbstractUse
  <2>4. CASE /\ at' = [at EXCEPT ![ses.worker] = "gone"]
             /\ ses' = [ses EXCEPT !.phase = "over", !.worker = None] /\ dirty' = dirty
    <3>1. SessionLease' = None
      BY <2>4, Types DEF SessionLease, Sesss
    <3>2. Offered' = Offered /\ Tainted' = Tainted
      BY <2>1, <2>4, OfferedKept, TaintedKept
    <3> QED BY <2>1, <2>2, <3>1, <3>2, LesseeChanges, AbstractGiveBack
  <2> QED BY <1>2, <2>3, <2>4 DEF SessionReady, HonestUse, Uninterrupted
<1>3. CASE SessionCall
  <2>1. /\ ses.phase = "open" /\ ses.worker = ses.home /\ ses.home \in Workers /\ ses.home # None
        /\ at[ses.worker] = "leased" /\ UNCHANGED <<on, stream, proc>>
        /\ dirty' = dirty \cup {ses.home}
    BY <1>3, Types DEF SessionCall, LeaseInv, SessionHolds, execVars
  <2>2. SessionLease = ses.home /\ StreamLease' = StreamLease
    BY <2>1 DEF SessionLease, StreamLease
  <2>3. left' \in {left, left \cup {ses.home}}
    BY <1>3, <2>1 DEF SessionCall, Lingers, HonestUse, Uninterrupted
  <2>4. Tainted' = Tainted \cup {ses.home}
    BY <2>1, <2>3 DEF Tainted, Orphaned
  <2>5. SessionLease' = SessionLease /\ Offered' = Offered
    <3>1. CASE UNCHANGED <<at, ses>>
      BY <3>1 DEF SessionLease, Offered
    <3>2. CASE RetireNow
      <4>1. at' = [at EXCEPT ![ses.worker] = "gone"] /\ UNCHANGED <<ses.phase, ses.home>>
        BY <2>1, <3>2, Types DEF RetireNow, Sesss
      <4> QED BY <2>1, <4>1, OfferedKept DEF SessionLease
    <3> QED BY <1>3, <3>1, <3>2 DEF SessionCall
  <2> QED BY <2>2, <2>4, <2>5, <2>1, LesseeChanges, AbstractUse
<1>4. CASE SessionExits
  <2>1. /\ ses.phase = "open" /\ ses.home # None /\ UNCHANGED <<dirty, left, on, stream, proc>>
        /\ ses' = [ses EXCEPT !.phase = "over", !.worker = None]
    BY <1>4 DEF SessionExits, LeaseInv, SessionHolds, execVars
  <2>2. SessionLease # None /\ SessionLease' = None /\ StreamLease' = StreamLease
    BY <2>1, Types DEF SessionLease, StreamLease, Sesss
  <2>3. Offered' = Offered
    <3>1. CASE ses.worker = None
      BY <1>4, <3>1 DEF SessionExits, Offered
    <3>2. CASE ses.worker # None
      BY <1>4, <3>2, OfferedKept DEF SessionExits, Releases, LeaseInv, SessionHolds
    <3> QED BY <3>1, <3>2
  <2> QED BY <2>1, <2>2, <2>3, TaintedKept, LesseeChanges, AbstractGiveBack
<1>5. ASSUME UNCHANGED <<at, dirty, left, on, stream, ses>>, proc' = proc \/ proc = "running"
      PROVE  [Lease!Next]_Lease!vars
  <2>1. StreamLease' = StreamLease /\ SessionLease' = SessionLease /\ Offered' = Offered
    BY <1>5 DEF StreamLease, SessionLease, Offered
  <2>2. Tainted' = Tainted \/ (on \in Workers /\ Tainted' = Tainted \ {on})
    <3>1. CASE proc' = "running" <=> proc = "running"
      BY <1>5, <3>1 DEF Tainted, Orphaned
    <3>2. CASE proc = "running" /\ proc' # "running"
      <4>1. Orphaned = left \cup {w \in Workers : w = on} /\ Orphaned' = left
        BY <1>5, <3>2 DEF Orphaned
      <4> QED BY <1>5, <4>1, Types DEF Tainted
    <3> QED BY <1>5, <3>1, <3>2
  <2> QED BY <2>1, <2>2, LesseeChanges, AbstractStutter, AbstractErase
<1>6. CASE Channel \/ Consume \/ UNCHANGED streamVars
  <2>1. UNCHANGED <<at, dirty, left, on, stream, ses>>
    BY <1>6 DEF Channel, Consume, lease, streamVars
  <2>2. proc' = proc \/ proc = "running"
    <3>1. CASE Worker
      BY <3>1, WorkerAdds DEF LeaseInv, TellInv, BaseInv, ExecInv
    <3>2. CASE DeadlinePasses \/ Client \/ Resume \/ Abandon
      BY <3>2, ClientKeepsProcess
    <3>3. CASE UNCHANGED streamVars
      BY <3>3 DEF streamVars, execVars
    <3> QED BY <1>6, <3>1, <3>2, <3>3 DEF Channel, Consume, ExecStep
  <2> QED BY <1>5, <2>1, <2>2
<1>7. ASSUME NEW u \in Workers, Wipe(u) PROVE [Lease!Next]_Lease!vars
  <2>1. at[u] = "coming" /\ UNCHANGED <<left, on, stream, ses, proc>>
    BY <1>7 DEF Wipe, execVars
  <2>2. StreamLease' = StreamLease /\ SessionLease' = SessionLease /\ Orphaned' = Orphaned
    BY <2>1 DEF StreamLease, SessionLease, Orphaned
  <2>3. CASE at' = [at EXCEPT ![u] = "free"] /\ dirty' = dirty \ {u}
    <3>1. Offered' = Offered \cup {u}
      BY <2>1, <2>3, Types DEF Offered
    <3>2. u \notin Orphaned
      <4>1. SUFFICES ASSUME u \in Orphaned PROVE FALSE
        OBVIOUS
      <4>2. stream.worker = u /\ stream.life \in Busy
        BY <2>1, <4>1, OrphansGone DEF Busy
      <4>3. CASE stream.owner = "pool"
        BY <2>1, <4>2, <4>3 DEF LeaseInv, StreamHolds
      <4>4. CASE stream.owner = "session"
        <5>1. ses.home = u /\ ses.phase = "open"
          BY <4>2, <4>4 DEF LeaseInv, StreamHolds
        <5> QED BY <2>1, <5>1 DEF LeaseInv, SessionHolds
      <4> QED BY <4>3, <4>4, Types
    <3>3. Tainted' = Tainted \ {u}
      BY <2>2, <2>3, <3>2 DEF Tainted
    <3> QED BY <2>1, <2>2, <3>1, <3>3, LesseeChanges, AbstractOffer
  <2>4. CASE at' = [at EXCEPT ![u] = "gone"] /\ dirty' = dirty
    <3>1. Offered' = Offered
      BY <2>1, <2>4, OfferedKept
    <3> QED BY <2>1, <2>2, <2>4, <3>1, TaintedKept, LesseeChanges, AbstractStutter
  <2> QED BY <1>7, <2>3, <2>4 DEF Wipe, HonestUse
<1>8. ASSUME NEW u \in Workers, PodGoes(u) PROVE [Lease!Next]_Lease!vars
  <2>1. /\ UNCHANGED <<at, on, stream, ses, proc>>
        /\ dirty' = dirty \ {u} /\ left' = left \ {u}
    BY <1>8 DEF PodGoes, execVars
  <2>2. StreamLease' = StreamLease /\ SessionLease' = SessionLease /\ Offered' = Offered
    BY <2>1 DEF StreamLease, SessionLease, Offered
  <2>3. Tainted' = Tainted \/ Tainted' = Tainted \ {u}
    BY <1>8, <2>1 DEF Tainted, Orphaned, PodGoes
  <2> QED BY <2>2, <2>3, LesseeChanges, AbstractStutter, AbstractErase
<1> QED BY <1>1, <1>2, <1>3, <1>4, <1>6, <1>7, <1>8 DEF Sessions

\* Under HonestUse, and with transports that do not close without a status, streams and
\* sessions implement WorkerLease: one caller at a time has a worker, and none gets one
\* with the files or the process of another (runner.py:675-676, 213-216).
THEOREM StreamsImplementWorkerLease ==
    HonestUse /\ HonestEndings /\ Spec => ImplementsWorkerLease
<1> SUFFICES ASSUME HonestUse, HonestEndings PROVE Spec => ImplementsWorkerLease
  OBVIOUS
<1>1. Init => Lease!Init
  <2> SUFFICES ASSUME Init PROVE Lease!Init
    OBVIOUS
  <2>1. /\ stream = [NewStream("pool", None, FALSE) EXCEPT !.life = "none"]
        /\ ses.phase = "new" /\ dirty = {} /\ left = {} /\ on = None
    BY DEF Init
  <2>2. stream.owner = "pool" /\ stream.worker = None
    BY <2>1 DEF NewStream
  <2>3. Lessee = [c \in {"stream", "session"} |-> None]
    BY <2>1, <2>2 DEF Lessee
  <2>4. {w \in Workers : at[w] = "free"} = {}
    BY DEF Init
  <2>5. Tainted = {}
    BY <2>1, StreamAssumption DEF Tainted, Orphaned
  <2> QED BY <2>3, <2>4, <2>5 DEF Lease!Init
<1>2. LeaseInv /\ [Next]_streamVars => [Lease!Next]_Lease!vars
  BY StreamMaps, OthersMap DEF Next
<1>3. LeaseInv /\ [Next]_streamVars => LeaseInv'
  BY LeaseInvKept
<1> QED BY <1>1, <1>2, <1>3, LeaseInvInit, PTL DEF Spec, ImplementsWorkerLease, Lease!Spec

===================================================================================
