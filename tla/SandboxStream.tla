------------------------------ MODULE SandboxStream ------------------------------
(****************************************************************************)
(* The streaming runs: SandboxStream over the exec channel of ExecStream,   *)
(* made by the pool or by a session, with the lease of the worker it runs   *)
(* on.  The pool is reduced to where each worker is (SandboxPool models it, *)
(* with the replacement of a retired worker), and a session is one object.  *)
(*                                                                          *)
(* Stream objects are driven one after the other, by one thread.  Lapses    *)
(* are what a caller may do that neither class forbids: "keep" leaves the   *)
(* with block while it holds a suspended iterator, "reenter" enters a       *)
(* stream a second time, "outlive" drives a session's stream after the      *)
(* session; and, as in SandboxPool, what counts as a healthy end of a run   *)
(* or a wipe: "collect", "child" and "sealed", and the "interrupt" of a     *)
(* BaseException.                                                           *)
(****************************************************************************)
EXTENDS ExecStream

CONSTANTS
    Workers,
    None,        \* no worker
    MaxStreams,  \* bound of the stream objects made
    FreshWorkdir,  \* config.fresh_workdir_per_run
    Lapses

ASSUME StreamAssumption ==
    /\ None \notin Workers
    /\ MaxStreams \in Nat
    /\ FreshWorkdir \in BOOLEAN
    /\ Lapses \subseteq {"keep", "reenter", "outlive", "collect", "child", "sealed", "interrupt"}

VARIABLES
    at,      \* where a worker is: "coming" (spawned or wiped), "free", "leased" or
             \* "gone" (retired)
    dirty,   \* the workers with the files of a run
    left,    \* the workers with a process of an earlier exec
    on,      \* the worker of the current exec
    stream,  \* the SandboxStream object
    ses,     \* the SandboxSession object
    made     \* how many streams were made

lease == <<at, dirty, left, on>>
streamVars == <<lease, stream, ses, made, execVars>>

Owners  == {"pool", "session"}
Lives   == {"none", "made", "entering", "staging", "inside", "out"}
Results == {"none", "ok", "error", "timeout"}

StreamTypeOK ==
    /\ ExecTypeOK
    /\ at \in [Workers -> {"free", "leased", "coming", "gone"}]
    /\ dirty \subseteq Workers /\ left \subseteq Workers
    /\ on \in Workers \cup {None}
    /\ stream \in [owner : Owners, life : Lives, bound : Workers \cup {None},
                   worker : Workers \cup {None}, inputs : BOOLEAN, retire : BOOLEAN,
                   finished : BOOLEAN, gen : {"none", "running", "over"}, result : Results]
    /\ ses \in [phase : {"new", "entering", "open", "over"},
                home : Workers \cup {None}, worker : Workers \cup {None}]
    /\ made \in 0..MaxStreams

\* __init__ of a stream; bound is the worker that a session's acquire returns.
NewStream(o, b, i) ==
    [owner |-> o, life |-> "made", bound |-> b, worker |-> None, inputs |-> i,
     retire |-> FALSE, finished |-> FALSE, gen |-> "none", result |-> "none"]

Init ==
    /\ ExecInit
    /\ at = [w \in Workers |-> "coming"]
    /\ dirty = {} /\ left = {} /\ on = None
    /\ stream = [NewStream("pool", None, FALSE) EXCEPT !.life = "none"]
    /\ ses = [phase |-> "new", home |-> None, worker |-> None]
    /\ made = 0

\* The thread of the caller is in the caller's own code.
Control ==
    \/ pc \in {"idle", "end"} /\ stream.gen # "running" /\ stream.life \notin {"entering", "staging"}
    \/ pc \in Yield

----------------------------------------------------------------------------
(* What becomes of a worker. *)

Leases(w) == at[w] = "free" /\ at' = [at EXCEPT ![w] = "leased"]

\* _release: retired when it is unhealthy or spent, else wiped or put back as it is.
Releases(w, retire, clean) ==
    LET back == IF clean THEN "coming" ELSE "free" IN
    \E to \in IF retire THEN {"gone"} ELSE {"gone", back} : at' = [at EXCEPT ![w] = to]

\* _clean_and_return, or the first spawn; the wipe removes the files it can and
\* leaves processes alone.
Wipe(w) ==
    /\ at[w] = "coming"
    /\ \/ /\ at' = [at EXCEPT ![w] = "free"]
          /\ \/ dirty' = dirty \ {w}
             \/ "sealed" \in Lapses /\ UNCHANGED dirty
       \/ at' = [at EXCEPT ![w] = "gone"] /\ UNCHANGED dirty
    /\ UNCHANGED <<left, on, stream, ses, made, execVars>>

\* A process stays in w after a call that counts as healthy.
Lingers(w, kinds) ==
    \E ps \in SUBSET {w} : (ps # {} => kinds \cap Lapses # {}) /\ left' = left \cup ps

\* The deletion of a retired pod takes what an earlier exec left in it.
PodGoes(w) ==
    /\ at[w] = "gone" /\ w \in dirty \cup left
    /\ dirty' = dirty \ {w} /\ left' = left \ {w}
    /\ UNCHANGED <<at, on, stream, ses, made, execVars>>

\* An exec begins on w, after the exec of an upload that may still run.
Orphaned == left \cup {w \in Workers : w = on /\ proc = "running"}
RunsOn(w, j) ==
    /\ Begin(j)
    /\ on' = w /\ left' = Orphaned /\ dirty' = dirty \cup {w}
FailsOn(w, j) ==
    /\ BeginFails(j)
    /\ on' = w /\ left' = Orphaned /\ UNCHANGED dirty
StartsOn(w, j) == RunsOn(w, j) \/ FailsOn(w, j)

\* SandboxSession._retire_now
RetireNow ==
    /\ ses' = [ses EXCEPT !.worker = None]
    /\ at' = IF ses.worker = None THEN at ELSE [at EXCEPT ![ses.worker] = "gone"]

----------------------------------------------------------------------------
(* The stream. *)

Replaceable == stream.life \in {"none", "made", "out"} /\ pc \in {"idle", "end"} /\ Control

\* What the exec of the stream before left running is nobody's.
Make(o, b) ==
    /\ Replaceable /\ made < MaxStreams
    /\ made' = made + 1
    /\ \E i \in BOOLEAN : stream' = NewStream(o, b, i)
    /\ NoExec /\ on' = None /\ left' = Orphaned
    /\ UNCHANGED <<at, dirty, ses>>

\* run_stream, shell_stream and exec_stream, of the pool and of a live session.
MakePoolStream    == Make("pool", None)
MakeSessionStream == ses.phase = "open" /\ ses.worker # None /\ Make("session", ses.worker)

\* self._acquire(): a lease, or the worker captured when the stream was made.
MayEnter ==
    /\ Control /\ pc \notin Yield
    /\ stream.life \in {"made"} \cup {l \in {"out"} : "reenter" \in Lapses}
    /\ stream.owner = "session" => ses.phase = "open" \/ "outlive" \in Lapses

Enter ==
    /\ MayEnter
    /\ \/ /\ stream.owner = "pool"
          /\ \E w \in Workers :
                Leases(w) /\ stream' = [stream EXCEPT !.life = "entering", !.worker = w]
       \/ /\ stream.owner = "session"
          /\ stream' = [stream EXCEPT !.life = "entering", !.worker = stream.bound]
          /\ UNCHANGED at
    /\ UNCHANGED <<dirty, left, on, ses, made, execVars>>

\* _finish, with the on_finish of the pool or of the session.
Finish(retire) ==
    /\ stream' = [stream EXCEPT !.life = "out", !.retire = retire, !.finished = TRUE,
                                !.worker = IF stream.finished THEN @ ELSE None]
    /\ IF stream.finished \/ stream.worker = None THEN UNCHANGED <<at, ses>>
       ELSE \/ /\ stream.owner = "pool"
               /\ Releases(stream.worker, retire, FreshWorkdir)
               /\ UNCHANGED ses
            \/ stream.owner = "session" /\ retire /\ RetireNow
            \/ stream.owner = "session" /\ ~retire /\ UNCHANGED <<at, ses>>

\* Mutated form: a failed __enter__ that relies on an __exit__ that never comes.
EnterForgets ==
    /\ stream' = [stream EXCEPT !.life = "out", !.retire = TRUE]
    /\ UNCHANGED <<at, ses>>

EnterFails == Finish(TRUE)

\* A BaseException passes the except clauses of __enter__: nobody releases the
\* worker.  One in __iter__ ends the channel and the run like a broken connection.
Escapes ==
    /\ "interrupt" \in Lapses
    /\ stream' = [stream EXCEPT !.life = "out"]
    /\ UNCHANGED <<at, ses>>

\* _prepare: nothing to stage, inputs over the limit, or an upload.
Stage ==
    /\ stream.life = "entering"
    /\ \/ /\ ~stream.inputs
          /\ stream' = [stream EXCEPT !.life = "inside"]
          /\ UNCHANGED <<lease, ses, execVars>>
       \/ /\ \/ stream.inputs /\ EnterFails
             \/ Escapes
          /\ UNCHANGED <<dirty, left, on, execVars>>
       \/ /\ stream.inputs
          /\ StartsOn(stream.worker, "upload")
          /\ stream' = [stream EXCEPT !.life = "staging"]
          /\ UNCHANGED <<at, ses>>
    /\ UNCHANGED made

Staged ==
    /\ stream.life = "staging" /\ pc = "end"
    /\ \/ /\ outcome = "ok"
          /\ stream' = [stream EXCEPT !.life = "inside"]
          /\ UNCHANGED <<at, ses>>
       \/ outcome # "ok" /\ EnterFails
       \/ Escapes
    /\ UNCHANGED <<dirty, left, on, made, execVars>>

\* The first next() of __iter__: _with_env may refuse, then the exec begins.
Iterate ==
    /\ stream.life = "inside" /\ stream.gen = "none" /\ stream.worker # None
    /\ \/ /\ stream' = [stream EXCEPT !.gen = "over"]
          /\ UNCHANGED <<lease, execVars>>
       \/ /\ stream' = [stream EXCEPT !.gen = "running"]
          /\ StartsOn(stream.worker, "exec")
          /\ UNCHANGED at
    /\ UNCHANGED <<ses, made>>

\* Mutated forms: a run the consumer abandoned is taken for a finished one; the
\* outcome of the channel is handed out as it is.
RetiresUnlessAbandoned == outcome \in {"timeout", "failed"}
ResultRaw == outcome

\* _complete, or one of the except clauses of __iter__ and its finally.  The
\* results name the worker, which a stream that was left no longer has.  _collect
\* may raise, and swallows its own timeout.
Retires  == outcome # "code"
Result   == IF outcome = "timeout" THEN "timeout" ELSE IF code = 0 THEN "ok" ELSE "error"
Complete ==
    /\ stream.gen = "running" /\ pc = "end"
    /\ \/ /\ outcome \in {"code", "timeout"} /\ stream.worker # None
          /\ stream' = [stream EXCEPT !.gen = "over", !.result = Result,
                                      !.retire = @ \/ Retires]
          /\ IF outcome = "code" THEN Lingers(stream.worker, {"collect", "child"})
             ELSE UNCHANGED left
       \/ /\ outcome # "timeout" \/ stream.worker = None
          /\ stream' = [stream EXCEPT !.gen = "over", !.retire = @ \/ Retires \/ outcome = "code"]
          /\ UNCHANGED left
    /\ UNCHANGED <<at, dirty, on, ses, made, execVars>>

\* __exit__, with an exception from the body or without.
Leave ==
    /\ stream.life = "inside" /\ Control
    /\ stream.gen = "running" => "keep" \in Lapses
    /\ \E exc \in BOOLEAN : Finish(stream.retire \/ exc)
    /\ UNCHANGED <<dirty, left, on, made, execVars>>

\* The exec channel moves, and the consumer asks for a chunk or breaks.
Channel == ExecStep /\ UNCHANGED <<lease, stream, ses, made>>
Consume == (Resume \/ Abandon) /\ UNCHANGED <<lease, stream, ses, made>>

----------------------------------------------------------------------------
(* The session the streams may belong to. *)

SessionEnters ==
    /\ ses.phase = "new" /\ Control /\ stream.life # "inside"
    /\ \E w \in Workers : Leases(w) /\ ses' = [phase |-> "entering", home |-> w, worker |-> w]
    /\ UNCHANGED <<dirty, left, on, stream, made, execVars>>

\* The wipe of __enter__ and the upload of a snapshot's files; what raises there
\* retires the worker, unless it is a BaseException.
SessionReady ==
    /\ ses.phase = "entering"
    /\ \/ /\ ses' = [ses EXCEPT !.phase = "open"]
          /\ dirty' \in {dirty \ {ses.home}, dirty \cup {ses.home}}
          /\ UNCHANGED at
       \/ /\ at' = [at EXCEPT ![ses.worker] = "gone"]
          /\ ses' = [ses EXCEPT !.phase = "over", !.worker = None]
          /\ UNCHANGED dirty
       \/ /\ "interrupt" \in Lapses
          /\ ses' = [ses EXCEPT !.phase = "over"]
          /\ UNCHANGED <<at, dirty>>
    /\ UNCHANGED <<left, on, stream, made, execVars>>

\* A call of the session, between the chunks of a stream of its own or without
\* one.  One that fails may leave its process running; a checkpoint() that fails, a
\* collection that times out and a BaseException leave the session open.
SessionCall ==
    /\ ses.phase = "open" /\ ses.worker # None /\ Control
    /\ dirty' = dirty \cup {ses.worker}
    /\ \/ Lingers(ses.worker, {"collect", "child", "interrupt"}) /\ UNCHANGED <<at, ses>>
       \/ RetireNow /\ left' \in {left, left \cup {ses.worker}}
    /\ UNCHANGED <<on, stream, made, execVars>>

SessionExits ==
    /\ ses.phase = "open" /\ Control
    /\ stream.life = "inside" /\ stream.owner = "session" => "outlive" \in Lapses
    /\ ses' = [ses EXCEPT !.phase = "over", !.worker = None]
    /\ IF ses.worker = None THEN UNCHANGED at ELSE Releases(ses.worker, FALSE, TRUE)
    /\ UNCHANGED <<dirty, left, on, stream, made, execVars>>

----------------------------------------------------------------------------

Entering == Stage \/ Staged
Sessions == SessionEnters \/ SessionReady \/ SessionCall \/ SessionExits

Next ==
    \/ MakePoolStream \/ MakeSessionStream
    \/ Enter \/ Entering \/ Iterate \/ Complete \/ Leave
    \/ Channel \/ Consume
    \/ Sessions
    \/ \E w \in Workers : Wipe(w) \/ PodGoes(w)

Spec == Init /\ [][Next]_streamVars

\* The client's loop turns, time passes, and a caller asks for the next chunk and
\* leaves its with blocks some time; nothing is asked of the worker or the socket.
Fairness ==
    /\ WF_streamVars(Client /\ UNCHANGED <<lease, stream, ses, made>>)
    /\ WF_streamVars(DeadlinePasses /\ UNCHANGED <<lease, stream, ses, made>>)
    /\ WF_streamVars(Consume)
    /\ WF_streamVars(Entering) /\ WF_streamVars(Complete) /\ WF_streamVars(Leave)
    /\ WF_streamVars(SessionReady) /\ WF_streamVars(SessionExits)

FairSpec == Spec /\ Fairness

----------------------------------------------------------------------------
(* What a streaming run promises. *)

\* A result with an exit code comes of a command that ended by itself, and ok says
\* that it ran to its end with 0 (models.py:33-36, 47).
ResultTells ==
    stream.result \in {"ok", "error"} =>
        outcome = "code" /\ proc = IF stream.result = "ok" THEN "exit0" ELSE "exit1"

\* A leased worker is held by a stream that will give it back or by the
\* session: a stream that was left or never entered holds none
\* (runner.py:1201-1206).
NoWorkerLost ==
    \A w \in Workers : at[w] = "leased" =>
        \/ stream.worker = w /\ stream.life \in {"entering", "staging", "inside"} /\ ~stream.finished
        \/ ses.worker = w /\ ses.phase # "over"

\* Whatever the command, its socket and the consumer do, a worker that was taken
\* comes back or is retired: the deadline ends a run of which nothing is heard
\* (_exec.py:7-8, 136-138; runner.py:1271-1331).
WorkerComesBack == \A w \in Workers : at[w] = "leased" ~> at[w] # "leased"

\* Streams and sessions share the workers as WorkerLease says: one caller at a
\* time, and none gets a worker with the files or the process of another.  With
\* fresh_workdir_per_run, and as long as the cleaner can remove what a run leaves
\* and no process survives an end that counts as healthy; else, and in the words
\* of src/README.md:539-545 always, a reused worker is no clean slate.
Tainted == dirty \cup Orphaned
Lessee == [c \in {"stream", "session"} |->
    IF c = "stream" THEN IF stream.owner = "pool" THEN stream.worker ELSE None
    ELSE IF ses.phase \in {"entering", "open"} THEN ses.home ELSE None]
Lease == INSTANCE WorkerLease WITH
    Callers <- {"stream", "session"}, Nobody <- None,
    lessee <- Lessee, offered <- {w \in Workers : at[w] = "free"}, tainted <- Tainted
ImplementsWorkerLease == Lease!Spec

==================================================================================
