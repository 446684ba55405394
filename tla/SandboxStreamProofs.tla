---------------------------- MODULE SandboxStreamProofs ----------------------------
(****************************************************************************)
(* What holds of every streaming run, for every number of workers, streams, *)
(* frames and input files, and every way the socket may end.                *)
(****************************************************************************)
EXTENDS SandboxStream, ExecStreamProofs

(* The channel: each step of the streams is a step of the exec channel, or leaves it *)
(* alone, so what ExecStreamProofs shows of the channel holds here.                  *)

\* Every step of the streams is a step of the channel or a stutter of it.
LEMMA StreamStepsExec == [Next]_streamVars => [ExecNext]_execVars
<1> SUFFICES ASSUME [Next]_streamVars PROVE [ExecNext]_execVars
  OBVIOUS
<1>1. ASSUME NEW w, NEW j \in {"exec", "upload"}, StartsOn(w, j) PROVE ExecNext
  BY <1>1 DEF StartsOn, RunsOn, FailsOn, ExecNext
<1>2. CASE MakePoolStream \/ MakeSessionStream
  BY <1>2 DEF MakePoolStream, MakeSessionStream, Make, ExecNext
<1>3. CASE Enter \/ Staged \/ Complete \/ Leave
  BY <1>3 DEF Enter, Staged, Complete, Leave
<1>4. CASE Stage
  BY <1>1, <1>4 DEF Stage
<1>5. CASE Iterate
  BY <1>1, <1>5 DEF Iterate
<1>6. CASE Channel \/ Consume
  BY <1>6 DEF Channel, Consume, ExecNext, ExecStep
<1>7. CASE Sessions
  BY <1>7 DEF Sessions, SessionEnters, SessionReady, SessionCall, SessionExits
<1>8. CASE \E w \in Workers : Wipe(w) \/ PodGoes(w)
  BY <1>8 DEF Wipe, PodGoes
<1>9. CASE UNCHANGED streamVars
  BY <1>9 DEF streamVars
<1> QED BY <1>2, <1>3, <1>4, <1>5, <1>6, <1>7, <1>8, <1>9 DEF Next, Entering

\* The invariant of the channel, under the streams.
THEOREM StreamsKeepExecInv == Spec => []ExecInv
<1>1. Init => ExecInv
  BY ExecInitInv DEF Init
<1>2. ExecInv /\ [Next]_streamVars => ExecInv'
  BY StreamStepsExec, ExecNextInv
<1> QED BY <1>1, <1>2, PTL DEF Spec

\* The result of a stream comes after all of the output its command sent, whatever
\* peek a chunk arrived in (_exec.py:103-105, 139-144).
THEOREM StreamOutputComplete == Spec => []OutputComplete
<1>1. ExecInv => OutputComplete
  BY DEF ExecInv
<1> QED BY <1>1, StreamsKeepExecInv, PTL

\* A with block of a stream is entered with every input file in place or not at all
\* (_exec.py:58-60).
THEOREM StreamUploadComplete == Spec => []UploadComplete
<1>1. ExecInv => UploadComplete
  BY DEF ExecInv
<1> QED BY <1>1, StreamsKeepExecInv, PTL

----------------------------------------------------------------------------
(* Types. *)

Places == {"free", "leased", "coming", "gone"}
Streams == [owner : Owners, life : Lives, bound : Workers \cup {None},
            worker : Workers \cup {None}, inputs : BOOLEAN, retire : BOOLEAN,
            finished : BOOLEAN, gen : {"none", "running", "over"}, result : Results]
Sesss == [phase : {"new", "entering", "open", "over"},
          home : Workers \cup {None}, worker : Workers \cup {None}]

LeaseTypeOK ==
    /\ at \in [Workers -> Places]
    /\ dirty \subseteq Workers /\ left \subseteq Workers
    /\ on \in Workers \cup {None}
    /\ stream \in Streams /\ ses \in Sesss
    /\ made \in 0..MaxStreams

\* An entered stream has a worker: the one it leased, or the one its session had.
Held ==
    /\ stream.life \in {"entering", "staging", "inside"} => stream.worker # None
    /\ stream.owner = "session" => stream.bound # None

\* The two conjuncts of the type invariant.
LEMMA TypeSplit == StreamTypeOK <=> ExecTypeOK /\ LeaseTypeOK
BY DEF StreamTypeOK, LeaseTypeOK, Places, Streams, Sesss

\* A lease, a release and a retirement move a worker from one place to another.
LEMMA PlacesKept ==
    ASSUME LeaseTypeOK, NEW w \in Workers \cup {None},
           \/ w \in Workers /\ Leases(w)
           \/ \E b, clean \in BOOLEAN : Releases(w, b, clean)
           \/ RetireNow
    PROVE  at' \in [Workers -> Places]
<1>1. at \in [Workers -> Places]
  BY DEF LeaseTypeOK
<1>2. \A u, to \in Places : [at EXCEPT ![u] = to] \in [Workers -> Places]
  BY <1>1
<1>3. \E u : \E to \in Places : at' = at \/ at' = [at EXCEPT ![u] = to]
  BY DEF Leases, Releases, RetireNow, Places
<1> QED BY <1>1, <1>2, <1>3

\* What _finish leaves behind is of its type.
LEMMA FinishTypes ==
    ASSUME LeaseTypeOK, NEW r \in BOOLEAN, Finish(r)
    PROVE  at' \in [Workers -> Places] /\ stream' \in Streams /\ ses' \in Sesss
<1>1. stream \in Streams /\ ses \in Sesss /\ at \in [Workers -> Places]
  BY DEF LeaseTypeOK
<1>2. stream' \in Streams
  <2>1. (IF stream.finished THEN stream.worker ELSE None) \in Workers \cup {None}
    BY <1>1 DEF Streams
  <2>2. stream' = [stream EXCEPT !.life = "out", !.retire = r, !.finished = TRUE,
                                 !.worker = IF stream.finished THEN stream.worker ELSE None]
    BY DEF Finish
  <2> QED BY <1>1, <2>1, <2>2 DEF Streams, Lives
<1>3. ses' \in Sesss
  <2>1. ses' = ses \/ ses' = [ses EXCEPT !.worker = None]
    BY DEF Finish, RetireNow
  <2> QED BY <1>1, <2>1 DEF Sesss
<1>4. at' \in [Workers -> Places]
  <2>1. \/ at' = at
        \/ stream.worker \in Workers /\ Releases(stream.worker, r, FreshWorkdir)
        \/ RetireNow
    BY <1>1 DEF Finish, Streams
  <2> QED BY <1>1, <2>1, PlacesKept, StreamAssumption
<1> QED BY <1>2, <1>3, <1>4

\* The steps of the stream object.
LEMMA StreamTypes ==
    ASSUME LeaseTypeOK, Held,
           \/ MakePoolStream \/ MakeSessionStream \/ Enter \/ Entering
           \/ Iterate \/ Complete \/ Leave
    PROVE  LeaseTypeOK'
<1>0. /\ at \in [Workers -> Places] /\ dirty \subseteq Workers /\ left \subseteq Workers
      /\ on \in Workers \cup {None} /\ stream \in Streams /\ ses \in Sesss
      /\ made \in 0..MaxStreams
  BY DEF LeaseTypeOK
<1>1. Orphaned \subseteq Workers
  BY <1>0 DEF Orphaned
<1>2. ASSUME NEW o \in Owners, NEW b \in Workers \cup {None}, Make(o, b) PROVE LeaseTypeOK'
  <2>1. \A i \in BOOLEAN : NewStream(o, b, i) \in Streams
    BY <1>2 DEF NewStream, Streams, Lives, Results
  <2>2. made' \in 0..MaxStreams
    BY <1>0, <1>2, StreamAssumption DEF Make
  <2>3. stream' \in Streams
    BY <1>2, <2>1 DEF Make
  <2> QED BY <1>0, <1>1, <1>2, <2>2, <2>3 DEF Make, LeaseTypeOK
<1>3. CASE MakePoolStream
  BY <1>2, <1>3 DEF MakePoolStream, Owners
<1>4. CASE MakeSessionStream
  BY <1>0, <1>2, <1>4 DEF MakeSessionStream, Owners, Sesss
<1>5. CASE Enter
  <2>1. \A w \in Workers \cup {None} :
          [stream EXCEPT !.life = "entering", !.worker = w] \in Streams
    BY <1>0 DEF Streams, Lives
  <2>2. stream.bound \in Workers \cup {None}
    BY <1>0 DEF Streams
  <2>3. stream' \in Streams
    BY <1>5, <2>1, <2>2 DEF Enter
  <2>4. at' \in [Workers -> Places]
    BY <1>0, <1>5, PlacesKept DEF Enter
  <2> QED BY <1>0, <1>5, <2>3, <2>4 DEF Enter, LeaseTypeOK
<1>6. ASSUME NEW j, NEW w \in Workers \cup {None}, w # None, StartsOn(w, j)
      PROVE  dirty' \subseteq Workers /\ left' \subseteq Workers /\ on' \in Workers \cup {None}
  BY <1>0, <1>1, <1>6 DEF StartsOn, RunsOn, FailsOn
<1>7. stream.worker \in Workers \cup {None} /\ stream.retire \in BOOLEAN
  BY <1>0 DEF Streams
<1>8. CASE Iterate
  <2>1. \A g \in {"over", "running"} : [stream EXCEPT !.gen = g] \in Streams
    BY <1>0 DEF Streams
  <2>2. stream' \in Streams
    BY <1>8, <2>1 DEF Iterate
  <2>3. UNCHANGED <<dirty, left, on>> \/ StartsOn(stream.worker, "exec")
    BY <1>8 DEF Iterate, lease
  <2>4. stream.worker # None /\ UNCHANGED <<at, ses, made>>
    BY <1>8 DEF Iterate, lease
  <2> QED BY <1>0, <1>6, <1>7, <2>2, <2>3, <2>4 DEF LeaseTypeOK
<1>9. CASE Complete
  <2>1. \A g \in {"over"}, r \in Results, b \in BOOLEAN :
          /\ [stream EXCEPT !.gen = g, !.result = r, !.retire = b] \in Streams
          /\ [stream EXCEPT !.gen = g, !.retire = b] \in Streams
    BY <1>0 DEF Streams
  <2>2. Result \in Results /\ (stream.retire \/ Retires) \in BOOLEAN
        /\ (stream.retire \/ Retires \/ outcome = "code") \in BOOLEAN
    BY <1>7 DEF Result, Results, Retires
  <2>3. stream' \in Streams
    BY <1>9, <2>1, <2>2 DEF Complete
  <2>4. left' \subseteq Workers
    BY <1>0, <1>7, <1>9 DEF Complete, Lingers
  <2> QED BY <1>0, <1>9, <2>3, <2>4 DEF Complete, LeaseTypeOK
<1>10. CASE Leave
  <2>1. \E r \in BOOLEAN : Finish(r)
    BY <1>7, <1>10 DEF Leave
  <2> QED BY <1>0, <1>10, <2>1, FinishTypes DEF Leave, LeaseTypeOK
<1>11. \A l \in {"inside", "staging", "out"} : [stream EXCEPT !.life = l] \in Streams
  BY <1>0 DEF Streams, Lives
<1>12. CASE Staged
  <2>1. \/ /\ \E l \in {"inside", "out"} : stream' = [stream EXCEPT !.life = l]
           /\ UNCHANGED <<at, ses>>
        \/ Finish(TRUE)
    BY <1>12 DEF Staged, EnterFails, Escapes
  <2>2. stream' \in Streams /\ at' \in [Workers -> Places] /\ ses' \in Sesss
    BY <1>0, <1>11, <2>1, FinishTypes
  <2> QED BY <1>0, <1>12, <2>2 DEF Staged, LeaseTypeOK
<1>13. CASE Stage
  <2>1. \/ /\ \E l \in {"inside", "out"} : stream' = [stream EXCEPT !.life = l]
           /\ UNCHANGED <<at, ses, dirty, left, on>>
        \/ Finish(TRUE) /\ UNCHANGED <<dirty, left, on>>
        \/ /\ StartsOn(stream.worker, "upload")
           /\ stream' = [stream EXCEPT !.life = "staging"]
           /\ UNCHANGED <<at, ses>>
    BY <1>13 DEF Stage, EnterFails, Escapes, lease
  <2>2. stream' \in Streams /\ at' \in [Workers -> Places] /\ ses' \in Sesss
    BY <1>0, <1>11, <2>1, FinishTypes
  <2>3. stream.worker # None
    BY <1>13 DEF Stage, Held
  <2>4. dirty' \subseteq Workers /\ left' \subseteq Workers /\ on' \in Workers \cup {None}
    BY <1>0, <1>6, <1>7, <2>1, <2>3
  <2> QED BY <1>0, <1>13, <2>2, <2>4 DEF Stage, LeaseTypeOK
<1> QED BY <1>3, <1>4, <1>5, <1>8, <1>9, <1>10, <1>12, <1>13 DEF Entering

\* The steps of the session, of the channel and of the workers.
LEMMA OtherTypes ==
    ASSUME LeaseTypeOK,
           Sessions \/ Channel \/ Consume \/ (\E w \in Workers : Wipe(w) \/ PodGoes(w))
    PROVE  LeaseTypeOK'
<1>0. /\ at \in [Workers -> Places] /\ dirty \subseteq Workers /\ left \subseteq Workers
      /\ on \in Workers \cup {None} /\ stream \in Streams /\ ses \in Sesss
      /\ made \in 0..MaxStreams
      /\ ses.worker \in Workers \cup {None}
  BY DEF LeaseTypeOK, Sesss
<1>1. CASE SessionEnters
  <2>1. ses' \in Sesss
    BY <1>1 DEF SessionEnters, Sesss
  <2>2. at' \in [Workers -> Places]
    BY <1>1, PlacesKept DEF SessionEnters
  <2> QED BY <1>0, <1>1, <2>1, <2>2 DEF SessionEnters, LeaseTypeOK
<1>2. \A p \in {"open", "over"} :
        /\ [ses EXCEPT !.phase = p] \in Sesss /\ [ses EXCEPT !.worker = None] \in Sesss
        /\ [ses EXCEPT !.phase = p, !.worker = None] \in Sesss
  BY <1>0 DEF Sesss
<1>3. \A u : [at EXCEPT ![u] = "gone"] \in [Workers -> Places]
  BY <1>0 DEF Places
<1>4. CASE SessionReady
  BY <1>0, <1>2, <1>3, <1>4 DEF SessionReady, LeaseTypeOK
<1>5. CASE SessionCall
  <2>1. ses' \in Sesss /\ at' \in [Workers -> Places]
    BY <1>0, <1>2, <1>3, <1>5 DEF SessionCall, RetireNow
  <2>2. dirty' \subseteq Workers /\ left' \subseteq Workers
    BY <1>0, <1>5 DEF SessionCall, Lingers
  <2> QED BY <1>0, <1>5, <2>1, <2>2 DEF SessionCall, LeaseTypeOK
<1>6. CASE SessionExits
  <2>1. at' \in [Workers -> Places]
    BY <1>0, <1>6, PlacesKept DEF SessionExits
  <2>2. ses' \in Sesss
    BY <1>2, <1>6 DEF SessionExits
  <2> QED BY <1>0, <1>6, <2>1, <2>2 DEF SessionExits, LeaseTypeOK
<1>7. CASE Channel \/ Consume
  BY <1>0, <1>7 DEF Channel, Consume, lease, LeaseTypeOK
<1>8. ASSUME NEW w \in Workers, Wipe(w) \/ PodGoes(w) PROVE LeaseTypeOK'
  <2>1. \A to \in Places : [at EXCEPT ![w] = to] \in [Workers -> Places]
    BY <1>0
  <2>2. at' \in [Workers -> Places]
    BY <1>0, <1>8, <2>1 DEF Wipe, PodGoes, Places
  <2> QED BY <1>0, <1>8, <2>2 DEF Wipe, PodGoes, LeaseTypeOK
<1> QED BY <1>1, <1>4, <1>5, <1>6, <1>7, <1>8 DEF Sessions

\* Held is kept by every step.
LEMMA HeldKept == ASSUME LeaseTypeOK, Held, [Next]_streamVars PROVE Held'
<1>0. stream \in Streams /\ None \notin Workers
  BY StreamAssumption DEF LeaseTypeOK
<1>1. ASSUME NEW r, Finish(r) PROVE Held'
  BY <1>0, <1>1 DEF Finish, Held, Streams
<1>2. CASE MakePoolStream \/ MakeSessionStream
  <2>1. \E o \in Owners : \E b, i : (o = "session" => b # None) /\ stream' = NewStream(o, b, i)
    BY <1>2 DEF MakePoolStream, MakeSessionStream, Make, Owners
  <2> QED BY <2>1 DEF NewStream, Held
<1>3. CASE Enter
  <2>1. \E w : /\ stream' = [stream EXCEPT !.life = "entering", !.worker = w]
               /\ w \in Workers \/ (w = stream.bound /\ stream.owner = "session")
    BY <1>3 DEF Enter
  <2> QED BY <1>0, <2>1 DEF Held, Streams
<1>4. CASE Entering
  <2>1. \/ \E r : Finish(r)
        \/ /\ stream.life \in {"entering", "staging"}
           /\ \E l \in {"inside", "staging", "out"} : stream' = [stream EXCEPT !.life = l]
    BY <1>4 DEF Entering, Stage, Staged, EnterFails, Escapes
  <2> QED BY <1>0, <1>1, <2>1 DEF Held, Streams
<1>5. CASE Iterate
  BY <1>0, <1>5 DEF Iterate, Held, Streams
<1>6. CASE Complete
  BY <1>0, <1>6 DEF Complete, Held, Streams
<1>7. CASE Leave
  BY <1>1, <1>7 DEF Leave
<1>8. CASE UNCHANGED stream
  BY <1>8 DEF Held
<1>9. CASE Channel \/ Consume \/ Sessions \/ UNCHANGED streamVars
           \/ \E w \in Workers : Wipe(w) \/ PodGoes(w)
  BY <1>8, <1>9 DEF Channel, Consume, Sessions, SessionEnters, SessionReady, SessionCall,
                    SessionExits, Wipe, PodGoes, streamVars
<1> QED BY <1>2, <1>3, <1>4, <1>5, <1>6, <1>7, <1>9 DEF Next

\* What every state of the streams satisfies, whatever the lapses.
BaseInv == ExecInv /\ LeaseTypeOK /\ Held

\* The first state.
LEMMA InitBase == Init => BaseInv
<1> SUFFICES ASSUME Init PROVE BaseInv
  OBVIOUS
<1>1. NewStream("pool", None, FALSE) \in Streams
  BY DEF NewStream, Streams, Owners, Lives, Results
<1>2. stream \in Streams /\ stream.life = "none" /\ stream.owner = "pool"
  BY <1>1 DEF Init, Streams, Lives, NewStream
<1>3. ses \in Sesss
  BY DEF Init, Sesss
<1>4. made \in 0..MaxStreams
  BY StreamAssumption DEF Init
<1>5. LeaseTypeOK
  BY <1>2, <1>3, <1>4 DEF Init, LeaseTypeOK, Places
<1> QED BY <1>2, <1>5, ExecInitInv DEF BaseInv, Held, Init

\* Every step.
LEMMA BaseKept == BaseInv /\ [Next]_streamVars => BaseInv'
<1> SUFFICES ASSUME BaseInv, [Next]_streamVars PROVE BaseInv'
  OBVIOUS
<1>1. ExecInv' /\ Held'
  BY StreamStepsExec, ExecNextInv, HeldKept DEF BaseInv
<1>2. LeaseTypeOK'
  <2>1. CASE UNCHANGED streamVars
    BY <2>1 DEF BaseInv, streamVars, lease, LeaseTypeOK
  <2>2. CASE Next
    BY <2>2, StreamTypes, OtherTypes DEF BaseInv, Next
  <2> QED BY <2>1, <2>2
<1> QED BY <1>1, <1>2 DEF BaseInv

\* Every variable of the streams and of the channel has its type.
THEOREM StreamTypesCorrect == Spec => []StreamTypeOK
<1>1. BaseInv => StreamTypeOK
  BY TypeSplit DEF BaseInv, ExecInv
<1> QED BY <1>1, InitBase, BaseKept, PTL DEF Spec

----------------------------------------------------------------------------
(* No worker is lost by callers that enter a stream once, uninterrupted.    *)

\* A stream that was not left has not given its worker back.
Once == stream.life # "out" => ~stream.finished

\* A leased worker is the session's, or that of a stream of the pool.
Placed ==
    /\ ses.phase = "new" => ses.worker = None
    /\ \A w \in Workers : at[w] = "leased" =>
          \/ /\ stream.owner = "pool" /\ stream.worker = w
             /\ stream.life \in {"entering", "staging", "inside"}
          \/ ses.worker = w /\ ses.phase # "over"

\* The callers' side of NoWorkerLost.
EnteredOnce == "reenter" \notin Lapses     \* a SandboxStream is entered once
Uninterrupted == "interrupt" \notin Lapses \* no BaseException (runner.py:1245-1252)

CustodyInv == BaseInv /\ Once /\ Placed

\* A worker that _finish leaves leased is the session's.
LEMMA FinishPlaced ==
    ASSUME LeaseTypeOK, Held, Once, Placed,
           stream.life \in {"entering", "staging", "inside"},
           NEW r \in BOOLEAN, Finish(r)
    PROVE  Once' /\ Placed'
<1>0. /\ at \in [Workers -> Places] /\ stream \in Streams /\ ses \in Sesss
      /\ None \notin Workers /\ ~stream.finished
  BY StreamAssumption DEF LeaseTypeOK, Once
<1>1. stream' = [stream EXCEPT !.life = "out", !.retire = r, !.finished = TRUE, !.worker = None]
  BY <1>0 DEF Finish
<1>2. stream'.life = "out" /\ stream'.worker = None
  BY <1>0, <1>1 DEF Streams
<1>3. stream.worker \in Workers
  BY <1>0 DEF Held, Streams
<1>4. CASE stream.owner = "pool"
  <2>1. Releases(stream.worker, r, FreshWorkdir) /\ ses' = ses
    BY <1>0, <1>3, <1>4 DEF Finish
  <2>2. PICK to \in {"gone", "coming", "free"} : at' = [at EXCEPT ![stream.worker] = to]
    BY <2>1 DEF Releases
  <2>3. \A w \in Workers : at'[w] = "leased" => at[w] = "leased" /\ w # stream.worker
    BY <1>0, <2>2
  <2> QED BY <1>2, <2>1, <2>3 DEF Once, Placed
<1>5. CASE stream.owner = "session" /\ RetireNow
  <2>1. /\ ses' = [ses EXCEPT !.worker = None]
        /\ at' = IF ses.worker = None THEN at ELSE [at EXCEPT ![ses.worker] = "gone"]
    BY <1>5 DEF RetireNow
  <2>2. \A w \in Workers : at'[w] = "leased" => at[w] = "leased" /\ w # ses.worker
    BY <1>0, <2>1
  <2>3. \A w \in Workers : at[w] = "leased" => ses.worker = w
    BY <1>5 DEF Placed
  <2>4. ses'.worker = None
    BY <1>0, <2>1 DEF Sesss
  <2> QED BY <1>2, <2>2, <2>3, <2>4 DEF Once, Placed
<1>6. CASE stream.owner = "session" /\ UNCHANGED <<at, ses>>
  BY <1>2, <1>6 DEF Once, Placed
<1>7. stream.owner \in {"pool", "session"}
  BY <1>0 DEF Streams, Owners
<1> QED BY <1>0, <1>3, <1>4, <1>5, <1>6, <1>7 DEF Finish

\* The steps of the stream.
LEMMA StreamPlaced ==
    ASSUME EnteredOnce, Uninterrupted, LeaseTypeOK, Held, Once, Placed,
           \/ MakePoolStream \/ MakeSessionStream \/ Enter \/ Entering
           \/ Iterate \/ Complete \/ Leave
    PROVE  Once' /\ Placed'
<1>0. /\ at \in [Workers -> Places] /\ stream \in Streams /\ ses \in Sesss
      /\ None \notin Workers /\ stream.retire \in BOOLEAN
  BY StreamAssumption DEF LeaseTypeOK, Streams
<1>1. CASE MakePoolStream \/ MakeSessionStream
  <2>1. /\ stream.life \in {"none", "made", "out"} /\ UNCHANGED <<at, ses>>
        /\ \E o, b, i : stream' = NewStream(o, b, i)
    BY <1>1 DEF MakePoolStream, MakeSessionStream, Make, Replaceable
  <2>2. ~stream'.finished
    BY <2>1 DEF NewStream
  <2>3. \A w \in Workers : at'[w] = "leased" => ses'.worker = w
    BY <2>1 DEF Placed
  <2> QED BY <2>1, <2>2, <2>3 DEF Once, Placed
<1>2. CASE Enter
  <2>1. stream.life = "made" /\ ses' = ses
    BY <1>2 DEF Enter, MayEnter, EnteredOnce
  <2>2. CASE stream.owner = "pool"
    <3>1. PICK u \in Workers :
             Leases(u) /\ stream' = [stream EXCEPT !.life = "entering", !.worker = u]
      BY <1>2, <2>2 DEF Enter
    <3>2. /\ stream'.owner = "pool" /\ stream'.worker = u /\ stream'.life = "entering"
          /\ stream'.finished = stream.finished
      BY <1>0, <2>2, <3>1 DEF Streams
    <3>3. \A w \in Workers : at'[w] = "leased" => w = u \/ at[w] = "leased"
      BY <1>0, <3>1 DEF Leases
    <3>4. \A w \in Workers : at[w] = "leased" => ses.worker = w
      BY <2>1 DEF Placed
    <3> QED BY <2>1, <3>2, <3>3, <3>4 DEF Once, Placed
  <2>3. CASE stream.owner # "pool"
    <3>1. /\ stream' = [stream EXCEPT !.life = "entering", !.worker = stream.bound]
          /\ at' = at
      BY <1>2, <2>3 DEF Enter
    <3>2. stream'.finished = stream.finished
      BY <1>0, <3>1 DEF Streams
    <3> QED BY <2>1, <3>1, <3>2 DEF Once, Placed
  <2> QED BY <2>2, <2>3
<1>3. ASSUME stream.life \in {"entering", "staging", "inside"}, UNCHANGED <<at, ses>>,
             stream'.owner = stream.owner, stream'.worker = stream.worker,
             stream'.finished = stream.finished,
             stream'.life \in {"entering", "staging", "inside"}
      PROVE  Once' /\ Placed'
  BY <1>3 DEF Once, Placed
<1>4. CASE Entering
  <2>1. stream.life \in {"entering", "staging"}
    BY <1>4 DEF Entering, Stage, Staged
  <2>2. \/ Finish(TRUE)
        \/ UNCHANGED <<at, ses>> /\ \E l \in {"inside", "staging"} : stream' = [stream EXCEPT !.life = l]
    BY <1>4 DEF Entering, Stage, Staged, EnterFails, Escapes, Uninterrupted, lease
  <2>3. ASSUME NEW l \in {"inside", "staging"}, stream' = [stream EXCEPT !.life = l]
        PROVE  /\ stream'.owner = stream.owner /\ stream'.worker = stream.worker
               /\ stream'.finished = stream.finished /\ stream'.life = l
    BY <1>0, <2>3 DEF Streams
  <2> QED BY <1>3, <2>1, <2>2, <2>3, FinishPlaced
<1>5. CASE Leave
  <2>1. stream.life = "inside" /\ \E r \in BOOLEAN : Finish(r)
    BY <1>0, <1>5 DEF Leave
  <2> QED BY <2>1, FinishPlaced
<1>6. CASE Iterate \/ Complete
  <2>1. UNCHANGED <<at, ses>>
    BY <1>6 DEF Iterate, Complete, lease
  <2>2. /\ stream'.owner = stream.owner /\ stream'.worker = stream.worker
        /\ stream'.finished = stream.finished /\ stream'.life = stream.life
    BY <1>0, <1>6 DEF Iterate, Complete, Streams
  <2> QED BY <2>1, <2>2 DEF Once, Placed
<1> QED BY <1>1, <1>2, <1>4, <1>5, <1>6

\* The steps of the session, of the channel and of the workers.
LEMMA OthersPlaced ==
    ASSUME Uninterrupted, LeaseTypeOK, Once, Placed,
           \/ Sessions \/ Channel \/ Consume \/ UNCHANGED streamVars
           \/ \E w \in Workers : Wipe(w) \/ PodGoes(w)
    PROVE  Once' /\ Placed'
<1>0. /\ at \in [Workers -> Places] /\ ses \in Sesss /\ None \notin Workers
  BY StreamAssumption DEF LeaseTypeOK
<1>1. CASE SessionEnters
  <2>1. PICK u \in Workers :
           Leases(u) /\ ses' = [phase |-> "entering", home |-> u, worker |-> u]
    BY <1>1 DEF SessionEnters
  <2>2. \A w \in Workers : at'[w] = "leased" => w = u \/ at[w] = "leased"
    BY <1>0, <2>1 DEF Leases
  <2>3. ses.phase = "new" /\ ses.worker = None /\ stream' = stream
    BY <1>1 DEF SessionEnters, Placed
  <2> QED BY <1>0, <2>1, <2>2, <2>3 DEF Once, Placed
<1>2. CASE SessionReady
  <2>1. stream' = stream /\ ses'.phase \in {"open", "over"}
    BY <1>0, <1>2 DEF SessionReady, Sesss
  <2>2. CASE ses' = [ses EXCEPT !.phase = "open"] /\ UNCHANGED at
    <3>1. ses'.worker = ses.worker /\ ses'.phase = "open"
      BY <1>0, <2>2 DEF Sesss
    <3> QED BY <2>1, <2>2, <3>1 DEF Once, Placed
  <2>3. CASE at' = [at EXCEPT ![ses.worker] = "gone"]
    <3>1. \A w \in Workers : at'[w] = "leased" => at[w] = "leased" /\ w # ses.worker
      BY <1>0, <2>3
    <3> QED BY <2>1, <3>1 DEF Once, Placed
  <2> QED BY <1>2, <2>2, <2>3 DEF SessionReady, Uninterrupted
<1>3. CASE SessionCall
  <2>1. CASE UNCHANGED <<at, ses>>
    BY <1>3, <2>1 DEF SessionCall, Once, Placed
  <2>2. CASE RetireNow
    <3>1. at' = [at EXCEPT ![ses.worker] = "gone"] /\ ses'.phase = "open" /\ stream' = stream
      BY <1>0, <1>3, <2>2 DEF RetireNow, SessionCall, Sesss
    <3>2. \A w \in Workers : at'[w] = "leased" => at[w] = "leased" /\ w # ses.worker
      BY <1>0, <3>1
    <3> QED BY <3>1, <3>2 DEF Once, Placed
  <2> QED BY <1>3, <2>1, <2>2 DEF SessionCall
<1>4. CASE SessionExits
  <2>1. stream' = stream /\ ses'.phase = "over"
    BY <1>0, <1>4 DEF SessionExits, Sesss
  <2>2. \A w \in Workers : at'[w] = "leased" => at[w] = "leased" /\ w # ses.worker
    BY <1>0, <1>4 DEF SessionExits, Releases
  <2> QED BY <2>1, <2>2 DEF Once, Placed
<1>5. CASE Channel \/ Consume \/ UNCHANGED streamVars
  BY <1>5 DEF Channel, Consume, streamVars, lease, Once, Placed
<1>6. ASSUME NEW u \in Workers, Wipe(u) \/ PodGoes(u) PROVE Once' /\ Placed'
  <2>1. UNCHANGED <<stream, ses>>
    BY <1>6 DEF Wipe, PodGoes
  <2>2. \A w \in Workers : at'[w] = "leased" => at[w] = "leased"
    BY <1>0, <1>6 DEF Wipe, PodGoes
  <2> QED BY <2>1, <2>2 DEF Once, Placed
<1> QED BY <1>1, <1>2, <1>3, <1>4, <1>5, <1>6 DEF Sessions

\* No lease outlives its holder (runner.py:1201-1206): staging that fails gives the
\* worker up where __exit__ will not be called, and no path gives it up twice.  Both
\* assumptions are needed: a stream entered again leases a second worker that its
\* _finished flag keeps, and a BaseException in an __enter__ loses the worker.
THEOREM StreamsLoseNoWorker == EnteredOnce /\ Uninterrupted /\ Spec => []NoWorkerLost
<1> SUFFICES ASSUME EnteredOnce, Uninterrupted PROVE Spec => []NoWorkerLost
  OBVIOUS
<1>1. Init => CustodyInv
  <2> SUFFICES ASSUME Init PROVE Once /\ Placed
    BY InitBase DEF CustodyInv
  <2>1. ~stream.finished /\ ses.phase = "new" /\ ses.worker = None
    BY DEF Init, NewStream
  <2>2. \A w \in Workers : at[w] # "leased"
    BY DEF Init
  <2> QED BY <2>1, <2>2 DEF Once, Placed
<1>2. CustodyInv /\ [Next]_streamVars => CustodyInv'
  <2> SUFFICES ASSUME CustodyInv, [Next]_streamVars PROVE Once' /\ Placed'
    BY BaseKept DEF CustodyInv
  <2> QED BY StreamPlaced, OthersPlaced DEF CustodyInv, BaseInv, Next
<1>3. CustodyInv => NoWorkerLost
  BY DEF CustodyInv, Once, Placed, NoWorkerLost
<1> QED BY <1>1, <1>2, <1>3, PTL DEF Spec

----------------------------------------------------------------------------
(* What a result tells, of callers that enter a stream once and transports that do *)
(* not close without a status.                                                      *)

\* A result is the last thing a stream does with its channel.
ResultInv ==
    /\ stream.life \in {"none", "made", "entering", "staging"} => stream.gen = "none"
    /\ stream.gen = "none" => stream.result = "none"
    /\ stream.result \in {"ok", "error"} =>
          /\ stream.gen = "over" /\ pc = "end" /\ outcome = "code"
          /\ stream.result = IF code = 0 THEN "ok" ELSE "error"

TellInv == BaseInv /\ StatusInv /\ ResultInv

\* An exec that is over stays so until the next one begins.
LEMMA OverStays ==
    ASSUME pc = "end", ExecStep \/ Resume \/ Abandon
    PROVE  UNCHANGED <<pc, outcome, code>>
<1>1. CASE Worker
  BY <1>1 DEF Worker, Emit, CommandExits, UploaderWrites, UploaderConfirms, UploaderFails,
              SocketEnds, OrphanExits, Exits, quiet
<1>2. CASE DeadlinePasses \/ Resume \/ Abandon
  BY <1>2 DEF DeadlinePasses, Resume, Abandon, Loop, Yield
<1>3. CASE Client
  BY <1>3 DEF Client, Pump, TimesOut, Peek, Returns, Check, UploadEnds, ConnectionLost, LoopTop
<1> QED BY <1>1, <1>2, <1>3 DEF ExecStep

\* Every step.
LEMMA ResultKept ==
    ASSUME EnteredOnce, BaseInv, ResultInv, [Next]_streamVars
    PROVE  ResultInv'
<1>0. stream \in Streams /\ code \in {0, 1}
  BY DEF BaseInv, LeaseTypeOK, ExecInv, ExecTypeOK
<1>1. CASE MakePoolStream \/ MakeSessionStream
  <2>1. \E o, b, i : stream' = NewStream(o, b, i)
    BY <1>1 DEF MakePoolStream, MakeSessionStream, Make
  <2> QED BY <2>1 DEF NewStream, ResultInv
<1>2. CASE Enter
  <2>1. /\ stream.life = "made" /\ UNCHANGED execVars
        /\ \E w : stream' = [stream EXCEPT !.life = "entering", !.worker = w]
    BY <1>2 DEF Enter, MayEnter, EnteredOnce
  <2> QED BY <1>0, <2>1 DEF ResultInv, Streams, execVars
<1>3. ASSUME NEW r, Finish(r), UNCHANGED execVars PROVE ResultInv'
  <2>1. stream'.life = "out" /\ stream'.gen = stream.gen /\ stream'.result = stream.result
    BY <1>0, <1>3 DEF Finish, Streams
  <2> QED BY <1>3, <2>1 DEF ResultInv, execVars
<1>4. CASE Entering
  <2>1. stream.life \in {"entering", "staging"}
    BY <1>4 DEF Entering, Stage, Staged
  <2>2. \/ \E r : Finish(r) /\ UNCHANGED execVars
        \/ /\ stream' = [stream EXCEPT !.life = "out"]
           /\ UNCHANGED execVars
        \/ \E l \in {"inside", "staging"} : stream' = [stream EXCEPT !.life = l]
    BY <1>4 DEF Entering, Stage, Staged, EnterFails, Escapes, execVars, channel, process
  <2> QED BY <1>0, <1>3, <2>1, <2>2 DEF ResultInv, Streams, execVars
<1>5. CASE Iterate
  <2>1. /\ stream.gen = "none" /\ stream.life = "inside"
        /\ \E g \in {"over", "running"} : stream' = [stream EXCEPT !.gen = g]
    BY <1>5 DEF Iterate
  <2> QED BY <1>0, <2>1 DEF ResultInv, Streams
<1>6. CASE Complete
  <2>1. stream.gen = "running" /\ pc = "end" /\ UNCHANGED execVars
    BY <1>6 DEF Complete
  <2>2. stream.life \notin {"none", "made", "entering", "staging"}
        /\ stream.result \notin {"ok", "error"}
    BY <2>1 DEF ResultInv
  <2>3. \/ /\ outcome \in {"code", "timeout"}
           /\ \E b : stream' = [stream EXCEPT !.gen = "over", !.result = Result, !.retire = b]
        \/ \E b : stream' = [stream EXCEPT !.gen = "over", !.retire = b]
    BY <1>6 DEF Complete
  <2>4. /\ stream'.life = stream.life /\ stream'.gen = "over"
        /\ \/ stream'.result = stream.result
           \/ outcome \in {"code", "timeout"} /\ stream'.result = Result
    BY <1>0, <2>3 DEF Streams
  <2>5. Result \in {"ok", "error"} /\ outcome \in {"code", "timeout"} =>
           outcome = "code" /\ Result = IF code = 0 THEN "ok" ELSE "error"
    BY DEF Result
  <2>6. pc' = pc /\ outcome' = outcome /\ code' = code
    BY <2>1 DEF execVars
  <2> QED BY <2>1, <2>2, <2>4, <2>5, <2>6 DEF ResultInv
<1>7. CASE Leave
  BY <1>3, <1>7 DEF Leave
<1>8. CASE Channel \/ Consume
  <2>1. stream' = stream /\ (ExecStep \/ Resume \/ Abandon)
    BY <1>8 DEF Channel, Consume
  <2> QED BY <2>1, OverStays DEF ResultInv
<1>9. CASE \/ Sessions \/ UNCHANGED streamVars
           \/ \E w \in Workers : Wipe(w) \/ PodGoes(w)
  <2>1. stream' = stream /\ UNCHANGED execVars
    BY <1>9 DEF Sessions, SessionEnters, SessionReady, SessionCall, SessionExits,
                Wipe, PodGoes, streamVars
  <2> QED BY <2>1 DEF ResultInv, execVars
<1> QED BY <1>1, <1>2, <1>4, <1>5, <1>6, <1>7, <1>8, <1>9 DEF Next

\* A result with an exit code comes of a command that ended by itself, and ok of one
\* that ended with 0 (models.py:33-36, 47).  Both assumptions are needed: a close
\* without a status reads as 0, and a stream that is entered again begins an upload
\* while it still shows the result of its first run.
THEOREM ResultsTell ==
    EnteredOnce /\ HonestEndings /\ Spec => []ResultTells
<1> SUFFICES ASSUME EnteredOnce, HonestEndings PROVE Spec => []ResultTells
  OBVIOUS
<1>1. Init => TellInv
  <2> SUFFICES ASSUME Init PROVE ResultInv
    BY InitBase, StatusInit DEF TellInv, Init
  <2>1. stream = [NewStream("pool", None, FALSE) EXCEPT !.life = "none"]
    BY DEF Init
  <2>2. stream.gen = "none" /\ stream.result = "none"
    BY <2>1 DEF NewStream
  <2> QED BY <2>2 DEF ResultInv
<1>2. TellInv /\ [Next]_streamVars => TellInv'
  <2> SUFFICES ASSUME TellInv, [Next]_streamVars PROVE TellInv'
    OBVIOUS
  <2> QED BY BaseKept, StatusKept, StreamStepsExec, ResultKept DEF TellInv, BaseInv
<1>3. TellInv => ResultTells
  <2> SUFFICES ASSUME TellInv, stream.result \in {"ok", "error"}
               PROVE  outcome = "code" /\ proc = IF stream.result = "ok" THEN "exit0" ELSE "exit1"
    BY DEF ResultTells
  <2>1. outcome = "code" /\ stream.result = IF code = 0 THEN "ok" ELSE "error"
    BY DEF TellInv, ResultInv
  <2>2. Exited /\ code = IF proc = "exit0" THEN 0 ELSE 1
    BY <2>1 DEF TellInv, StatusInv
  <2> QED BY <2>1, <2>2 DEF Exited
<1> QED BY <1>1, <1>2, <1>3, PTL DEF Spec

===================================================================================
