----------------------------- MODULE ExecStreamProofs -----------------------------
(****************************************************************************)
(* The exec channel keeps its two promises, for every number of frames,     *)
(* every set of input files and every way the socket may end.               *)
(*                                                                          *)
(* The argument: what was read of the output is either taken or still in a  *)
(* buffer (Carried), a close is the last frame (LastFrame) and therefore    *)
(* the last one read (ReadAll), and no buffer holds anything when the loop  *)
(* stands at its top after the close (Drained).                             *)
(****************************************************************************)
EXTENDS ExecStream, TLAPS

Frames == Outputs \cup Statuses \cup Final

Exited == proc \in {"exit0", "exit1"}

LastFrame == \A i \in 1..Len(log) : log[i] \in Final => i = Len(log)
OkWritten == \A i \in 1..Len(log) : log[i] = "ok" => written = Files /\ Exited
Carried   == \A i \in 1..read : log[i] \in Outputs <=> i \in got \cup buf["out"] \cup buf["err"]
ReadAll   == pc \in Loop \cup Yield /\ ~open => read = Len(log)
Drained   ==
    /\ pc \in {"out_held", "err"} => buf["out"] = {}
    /\ pc \in {"err_held", "check", "top"} => buf["err"] = {} /\ (~open => buf["out"] = {})
OkExited  == outcome = "ok" => Exited
Rested    ==
    /\ pc \in {"idle", "end"} => ~open
    /\ outcome # "none" => pc = "end"

ExecInv ==
    /\ ExecTypeOK
    /\ LastFrame /\ OkWritten /\ Carried /\ ReadAll /\ Drained /\ Rested
    /\ OutputComplete /\ UploadComplete
    /\ OkExited

\* What the worker's end may add to the log: frames of which only the last ends it.
Ending(t) ==
    /\ t \in Seq(Frames)
    /\ \A i \in 1..Len(t) : t[i] \in Final => i = Len(t)

\* A status is that of the process, and a close follows a status.
StatusBefore(t, i) == i > 1 /\ t[i - 1] \in Statuses
Honest(t, p) ==
    \A i \in 1..Len(t) :
        /\ t[i] \in Statuses => p \in {"exit0", "exit1"} /\ t[i] = StatusOf(p)
        /\ t[i] = "close" => StatusBefore(t, i)

\* The transports that do not lie: the worker's own close, with its status, or none.
HonestEndings == Endings \subseteq {"status", "lost"}

Adds(t) ==
    /\ open /\ ~Ended
    /\ Ending(t)
    /\ HonestEndings => Honest(t, proc')
    /\ log' = log \o t
    /\ \A i \in 1..Len(t) : t[i] = "ok" => written = Files /\ proc' \in {"exit0", "exit1"}

----------------------------------------------------------------------------
(* The worker's end. *)

\* The frames that end a process, after the last of its output.
LEMMA EndTails ==
    ASSUME NEW p \in {"exit0", "exit1"}, NEW s \in Reports(p),
           NEW last \in {<<>>, <<"ok">>, <<"err">>}
    PROVE  LET t == last \o <<s, "close">>
           IN  /\ Ending(t)
               /\ HonestEndings => Honest(t, p)
               /\ last # <<"ok">> => \A i \in 1..Len(t) : t[i] # "ok"
<1> DEFINE t == last \o <<s, "close">>
<1>1. s \in {"Success", "ExitCode", "garbled"}
  BY DEF Reports, StatusOf
<1>2. last \in Seq(Frames) /\ <<s, "close">> \in Seq(Frames)
  <2>1. {"ok", "err", s, "close"} \subseteq Frames
    BY <1>1 DEF Frames, Outputs, Statuses, Final
  <2>2. <<>> \in Seq(Frames) /\ <<"ok">> \in Seq(Frames) /\ <<"err">> \in Seq(Frames)
    BY <2>1
  <2>3. <<s, "close">> \in Seq(Frames)
    BY <2>1
  <2> QED BY <2>2, <2>3
<1>3. t \in Seq(Frames) /\ Len(t) = Len(last) + 2
  BY <1>2
<1>4. \A i \in 1..Len(t) : t[i] = IF i <= Len(last) THEN last[i] ELSE <<s, "close">>[i - Len(last)]
  BY <1>2
<1>5. \A i \in 1..Len(last) : last[i] \in {"ok", "err"} /\ (last[i] = "ok" => last = <<"ok">>)
  OBVIOUS
<1>6. \A i \in 1..2 : <<s, "close">>[i] # "ok" /\ (<<s, "close">>[i] \in Final => i = 2)
  BY <1>1 DEF Final
<1>7. ASSUME NEW i \in 1..Len(t)
      PROVE  /\ t[i] \in Final => i = Len(t)
             /\ t[i] = "ok" => last = <<"ok">>
  <2>1. CASE i <= Len(last)
    BY <1>2, <1>4, <1>5, <2>1 DEF Final
  <2>2. CASE i > Len(last)
    <3>1. i - Len(last) \in 1..2 /\ t[i] = <<s, "close">>[i - Len(last)]
      BY <1>2, <1>3, <1>4, <2>2
    <3> QED BY <1>2, <1>3, <1>6, <3>1
  <2> QED BY <1>2, <2>1, <2>2
<1>8. ASSUME HonestEndings PROVE Honest(t, p)
  <2>1. s = StatusOf(p) /\ s \in Statuses
    BY <1>8 DEF HonestEndings, Reports, StatusOf, Statuses
  <2>2. t[Len(last) + 1] = s
    BY <1>2, <1>3, <1>4
  <2>3. SUFFICES ASSUME NEW i \in 1..Len(t)
                 PROVE  /\ t[i] \in Statuses => t[i] = StatusOf(p)
                        /\ t[i] = "close" => StatusBefore(t, i)
    BY DEF Honest
  <2>4. CASE i <= Len(last)
    BY <1>2, <1>4, <1>5, <2>4 DEF Statuses
  <2>5. CASE i = Len(last) + 1
    BY <2>1, <2>2, <2>5 DEF StatusOf
  <2>6. CASE i = Len(last) + 2
    <3>1. t[i] = "close"
      BY <1>2, <1>3, <1>4, <2>6
    <3>2. i - 1 = Len(last) + 1 /\ i > 1
      BY <1>2, <2>6
    <3> QED BY <2>1, <2>2, <3>1, <3>2 DEF StatusBefore, Statuses
  <2> QED BY <1>2, <1>3, <2>4, <2>5, <2>6
<1> QED BY <1>3, <1>7, <1>8 DEF Ending

\* Every step of the worker leaves the log alone or adds a tail to it.
LEMMA WorkerAdds ==
    ASSUME ExecTypeOK, Worker
    PROVE  /\ UNCHANGED quiet
           /\ proc' \in {"running", "exit0", "exit1"} /\ (proc' = proc \/ proc = "running")
           /\ written \subseteq written' /\ written' \subseteq Files
           /\ log' = log \/ \E t : Adds(t)
<1>1. log \in Seq(Frames) /\ written \subseteq Files
  BY DEF ExecTypeOK, Frames
<1>2. CASE Emit
  <2>1. PICK f \in {"out", "err"} : log' = Append(log, f)
    BY <1>2 DEF Emit
  <2>2. Append(log, f) = log \o <<f>> /\ Ending(<<f>>)
    BY <1>1 DEF Ending, Frames, Outputs, Final
  <2>3. \A i \in 1..Len(<<f>>) : <<f>>[i] # "ok"
    OBVIOUS
  <2>4. Honest(<<f>>, proc')
    BY DEF Honest, Statuses
  <2>5. Adds(<<f>>)
    BY <1>2, <2>1, <2>2, <2>3, <2>4 DEF Emit, Sending, Adds
  <2> QED BY <1>1, <1>2, <2>5 DEF Emit, Sending, process
<1>3. ASSUME NEW p \in {"exit0", "exit1"}, Sending,
             NEW last \in {<<>>, <<"ok">>, <<"err">>}, Exits(p, last),
             last = <<"ok">> => written = Files
      PROVE  /\ UNCHANGED quiet /\ proc' = p /\ proc = "running" /\ written' = written
             /\ \E t : Adds(t)
  <2>1. PICK s \in Reports(p) : log' = log \o last \o <<s, "close">>
    BY <1>3 DEF Exits
  <2>2. s \in Frames /\ log \o last \o <<s, "close">> = log \o (last \o <<s, "close">>)
    BY <1>1 DEF Frames, Outputs, Statuses, Final, Reports, StatusOf
  <2>3. proc' = p
    BY <1>3 DEF Exits
  <2>4. Adds(last \o <<s, "close">>)
    BY <1>3, <2>1, <2>2, <2>3, EndTails DEF Adds, Sending
  <2> QED BY <1>3, <2>4 DEF Exits, Sending
<1>4. CASE CommandExits
  <2>1. PICK p \in {"exit0", "exit1"} : Exits(p, <<>>)
    BY <1>4 DEF CommandExits
  <2> QED BY <1>1, <1>3, <1>4, <2>1 DEF CommandExits
<1>5. CASE UploaderConfirms
  BY <1>1, <1>3, <1>5 DEF UploaderConfirms
<1>6. CASE UploaderFails
  BY <1>1, <1>3, <1>6 DEF UploaderFails
<1>7. CASE SocketEnds
  <2>1. PICK e \in Endings \cap DOMAIN Ends : log' = log \o Ends[e]
    BY <1>7 DEF SocketEnds
  <2>2. Ends[e] \in {<<"close">>, <<"Failure", "close">>, <<"lost">>}
    BY DEF Ends
  <2>3. /\ Ending(<<"close">>) /\ Ending(<<"Failure", "close">>) /\ Ending(<<"lost">>)
        /\ \A i \in 1..Len(<<"close">>) : <<"close">>[i] # "ok"
        /\ \A i \in 1..Len(<<"lost">>) : <<"lost">>[i] # "ok"
        /\ \A i \in 1..Len(<<"Failure", "close">>) : <<"Failure", "close">>[i] # "ok"
    BY DEF Ending, Frames, Statuses, Final
  <2>4. ASSUME HonestEndings PROVE Honest(Ends[e], proc')
    <3>1. Ends[e] = <<"lost">>
      BY <2>4 DEF HonestEndings, Ends
    <3> QED BY <3>1 DEF Honest, Statuses
  <2>5. Adds(Ends[e])
    BY <1>7, <2>1, <2>2, <2>3, <2>4 DEF Adds, SocketEnds, Sending
  <2> QED BY <1>1, <1>7, <2>5 DEF SocketEnds, Sending, process
<1>8. CASE UploaderWrites
  BY <1>1, <1>8 DEF UploaderWrites, Sending
<1>9. CASE OrphanExits
  BY <1>1, <1>9 DEF OrphanExits
<1> QED BY <1>2, <1>4, <1>5, <1>6, <1>7, <1>8, <1>9 DEF Worker

----------------------------------------------------------------------------
(* The invariant. *)

\* Before the first exec.
LEMMA ExecInitInv == ExecInit => ExecInv
<1> SUFFICES ASSUME ExecInit PROVE ExecInv
  OBVIOUS
<1> USE DEF ExecInit, NoBuf
<1>1. ExecTypeOK
  <2>1. log \in Seq(Outputs \cup Statuses \cup Final) /\ read \in 0..Len(log)
    OBVIOUS
  <2>2. buf \in [{"out", "err"} -> SUBSET (1..read)]
    OBVIOUS
  <2> QED BY <2>1, <2>2 DEF ExecTypeOK, Loop, Yield
<1>2. LastFrame /\ OkWritten /\ Carried /\ ReadAll /\ Drained /\ Rested
  BY DEF LastFrame, OkWritten, Carried, ReadAll, Drained, Rested, Loop, Yield
<1> QED BY <1>1, <1>2 DEF ExecInv, OutputComplete, UploadComplete, OkExited, Exited

\* A new exec, or none, forgets the one before.
LEMMA BeginInv ==
    ASSUME ExecInv, NEW j \in {"none", "exec", "upload"}, Connected(j),
           proc' \in {"none", "running"}, open' \in BOOLEAN,
           \/ pc' = "top" /\ outcome' = "none" /\ open'
           \/ pc' \in {"idle", "end"} /\ outcome' \in {"none", "failed"} /\ ~open',
           outcome' = "failed" => pc' = "end"
    PROVE  ExecInv'
<1> USE DEF Connected, NoBuf
<1>1. ExecTypeOK'
  <2>1. log' \in Seq(Outputs \cup Statuses \cup Final) /\ read' \in 0..Len(log')
    OBVIOUS
  <2>2. buf' \in [{"out", "err"} -> SUBSET (1..read')]
    OBVIOUS
  <2> QED BY <2>1, <2>2 DEF ExecTypeOK, Loop, Yield
<1>2. LastFrame' /\ OkWritten' /\ Carried' /\ ReadAll' /\ Drained' /\ Rested'
  BY DEF LastFrame, OkWritten, Carried, ReadAll, Drained, Rested, Loop, Yield
<1> QED BY <1>1, <1>2 DEF ExecInv, OutputComplete, UploadComplete, OkExited, Exited

\* The worker's end: what it adds is not read yet, and nothing is added after a
\* frame that ends the socket or to one that the client closed.
LEMMA WorkerInv == ASSUME ExecInv, Worker PROVE ExecInv'
<1> USE DEF ExecInv
<1>1. /\ UNCHANGED <<job, read, open, buf, status, got, late, pc, outcome, code>>
      /\ proc' \in {"running", "exit0", "exit1"} /\ (proc' = proc \/ proc = "running")
      /\ written \subseteq written' /\ written' \subseteq Files
  BY WorkerAdds DEF quiet, channel
<1>2. log' = log \/ \E t : Adds(t)
  BY WorkerAdds
<1>3. log \in Seq(Frames) /\ read \in 0..Len(log)
  BY DEF ExecTypeOK, Frames
<1>4. CASE log' = log
  <2>1. ExecTypeOK'
    BY <1>1, <1>4 DEF ExecTypeOK
  <2>2. OkWritten' /\ UploadComplete' /\ OkExited'
    BY <1>1, <1>4 DEF OkWritten, UploadComplete, OkExited, Exited, ExecTypeOK
  <2>3. LastFrame' /\ Carried' /\ ReadAll' /\ Drained' /\ Rested' /\ OutputComplete'
    BY <1>1, <1>4 DEF LastFrame, Carried, ReadAll, Drained, Rested, OutputComplete
  <2> QED BY <2>1, <2>2, <2>3
<1>5. ASSUME NEW t, Adds(t) PROVE ExecInv'
  <2>1. /\ t \in Seq(Frames) /\ log' = log \o t /\ open /\ ~Ended
        /\ \A i \in 1..Len(t) : t[i] \in Final => i = Len(t)
        /\ \A i \in 1..Len(t) : t[i] = "ok" => written = Files /\ proc' \in {"exit0", "exit1"}
    BY <1>5 DEF Adds, Ending
  <2>2. /\ log' \in Seq(Frames) /\ Len(log') = Len(log) + Len(t)
        /\ \A i \in 1..Len(log) : log'[i] = log[i]
        /\ \A i \in 1..Len(log') : i > Len(log) =>
              log'[i] = t[i - Len(log)] /\ i - Len(log) \in 1..Len(t)
    BY <1>3, <2>1
  <2>3. \A i \in 1..Len(log) : log[i] \notin Final
    BY <1>3, <2>1 DEF Ended, LastFrame
  <2>4. ExecTypeOK'
    <3>1. log' \in Seq(Outputs \cup Statuses \cup Final) /\ read' \in 0..Len(log')
      BY <1>1, <1>3, <2>2 DEF Frames
    <3> QED BY <1>1, <3>1 DEF ExecTypeOK
  <2>5. LastFrame'
    <3> SUFFICES ASSUME NEW i \in 1..Len(log'), log'[i] \in Final PROVE i = Len(log')
      BY DEF LastFrame
    <3>1. i > Len(log)
      BY <1>3, <2>2, <2>3
    <3>2. i - Len(log) \in 1..Len(t) /\ t[i - Len(log)] \in Final
      BY <2>2, <3>1
    <3>3. i - Len(log) = Len(t)
      BY <2>1, <3>2
    <3>4. Len(log) \in Nat /\ Len(t) \in Nat /\ i \in Int /\ Len(log') = Len(log) + Len(t)
      BY <1>3, <2>1, <2>2
    <3> QED BY <3>3, <3>4
  <2>6. OkWritten'
    <3> SUFFICES ASSUME NEW i \in 1..Len(log'), log'[i] = "ok" PROVE written' = Files /\ Exited'
      BY DEF OkWritten
    <3>1. written = Files /\ proc' \in {"exit0", "exit1"}
      <4>1. CASE i <= Len(log)
        BY <1>1, <1>3, <2>2, <4>1 DEF OkWritten, Exited
      <4>2. CASE i > Len(log)
        BY <1>3, <2>1, <2>2, <4>2
      <4> QED BY <1>3, <2>2, <4>1, <4>2
    <3> QED BY <1>1, <3>1 DEF Exited
  <2>7. Carried'
    BY <1>1, <1>3, <2>2 DEF Carried
  <2>8. pc' # "end" /\ pc' # "idle" /\ outcome' = "none"
    BY <1>1, <2>1 DEF Rested
  <2>9. ReadAll' /\ Drained' /\ Rested' /\ OutputComplete' /\ UploadComplete' /\ OkExited'
    BY <1>1, <2>1, <2>8 DEF ReadAll, Drained, Rested, OutputComplete, UploadComplete, OkExited, Exited
  <2> QED BY <2>4, <2>5, <2>6, <2>7, <2>9
<1> QED BY <1>2, <1>4, <1>5

----------------------------------------------------------------------------
(* The client. *)

\* What update() reads: the places taken or buffered after it are those before and
\* the place of the frame, when that is output; after a close there is nothing left
\* to read.
LEMMA UpdateReads ==
    ASSUME ExecInv, Update, log' = log
    PROVE  /\ read' \in 0..Len(log) /\ read <= read'
           /\ open' \in BOOLEAN /\ (open' => open)
           /\ status' \in Statuses \cup {"none"}
           /\ buf["out"] \subseteq Buffered("out") /\ buf["err"] \subseteq Buffered("err")
           /\ Buffered("out") \subseteq 1..read' /\ Buffered("err") \subseteq 1..read'
           /\ \A i \in 1..read' : log[i] \in Outputs <=>
                  i \in got \cup Buffered("out") \cup Buffered("err")
           /\ ~open' /\ (open \/ read = Len(log)) => read' = Len(log)
           /\ ~open' => Buffered("out") = buf["out"] /\ Buffered("err") = buf["err"]
<1> USE DEF ExecInv
<1>1. /\ log \in Seq(Frames) /\ read \in 0..Len(log) /\ open \in BOOLEAN
      /\ buf["out"] \subseteq 1..read /\ buf["err"] \subseteq 1..read /\ got \subseteq 1..read
      /\ status \in Statuses \cup {"none"}
  BY DEF ExecTypeOK, Frames
<1>2. CASE ~Arrives
  <2>1. /\ read' = read /\ status' = status /\ open' = open
        /\ Buffered("out") = buf["out"] /\ Buffered("err") = buf["err"]
    BY <1>1, <1>2 DEF Update, Buffered
  <2> QED BY <1>1, <2>1 DEF Carried
<1>3. CASE Arrives
  <2>1. /\ read' = read + 1 /\ read + 1 \in 1..Len(log)
        /\ Frame = log[read + 1] /\ Frame \in Frames
    BY <1>1, <1>3 DEF Update, Arrives, Frame
  <2>2. /\ open' = (open /\ Frame # "close")
        /\ status' = IF Frame \in Statuses THEN Frame ELSE status
    BY <1>1, <1>3 DEF Update
  <2>3. /\ Buffered("out") = buf["out"] \cup (IF Frame \in {"out", "ok"} THEN {read + 1} ELSE {})
        /\ Buffered("err") = buf["err"] \cup (IF Frame = "err" THEN {read + 1} ELSE {})
    BY <1>3 DEF Buffered, Chan
  <2>4. \A i \in 1..read' : log[i] \in Outputs <=>
           i \in got \cup Buffered("out") \cup Buffered("err")
    <3> SUFFICES ASSUME NEW i \in 1..read'
                 PROVE  log[i] \in Outputs <=> i \in got \cup Buffered("out") \cup Buffered("err")
      OBVIOUS
    <3>1. CASE i = read + 1
      <4>1. i \notin got \cup buf["out"] \cup buf["err"]
        BY <1>1, <3>1
      <4> QED BY <2>1, <2>3, <3>1, <4>1 DEF Outputs
    <3>2. CASE i \in 1..read
      <4>1. i # read + 1
        BY <1>1, <3>2
      <4> QED BY <2>3, <3>2, <4>1 DEF Carried
    <3> QED BY <1>1, <2>1, <3>1, <3>2
  <2>5. Frame = "close" => read + 1 = Len(log)
    BY <2>1 DEF LastFrame, Final
  <2>6. open
    BY <1>3 DEF Arrives
  <2>7. status' \in Statuses \cup {"none"}
    BY <1>1, <2>2
  <2>8. ~open' => /\ read' = Len(log)
                  /\ Buffered("out") = buf["out"] /\ Buffered("err") = buf["err"]
    BY <2>1, <2>2, <2>3, <2>5, <2>6
  <2>9. Buffered("out") \subseteq 1..read' /\ Buffered("err") \subseteq 1..read'
    BY <1>1, <2>1, <2>3
  <2>10. /\ buf["out"] \subseteq Buffered("out") /\ buf["err"] \subseteq Buffered("err")
         /\ read' \in 0..Len(log) /\ read <= read' /\ open' \in BOOLEAN
    BY <1>1, <2>1, <2>2, <2>3
  <2> QED BY <2>4, <2>6, <2>7, <2>8, <2>9, <2>10
<1> QED BY <1>2, <1>3

\* The part of the invariant that only speaks of the process and of the log.
LEMMA ClientKeepsLog ==
    ASSUME ExecInv, UNCHANGED <<process, log>>
    PROVE  LastFrame' /\ OkWritten'
BY DEF ExecInv, LastFrame, OkWritten, Exited, process

\* One turn of update() at the top of the loop.
LEMMA PumpInv == ASSUME ExecInv, Pump PROVE ExecInv'
<1> USE DEF ExecInv
<1>1. /\ pc = "top" /\ pc' = "out" /\ open /\ Update
      /\ UNCHANGED <<job, process, log, got, late, outcome, code>>
      /\ buf' = [ch \in {"out", "err"} |-> Buffered(ch)]
  BY DEF Pump, LoopTop, Closed
<1>2. buf'["out"] = Buffered("out") /\ buf'["err"] = Buffered("err")
  BY <1>1
<1>3. ExecTypeOK'
  <2>1. buf' \in [{"out", "err"} -> SUBSET (1..read')]
    BY <1>1, UpdateReads
  <2>2. got' \subseteq 1..read' /\ read' \in 0..Len(log')
    BY <1>1, UpdateReads DEF ExecTypeOK
  <2>3. status' \in Statuses \cup {"none"} /\ open' \in BOOLEAN
    BY <1>1, UpdateReads
  <2> QED BY <1>1, <2>1, <2>2, <2>3 DEF ExecTypeOK, Loop, process
<1>4. Carried'
  BY <1>1, <1>2, UpdateReads DEF Carried
<1>5. ReadAll'
  BY <1>1, UpdateReads DEF ReadAll
<1>6. outcome' = "none"
  BY <1>1 DEF Rested
<1>7. Drained' /\ Rested' /\ OutputComplete' /\ UploadComplete' /\ OkExited'
  BY <1>1, <1>6 DEF Drained, Rested, OutputComplete, UploadComplete, OkExited, Exited
<1> QED BY <1>1, <1>3, <1>4, <1>5, <1>7, ClientKeepsLog

\* A peek takes what its channel has, and leaves the other what arrived for it.
LEMMA PeekInv == ASSUME ExecInv, NEW ch \in {"out", "err"}, Peek(ch) PROVE ExecInv'
<1> USE DEF ExecInv
<1>1. /\ pc = ch /\ Update
      /\ UNCHANGED <<job, process, log, late, outcome, code>>
      /\ buf' = [c \in {"out", "err"} |-> IF c = ch THEN {} ELSE Buffered(c)]
      /\ got' = got \cup Buffered(ch)
      /\ pc' \in IF ch = "out" THEN {"out_held", "err"} ELSE {"err_held", "check", "top"}
  BY DEF Peek, Kept, After
<1>2. /\ buf'["out"] = IF ch = "out" THEN {} ELSE Buffered("out")
      /\ buf'["err"] = IF ch = "err" THEN {} ELSE Buffered("err")
  BY <1>1
<1>3. ExecTypeOK'
  <2>0. Buffered("out") \in SUBSET (1..read') /\ Buffered("err") \in SUBSET (1..read')
    BY <1>1, UpdateReads
  <2>1. buf' \in [{"out", "err"} -> SUBSET (1..read')]
    <3>1. \A c \in {"out", "err"} : (IF c = ch THEN {} ELSE Buffered(c)) \in SUBSET (1..read')
      BY <2>0
    <3>2. buf' = [c \in {"out", "err"} |-> IF c = ch THEN {} ELSE Buffered(c)]
      BY <1>1
    <3> QED BY <3>1, <3>2
  <2>2. got' \subseteq 1..read' /\ read' \in 0..Len(log')
    <3>1. /\ log \in Seq(Frames) /\ read \in Nat /\ got \subseteq 1..read
          /\ read' \in 0..Len(log) /\ read <= read'
      BY <1>1, UpdateReads DEF ExecTypeOK, Frames
    <3>2. got \subseteq 1..read'
      BY <3>1
    <3>3. Buffered(ch) \subseteq 1..read'
      BY <2>0
    <3> QED BY <1>1, <3>1, <3>2, <3>3
  <2>3. status' \in Statuses \cup {"none"} /\ open' \in BOOLEAN
    BY <1>1, UpdateReads
  <2> QED BY <1>1, <2>1, <2>2, <2>3 DEF ExecTypeOK, Loop, Yield, process
<1>4. Carried'
  BY <1>1, <1>2, UpdateReads DEF Carried
<1>5. ReadAll'
  <2>1. open \/ read = Len(log)
    BY <1>1 DEF ReadAll, Loop
  <2> QED BY <1>1, <2>1, UpdateReads DEF ReadAll
<1>6. Drained'
  <2>1. CASE ch = "out"
    BY <1>1, <1>2, <2>1 DEF Drained
  <2>2. CASE ch = "err"
    <3>1. buf["out"] = {}
      BY <1>1, <2>2 DEF Drained
    <3> QED BY <1>1, <1>2, <2>2, <3>1, UpdateReads DEF Drained
  <2> QED BY <2>1, <2>2
<1>7. outcome' = "none"
  BY <1>1 DEF Rested
<1>8. Rested' /\ OutputComplete' /\ UploadComplete' /\ OkExited'
  BY <1>1, <1>7 DEF Rested, OutputComplete, UploadComplete, OkExited, Exited
<1> QED BY <1>1, <1>3, <1>4, <1>5, <1>6, <1>8, ClientKeepsLog

\* The finally of the loop.  An exit code needs all of the output, ok every file.
LEMMA StopInv ==
    ASSUME ExecInv, NEW o \in {"code", "timeout", "failed", "abandoned", "ok"}, Stop(o),
           code' \in {0, 1},
           o = "code" => got = {i \in 1..Len(log) : log[i] \in Outputs},
           o = "ok" => written = Files /\ Exited
    PROVE  ExecInv'
<1> USE DEF ExecInv
<1>1. /\ pc' = "end" /\ outcome' = o /\ ~open' /\ open' \in BOOLEAN
      /\ UNCHANGED <<job, process, log, read, buf, status, got, late>>
  BY DEF Stop
<1>2. ExecTypeOK'
  BY <1>1 DEF ExecTypeOK, process
<1>3. Carried' /\ ReadAll' /\ Drained' /\ Rested'
  BY <1>1 DEF Carried, ReadAll, Drained, Rested, Loop, Yield
<1>4. OutputComplete' /\ UploadComplete' /\ OkExited'
  BY <1>1 DEF OutputComplete, UploadComplete, OkExited, Exited, process
<1> QED BY <1>1, <1>2, <1>3, <1>4, ClientKeepsLog

\* After the close nothing is buffered at the top of the loop.
LEMMA ReturnsAll ==
    ASSUME ExecInv, LoopTop, Closed
    PROVE  got = {i \in 1..Len(log) : log[i] \in Outputs}
<1> USE DEF ExecInv
<1>1. read = Len(log) /\ buf["out"] = {} /\ buf["err"] = {}
  BY DEF LoopTop, Closed, ReadAll, Drained, Loop
<1>2. got \subseteq 1..Len(log)
  BY <1>1 DEF ExecTypeOK
<1>3. \A i \in 1..Len(log) : log[i] \in Outputs <=> i \in got
  BY <1>1 DEF Carried
<1> QED BY <1>2, <1>3

\* The confirmation is only sent when every file is written.
LEMMA ConfirmedWritten == ASSUME ExecInv, Confirmed PROVE written = Files /\ Exited
<1>1. PICK i \in got : log[i] = "ok"
  BY DEF Confirmed
<1>2. i \in 1..Len(log)
  BY DEF ExecInv, ExecTypeOK
<1> QED BY <1>1, <1>2 DEF ExecInv, OkWritten

\* Every step of the client and of the generator's consumer.
LEMMA ClientInv ==
    ASSUME ExecInv, Client \/ Resume \/ Abandon \/ DeadlinePasses
    PROVE  ExecInv'
<1>0. code \in {0, 1} /\ ExitCode(status) \in {0, 1}
  BY DEF ExecInv, ExecTypeOK, ExitCode
<1>1. CASE TimesOut
  BY <1>0, <1>1, StopInv DEF TimesOut
<1>2. CASE Returns
  BY <1>0, <1>2, StopInv, ReturnsAll DEF Returns
<1>3. CASE UploadEnds
  BY <1>0, <1>3, StopInv, ConfirmedWritten DEF UploadEnds
<1>4. CASE ConnectionLost
  BY <1>0, <1>4, StopInv DEF ConnectionLost
<1>5. CASE Abandon
  BY <1>0, <1>5, StopInv DEF Abandon
<1>6. CASE Check /\ Confirmed
  BY <1>0, <1>6, StopInv, ConfirmedWritten DEF Check
<1>7. CASE Check /\ ~Confirmed
  <2>1. /\ pc = "check" /\ pc' = "top"
        /\ UNCHANGED <<job, process, log, channel, late, outcome, code>>
    BY <1>7 DEF Check
  <2> QED BY <2>1 DEF ExecInv, ExecTypeOK, LastFrame, OkWritten, Carried, ReadAll, Drained,
                      Rested, OutputComplete, UploadComplete, OkExited, Exited, process, channel, Loop
<1>8. CASE Resume
  <2>1. /\ pc \in Yield /\ pc' = IF pc = "out_held" THEN "err" ELSE "top"
        /\ UNCHANGED <<job, process, log, channel, late, outcome, code>>
    BY <1>8 DEF Resume
  <2>2. Drained'
    BY <2>1 DEF ExecInv, Drained, Yield, channel
  <2> QED BY <2>1, <2>2 DEF ExecInv, ExecTypeOK, LastFrame, OkWritten, Carried, ReadAll,
                      Rested, OutputComplete, UploadComplete, OkExited, Exited, process, channel, Loop, Yield
<1>9. CASE DeadlinePasses
  <2>1. late' \in BOOLEAN /\ UNCHANGED <<job, process, log, channel, pc, outcome, code>>
    BY <1>9 DEF DeadlinePasses
  <2> QED BY <2>1 DEF ExecInv, ExecTypeOK, LastFrame, OkWritten, Carried, ReadAll, Drained,
                      Rested, OutputComplete, UploadComplete, OkExited, Exited, process, channel
<1> QED BY <1>1, <1>2, <1>3, <1>4, <1>5, <1>6, <1>7, <1>8, <1>9, PumpInv, PeekInv DEF Client, Check

\* Every step of the channel, and every step of anything else that leaves it alone.
LEMMA ExecNextInv == ExecInv /\ [ExecNext]_execVars => ExecInv'
<1> SUFFICES ASSUME ExecInv, [ExecNext]_execVars PROVE ExecInv'
  OBVIOUS
<1>1. CASE NoExec
  BY <1>1, BeginInv DEF NoExec
<1>2. ASSUME NEW j \in {"exec", "upload"}, Begin(j) \/ BeginFails(j) PROVE ExecInv'
  BY <1>2, BeginInv DEF Begin, BeginFails
<1>3. CASE ExecStep \/ Abandon
  BY <1>3, WorkerInv, ClientInv DEF ExecStep
<1>4. CASE UNCHANGED execVars
  BY <1>4 DEF ExecInv, ExecTypeOK, LastFrame, OkWritten, Carried, ReadAll, Drained,
              Rested, OutputComplete, UploadComplete, OkExited, Exited, execVars
<1> QED BY <1>1, <1>2, <1>3, <1>4 DEF ExecNext

----------------------------------------------------------------------------
(* The theorems. *)

\* In every state of the channel, for every constants.
THEOREM ExecInvHolds == ExecSpec => []ExecInv
<1> QED BY ExecInitInv, ExecNextInv, PTL DEF ExecSpec

\* An exit code is returned after all of the output (_exec.py:103-105, 139-144).
THEOREM ExitCodeAfterOutput == ExecSpec => []OutputComplete
<1>1. ExecInv => OutputComplete
  BY DEF ExecInv
<1> QED BY <1>1, ExecInvHolds, PTL

\* upload_files returns only when every file is written (_exec.py:58-60).
THEOREM UploadReturnsWhenWritten == ExecSpec => []UploadComplete
<1>1. ExecInv => UploadComplete
  BY DEF ExecInv
<1> QED BY <1>1, ExecInvHolds, PTL

----------------------------------------------------------------------------
(* What an exit code tells, when the transport never closes without a status. *)

\* The status of the log is that of the process, a close follows it, and when the
\* loop sees the close it has read it.
StatusInv ==
    /\ \A i \in 1..Len(log) : log[i] \in Statuses => Exited /\ log[i] = StatusOf(proc)
    /\ \A i \in 1..Len(log) : log[i] = "close" => StatusBefore(log, i)
    /\ \A i \in 1..read : log[i] \in Statuses => status # "none"
    /\ status # "none" => Exited /\ status = StatusOf(proc)
    /\ pc \in Loop \cup Yield /\ ~open => status # "none"
    /\ outcome = "code" => Exited /\ code = IF proc = "exit0" THEN 0 ELSE 1

\* A new exec.
LEMMA BeginStatus ==
    ASSUME NEW j, Connected(j), outcome' # "code", pc' \notin Loop \cup Yield \/ open'
    PROVE  StatusInv'
BY DEF Connected, StatusInv

\* The worker's end: a process that ends was running, so no status was sent before.
LEMMA WorkerStatus == ASSUME HonestEndings, ExecInv, StatusInv, Worker PROVE StatusInv'
<1>0. /\ log \in Seq(Frames) /\ read \in 0..Len(log)
      /\ UNCHANGED <<read, open, status, pc, outcome, code>>
      /\ proc' = proc \/ proc = "running"
      /\ log' = log \/ \E t : Adds(t)
  BY WorkerAdds DEF ExecInv, ExecTypeOK, Frames, quiet, channel
<1>1. CASE proc' = proc /\ log' = log
  BY <1>0, <1>1 DEF StatusInv, Exited
<1>2. CASE proc = "running" /\ log' = log
  BY <1>0, <1>2 DEF StatusInv, Exited
<1>3. ASSUME NEW t, Adds(t) PROVE StatusInv'
  <2>1. /\ t \in Seq(Frames) /\ log' = log \o t /\ open /\ ~Ended /\ Honest(t, proc')
    BY <1>3 DEF Adds, Ending
  <2>2. /\ log' \in Seq(Frames) /\ Len(log') = Len(log) + Len(t)
        /\ Len(log) \in Nat /\ Len(t) \in Nat
        /\ \A i \in 1..Len(log) : log'[i] = log[i]
        /\ \A i \in 1..Len(log') : i > Len(log) =>
              log'[i] = t[i - Len(log)] /\ i - Len(log) \in 1..Len(t)
    BY <1>0, <2>1
  <2>3. \A i \in 1..Len(log) : log[i] \notin Final
    BY <1>0, <2>1 DEF Ended, ExecInv, LastFrame
  <2>4. ASSUME NEW i \in 1..Len(log'), log'[i] \in Statuses
        PROVE  Exited' /\ log'[i] = StatusOf(proc')
    <3>1. CASE i <= Len(log)
      <4>1. i \in 1..Len(log) /\ log[i] \in Statuses
        BY <2>2, <2>4, <3>1
      <4>2. Exited /\ log[i] = StatusOf(proc)
        BY <4>1 DEF StatusInv
      <4>3. proc' = proc
        BY <1>0, <4>2 DEF Exited
      <4> QED BY <2>2, <4>1, <4>2, <4>3 DEF Exited
    <3>2. CASE i > Len(log)
      BY <2>1, <2>2, <2>4, <3>2 DEF Honest, Exited
    <3> QED BY <2>2, <3>1, <3>2
  <2>5. ASSUME NEW i \in 1..Len(log'), log'[i] = "close" PROVE StatusBefore(log', i)
    <3>1. i > Len(log)
      BY <2>2, <2>3, <2>5 DEF Final
    <3>2. i - Len(log) \in 1..Len(t) /\ t[i - Len(log)] = "close"
      BY <2>2, <2>5, <3>1
    <3>3. i - Len(log) > 1 /\ t[i - Len(log) - 1] \in Statuses
      BY <2>1, <3>2 DEF Honest, StatusBefore
    <3>4. i - 1 \in 1..Len(log') /\ i - 1 > Len(log) /\ (i - 1) - Len(log) = i - Len(log) - 1
      BY <2>2, <3>1, <3>3
    <3>5. log'[i - 1] = t[i - Len(log) - 1]
      BY <2>2, <3>4
    <3> QED BY <2>2, <3>3, <3>4, <3>5 DEF StatusBefore
  <2>6. \A i \in 1..read' : log'[i] \in Statuses => status' # "none"
    BY <1>0, <2>2 DEF StatusInv
  <2>7. status' # "none" => Exited' /\ status' = StatusOf(proc')
    BY <1>0 DEF StatusInv, Exited
  <2>8. pc' \in Loop \cup Yield /\ ~open' => status' # "none"
    BY <1>0 DEF StatusInv
  <2>9. outcome' = "code" => Exited' /\ code' = IF proc' = "exit0" THEN 0 ELSE 1
    BY <1>0 DEF StatusInv, Exited
  <2> QED BY <2>4, <2>5, <2>6, <2>7, <2>8, <2>9 DEF StatusInv
<1> QED BY <1>0, <1>1, <1>2, <1>3

\* update(): the status is kept when it is read, before the close that follows it.
LEMMA UpdateStatus ==
    ASSUME ExecInv, StatusInv, Update, UNCHANGED <<proc, log, outcome, code>>,
           pc \in Loop
    PROVE  StatusInv'
<1>0. /\ log \in Seq(Frames) /\ read \in 0..Len(log)
      /\ status \in Statuses \cup {"none"} /\ "none" \notin Statuses
      /\ open \in BOOLEAN
  BY DEF ExecInv, ExecTypeOK, Frames, Statuses
<1>1. CASE ~Arrives
  <2>1. read' = read /\ open' = open /\ status' = status
    BY <1>0, <1>1 DEF Update
  <2> QED BY <2>1 DEF StatusInv, Exited, Loop, Yield
<1>2. CASE Arrives
  <2>1. /\ read' = read + 1 /\ read + 1 \in 1..Len(log) /\ Frame = log[read + 1]
        /\ status' = (IF Frame \in Statuses THEN Frame ELSE status)
        /\ open' = (open /\ Frame # "close") /\ open
    BY <1>0, <1>2 DEF Update, Arrives, Frame
  <2>2. \A i \in 1..read' : log[i] \in Statuses => status' # "none"
    <3> SUFFICES ASSUME NEW i \in 1..read', log[i] \in Statuses PROVE status' # "none"
      OBVIOUS
    <3>1. CASE i = read + 1
      BY <1>0, <2>1, <3>1
    <3>2. CASE i \in 1..read
      BY <1>0, <2>1, <3>2 DEF StatusInv
    <3> QED BY <1>0, <2>1, <3>1, <3>2
  <2>3. status' # "none" => Exited /\ status' = StatusOf(proc)
    BY <2>1 DEF StatusInv
  <2>4. ~open' => status' # "none"
    <3>1. SUFFICES ASSUME log[read + 1] = "close" PROVE status # "none"
      BY <1>0, <2>1
    <3>2. read + 1 > 1 /\ log[read] \in Statuses
      <4>1. (read + 1) - 1 = read
        BY <1>0
      <4> QED BY <2>1, <3>1, <4>1 DEF StatusInv, StatusBefore
    <3>3. read \in 1..read
      BY <1>0, <3>2
    <3> QED BY <3>2, <3>3 DEF StatusInv
  <2> QED BY <2>1, <2>2, <2>3, <2>4 DEF StatusInv, Exited
<1> QED BY <1>1, <1>2

\* The client: an exit code is that of the status it read.
LEMMA ClientStatus ==
    ASSUME ExecInv, StatusInv, Client \/ Resume \/ Abandon \/ DeadlinePasses
    PROVE  StatusInv'
<1>1. ASSUME NEW o, Stop(o), o # "code" PROVE StatusInv'
  BY <1>1 DEF Stop, process, StatusInv, Exited, Loop, Yield
<1>2. CASE Pump \/ Peek("out") \/ Peek("err")
  <2>1. pc \in Loop /\ Update /\ UNCHANGED <<proc, log, outcome, code>>
    BY <1>2 DEF Pump, LoopTop, Peek, Loop, process
  <2> QED BY <2>1, UpdateStatus
<1>3. CASE Returns
  <2>1. /\ pc = "top" /\ ~open /\ pc' = "end" /\ code' = ExitCode(status)
        /\ UNCHANGED <<proc, log, read, status>>
    BY <1>3 DEF Returns, LoopTop, Closed, Stop, process
  <2>2. status # "none" /\ Exited /\ status = StatusOf(proc)
    BY <2>1 DEF StatusInv, Loop
  <2>3. code' = IF proc = "exit0" THEN 0 ELSE 1
    BY <2>1, <2>2 DEF ExitCode, StatusOf, Exited
  <2> QED BY <2>1, <2>2, <2>3 DEF StatusInv, Exited, Loop, Yield
<1>4. CASE \/ TimesOut \/ UploadEnds \/ ConnectionLost \/ Abandon
           \/ Check /\ Confirmed
  <2>1. \E o : o # "code" /\ Stop(o)
    BY <1>4 DEF TimesOut, UploadEnds, ConnectionLost, Abandon, Check
  <2> QED BY <1>1, <2>1
<1>5. CASE (Check /\ ~Confirmed) \/ Resume \/ DeadlinePasses
  <2>1. /\ UNCHANGED <<proc, log, read, open, status, outcome, code>>
        /\ pc' \in Loop \cup Yield => pc \in Loop \cup Yield
    BY <1>5 DEF Check, Resume, DeadlinePasses, process, channel, Loop
  <2> QED BY <2>1 DEF StatusInv, Exited
<1> QED BY <1>2, <1>3, <1>4, <1>5 DEF Client, Check

\* Every step of the channel.
LEMMA StatusKept ==
    HonestEndings /\ ExecInv /\ StatusInv /\ [ExecNext]_execVars => StatusInv'
<1> SUFFICES ASSUME HonestEndings, ExecInv, StatusInv, [ExecNext]_execVars PROVE StatusInv'
  OBVIOUS
<1>1. CASE NoExec
  <2>1. Connected("none") /\ outcome' # "code" /\ pc' \notin Loop \cup Yield
    BY <1>1 DEF NoExec, Loop, Yield
  <2> QED BY <2>1, BeginStatus
<1>2. ASSUME NEW j \in {"exec", "upload"}, Begin(j) \/ BeginFails(j) PROVE StatusInv'
  <2>1. Connected(j) /\ outcome' # "code" /\ (open' \/ pc' \notin Loop \cup Yield)
    BY <1>2 DEF Begin, BeginFails, Loop, Yield
  <2> QED BY <2>1, BeginStatus
<1>3. CASE ExecStep \/ Abandon
  BY <1>3, WorkerStatus, ClientStatus DEF ExecStep
<1>4. CASE UNCHANGED execVars
  BY <1>4 DEF execVars, StatusInv, Exited
<1> QED BY <1>1, <1>2, <1>3, <1>4 DEF ExecNext

\* Before the first exec.
LEMMA StatusInit == ExecInit => StatusInv
BY DEF ExecInit, StatusInv, Loop, Yield

===================================================================================
