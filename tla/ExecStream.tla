------------------------------- MODULE ExecStream -------------------------------
(****************************************************************************)
(* The exec channel of _exec.py: exec_stream, exec_capture and upload_files *)
(* over one websocket of the kubernetes client, one exec at a time.         *)
(*                                                                          *)
(* The socket is external: log holds the frames it carries, in order, and   *)
(* every update() of the client reads at most one.  A chunk of output is    *)
(* the place of its frame in the log, so what was delivered is compared     *)
(* with what was produced by comparing sets of places.  Of an exit code the *)
(* models keep whether it is 0.                                             *)
(****************************************************************************)
EXTENDS Integers, Sequences

CONSTANTS
    MaxFrames,  \* bound of the output frames of one exec
    Files,      \* the input files of an upload
    Endings     \* how the socket may end, see Ends

Outputs  == {"out", "ok", "err"}      \* ok is the UPLOAD_OK of the uploader
Statuses == {"Success", "ExitCode", "Failure", "garbled"}
Final    == {"close", "lost"}

ASSUME ExecAssumption ==
    /\ MaxFrames \in Nat
    /\ Endings \subseteq {"status", "garbled", "bare", "failure", "lost"}

VARIABLES
    job,       \* what is running: "none", "exec" or "upload"
    proc,      \* its process in the worker: "none", "running", "exit0", "exit1"
    written,   \* the input files the uploader has written
    log,       \* the frames of the socket, read or on their way
    read,      \* how many of them the client has read
    open,      \* resp.is_open()
    buf,       \* the buffered chunks of stdout and of stderr
    status,    \* the buffered error channel, or "none"
    got,       \* the chunks taken from the buffers: yielded, or kept by upload_files
    late,      \* time.monotonic() > deadline
    pc,        \* the loop: see Loop; "idle" before the first exec, "end" after it
    outcome,   \* "none"; "code", "timeout", "failed", "abandoned"; "ok" of an upload
    code       \* the exit code returned

process == <<proc, written>>
channel == <<read, open, buf, status, got>>
execVars == <<job, proc, written, log, read, open, buf, status, got, late, pc, outcome, code>>

Loop  == {"top", "out", "err", "check"}
Yield == {"out_held", "err_held"}     \* the generator is suspended at a yield
NoBuf == [out |-> {}, err |-> {}]

ExecTypeOK ==
    /\ job \in {"none", "exec", "upload"}
    /\ proc \in {"none", "running", "exit0", "exit1"}
    /\ written \subseteq Files
    /\ log \in Seq(Outputs \cup Statuses \cup Final)
    /\ read \in 0..Len(log)
    /\ open \in BOOLEAN
    /\ buf \in [{"out", "err"} -> SUBSET (1..read)]
    /\ status \in Statuses \cup {"none"}
    /\ got \subseteq 1..read
    /\ late \in BOOLEAN
    /\ pc \in {"idle", "end"} \cup Loop \cup Yield
    /\ outcome \in {"none", "code", "timeout", "failed", "abandoned", "ok"}
    /\ code \in {0, 1}

ExecInit ==
    /\ job = "none" /\ proc = "none" /\ written = {}
    /\ log = <<>> /\ read = 0 /\ open = FALSE /\ buf = NoBuf
    /\ status = "none" /\ got = {} /\ late = FALSE
    /\ pc = "idle" /\ outcome = "none" /\ code = 0

Connected(j) ==
    /\ job' = j /\ written' = {} /\ log' = <<>> /\ read' = 0
    /\ buf' = NoBuf /\ status' = "none" /\ got' = {} /\ late' = FALSE /\ code' = 0

\* Bookkeeping of the model: the channel of a new stream object, which has begun no
\* exec.
NoExec ==
    /\ pc \in {"idle", "end"}
    /\ Connected("none")
    /\ proc' = "none" /\ open' = FALSE
    /\ pc' = "idle" /\ outcome' = "none"

\* stream(): the handshake starts the process in the worker.
Begin(j) ==
    /\ pc \in {"idle", "end"}
    /\ Connected(j)
    /\ proc' = "running" /\ open' = TRUE
    /\ pc' = "top" /\ outcome' = "none"

\* stream() raises: there is no such pod, or no connection.
BeginFails(j) ==
    /\ pc \in {"idle", "end"}
    /\ Connected(j)
    /\ proc' = "none" /\ open' = FALSE
    /\ pc' = "end" /\ outcome' = "failed"

----------------------------------------------------------------------------
(* The worker's end of the socket. *)

Ended == log # <<>> /\ log[Len(log)] \in Final
Sending == proc = "running" /\ open /\ ~Ended
quiet == <<job, channel, late, pc, outcome, code>>

\* The command writes to stdout or to stderr.
Emit ==
    /\ Sending /\ job = "exec" /\ Len(log) < MaxFrames
    /\ \E f \in {"out", "err"} : log' = Append(log, f)
    /\ UNCHANGED <<process, quiet>>

\* A proxy may garble the status.
StatusOf(p) == IF p = "exit0" THEN "Success" ELSE "ExitCode"
Reports(p) == {StatusOf(p) : e \in Endings \cap {"status"}} \cup (Endings \cap {"garbled"})

\* The process p ends; its status and a close frame follow all of its output.
Exits(p, last) ==
    /\ proc' = p
    /\ \E s \in Reports(p) : log' = log \o last \o <<s, "close">>
    /\ UNCHANGED <<written, quiet>>

CommandExits == Sending /\ job = "exec" /\ \E p \in {"exit0", "exit1"} : Exits(p, <<>>)

\* _UPLOADER writes one file after the other and confirms at the end; an OSError
\* ends it with a traceback.
UploaderWrites ==
    /\ Sending /\ job = "upload"
    /\ \E f \in Files \ written : written' = written \cup {f}
    /\ UNCHANGED <<proc, log, quiet>>

UploaderConfirms == Sending /\ job = "upload" /\ written = Files /\ Exits("exit0", <<"ok">>)
UploaderFails    == Sending /\ job = "upload" /\ written # Files /\ Exits("exit1", <<"err">>)

\* The socket ends before the process: closed without a status by a proxy or a
\* restarting kubelet, closed with an internal error, or broken.
Ends == [bare |-> <<"close">>, failure |-> <<"Failure", "close">>, lost |-> <<"lost">>]

SocketEnds ==
    /\ Sending
    /\ \E e \in Endings \cap DOMAIN Ends : log' = log \o Ends[e]
    /\ UNCHANGED <<process, quiet>>

\* A process nobody listens to any more.
OrphanExits ==
    /\ proc = "running" /\ (~open \/ Ended)
    /\ proc' \in {"exit0", "exit1"}
    /\ UNCHANGED <<written, log, quiet>>

Worker == \/ Emit \/ CommandExits \/ UploaderWrites \/ UploaderConfirms
          \/ UploaderFails \/ SocketEnds \/ OrphanExits

DeadlinePasses ==
    /\ pc \in Loop \cup Yield /\ ~late
    /\ late' = TRUE
    /\ UNCHANGED <<job, process, log, channel, pc, outcome, code>>

----------------------------------------------------------------------------
(* resp.update(): the client reads one frame, if there is one. *)

Arrives == open /\ read < Len(log)
Frame   == log[read + 1]
Chan    == [out |-> {"out", "ok"}, err |-> {"err"}]
Buffered(ch) == buf[ch] \cup (IF Arrives /\ Frame \in Chan[ch] THEN {read + 1} ELSE {})
Breaks  == Arrives /\ Frame = "lost"

Update ==
    /\ ~Breaks
    /\ read' = IF Arrives THEN read + 1 ELSE read
    /\ open' = (open /\ ~(Arrives /\ Frame = "close"))
    /\ status' = IF Arrives /\ Frame \in Statuses THEN Frame ELSE status

\* The finally: resp.close().  The process is not told.
Stop(o) ==
    /\ pc' = "end"
    /\ outcome' = o
    /\ open' = FALSE
    /\ UNCHANGED <<job, process, log, read, buf, status, got, late>>

\* Mutated forms: a deadline that a silent command never meets; a loop that looks
\* at the socket between the two peeks.
OverdueIfQuiet == late /\ buf # NoBuf
LoopAnywhere == pc \in {"top", "err"}

Kept(ch) == Buffered(ch)
Overdue == late
Closed  == ~open

LoopTop == pc = "top"

\* while resp.is_open(): the deadline, then update(timeout=1).
Pump ==
    /\ LoopTop /\ ~Closed /\ ~Overdue
    /\ Update
    /\ buf' = [ch \in {"out", "err"} |-> Buffered(ch)]
    /\ pc' = "out"
    /\ UNCHANGED <<job, process, log, got, late, outcome, code>>

TimesOut == LoopTop /\ ~Closed /\ Overdue /\ Stop("timeout") /\ UNCHANGED code

\* After stderr upload_files looks for the confirmation, exec_stream goes round.
After(ch) == IF ch = "out" THEN "err" ELSE IF job = "upload" THEN "check" ELSE "top"

\* A peek updates too, so the chunk of any channel may arrive in it.  exec_stream
\* yields what it reads, upload_files keeps it.
Peek(ch) ==
    /\ pc = ch
    /\ Update
    /\ buf' = [c \in {"out", "err"} |-> IF c = ch THEN {} ELSE Kept(c)]
    /\ got' = got \cup Buffered(ch)
    /\ pc' = IF Buffered(ch) # {} /\ job = "exec"
             THEN IF ch = "out" THEN "out_held" ELSE "err_held"
             ELSE After(ch)
    /\ UNCHANGED <<job, process, log, late, outcome, code>>

\* The consumer of the generator asks for the next chunk, or closes it.
Resume ==
    /\ pc \in Yield
    /\ pc' = IF pc = "out_held" THEN "err" ELSE "top"
    /\ UNCHANGED <<job, process, log, channel, late, outcome, code>>

Abandon == pc \in Yield /\ Stop("abandoned") /\ UNCHANGED code

\* Mutated form: the causes of a failed command are not looked at.
ExitCodeOfFailure(s) == IF s = "Failure" THEN 1 ELSE 0

\* _exit_code: no status and one that is no JSON read as 0.
ExitCode(s) == IF s \in {"none", "garbled", "Success"} THEN 0 ELSE 1

Returns ==
    /\ LoopTop /\ Closed /\ job = "exec"
    /\ Stop("code")
    /\ code' = ExitCode(status)

\* "UPLOAD_OK" in "".join(out)
Confirmed == \E i \in got : log[i] = "ok"

Check ==
    /\ pc = "check"
    /\ \/ Confirmed /\ Stop("ok")
       \/ ~Confirmed /\ pc' = "top" /\ UNCHANGED <<job, process, log, channel, late, outcome>>
    /\ UNCHANGED code

\* Mutated form: a socket that closed is a success.
UploadTrusts == LoopTop /\ Closed /\ job = "upload" /\ Stop("ok") /\ UNCHANGED code

UploadEnds ==
    /\ LoopTop /\ Closed /\ job = "upload"
    /\ Stop(IF Confirmed THEN "ok" ELSE "failed")
    /\ UNCHANGED code

\* update() raises out of the loop.
ConnectionLost ==
    /\ pc \in {"top", "out", "err"} /\ Breaks
    /\ LoopTop => ~Overdue
    /\ Stop("failed")
    /\ UNCHANGED code

Client == \/ Pump \/ TimesOut \/ Peek("out") \/ Peek("err") \/ Returns
          \/ Check \/ UploadEnds \/ ConnectionLost

ExecStep == Worker \/ DeadlinePasses \/ Client \/ Resume

ExecNext ==
    \/ NoExec \/ \E j \in {"exec", "upload"} : Begin(j) \/ BeginFails(j)
    \/ ExecStep \/ Abandon

ExecSpec == ExecInit /\ [][ExecNext]_execVars

----------------------------------------------------------------------------
\* The exit code is returned after all of the output: whichever peek a chunk
\* arrived in, nothing of what the socket carried is left behind
\* (_exec.py:103-105, 139-144).
OutputComplete ==
    outcome = "code" => got = {i \in 1..Len(log) : log[i] \in Outputs}

\* upload_files returns only when every file is in the workspace (_exec.py:58-60).
UploadComplete == outcome = "ok" => written = Files

============================================================================
