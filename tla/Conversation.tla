------------------------------ MODULE Conversation ------------------------------
(****************************************************************************)
(* A conversation of several turns, each a session that is resumed from the *)
(* checkpoint of the turn before: SandboxPool.session and resume,           *)
(* SandboxSession with run, run_project and checkpoint, and the harness of  *)
(* examples/stateful_agent.py, which carries the variables of the agent in  *)
(* a file of the workspace.                                                 *)
(*                                                                          *)
(* The data of the harness's file is the number of the last run whose       *)
(* variables it holds; the data of another file is the run that wrote it.   *)
(* A blob carries, beside its members, the workspace and the variables at   *)
(* its checkpoint: the memory the properties compare with.                  *)
(****************************************************************************)
EXTENDS Workspace

CONSTANTS
    Paths,      \* the paths the agent's code uses
    NsFile,     \* ns.pkl
    Sizes,      \* the sizes of the files it writes
    RunKinds,   \* the kinds of entry its code makes
    Trees,      \* host trees for run_project
    Leftovers,  \* what another tenant may have left in a worker
    MaxRuns,    \* bound of the runs of the conversation
    Lapses

ASSUME ConversationAssumption ==
    /\ IsFiniteSet(Paths) /\ NsFile \notin Paths
    /\ Sizes \subseteq Nat
    /\ \A tree \in Trees : DOMAIN tree \subseteq Paths /\ tree \in [DOMAIN tree -> HostEntries]
    /\ \A junk \in Leftovers : /\ DOMAIN junk \subseteq Paths \cup {NsFile}
                              /\ junk \in [DOMAIN junk -> Entries]
    /\ MaxRuns \in Nat
    /\ RunKinds \subseteq Kinds
    /\ Lapses \subseteq {"collector", "reenter", "torn"}

VARIABLES
    ws,       \* the workspace of the session's worker
    session,  \* "none", "open", "dead" (worker retired) or "closed"
    live,     \* the run whose variables the conversation is at, 0 before the first
    runs,     \* how many runs were begun
    blob,     \* what checkpoint returned and is not stored yet, or NoBlob
    store     \* the caller's conversation store, or NoBlob

vars == <<ws, session, live, runs, blob, store>>

NoBlob == [members |-> {}, was |-> Empty, vars |-> 0, taken |-> FALSE]
Torn == -1   \* the data of a pickle that was cut off

TypeOK ==
    /\ DOMAIN ws \subseteq Paths \cup {NsFile} /\ ws \in [DOMAIN ws -> Entries]
    /\ session \in {"none", "open", "dead", "closed"}
    /\ live \in 0..runs /\ runs \in 0..MaxRuns
    /\ \A b \in {blob, store} : /\ b.taken \in BOOLEAN /\ b.vars \in 0..runs
                                /\ DOMAIN Unpacked(b.members) \subseteq Paths \cup {NsFile}

Init ==
    /\ ws = Empty /\ session = "none" /\ live = 0 /\ runs = 0
    /\ blob = NoBlob /\ store = NoBlob

Restored == Unpacked(store.members)

\* resume() refuses what it could not upload.
Resumes == Total(Restored) <= MaxUpload

\* __enter__ on a worker with some leftovers: wiped, then the snapshot is
\* uploaded; either may fail and retire the worker.  What was checkpointed and not
\* stored is lost with the turn before.  A closed session that is entered once
\* more restores nothing: the first entry cleared _restore.
Restores == {Restored} \cup {e \in {Empty} : session = "closed" /\ "reenter" \in Lapses}

Opens ==
    /\ session \in {"none", "dead", "closed"}
    /\ Resumes
    /\ \E junk \in Leftovers, files \in Restores :
        /\ ws' = Uploaded(Cleaned(junk), files)
        /\ session' \in {"dead"} \cup (IF Writable(Cleaned(junk), files) THEN {"open"} ELSE {})
    /\ live' = store.vars /\ blob' = NoBlob
    /\ UNCHANGED <<runs, store>>

----------------------------------------------------------------------------
(* One run of the agent's code in the harness. *)

Entry(k, s, d) == [kind |-> k, size |-> s, data |-> d]

\* The agent's code leaves the workspace alone, makes an entry or removes one.
Worked(n) ==
    {ws} \cup {With(ws, p, Entry(k, s, n)) : p \in Paths, k \in RunKinds, s \in Sizes}
         \cup {Part(ws, DOMAIN ws \ {p}) : p \in Paths}

Begins == session = "open" /\ runs < MaxRuns /\ runs' = runs + 1

\* The prelude finds variables of an earlier run, or none; the epilogue saves.
Found == IF NsFile \in DOMAIN ws THEN ws[NsFile].data ELSE 0

RunCompletes ==
    /\ Begins /\ Found # Torn
    /\ \E w \in Worked(runs') : ws' = With(w, NsFile, Entry("file", 1, runs'))
    /\ live' = runs'
    /\ UNCHANGED <<session, blob, store>>

\* The code raises or exits before the epilogue, or is killed while the epilogue
\* writes: what it wrote stays, and the variables are those of the run before.
CutOff == {With(ws, NsFile, Entry("file", 1, Torn)) : l \in Lapses \cap {"torn"}}

RunFails ==
    /\ Begins
    /\ ws' \in IF Found = Torn THEN {ws} ELSE Worked(runs') \cup CutOff
    /\ UNCHANGED <<session, live, blob, store>>

\* A timeout, an error of the exec, a failed upload, inputs over the limit or an
\* environment that is refused: _retire_now.
Dies ==
    /\ session = "open"
    /\ session' = "dead"
    /\ UNCHANGED <<ws, live, runs, blob, store>>

\* run_project: a tree that is refused is refused before anything is sent;
\* extra_files count only when the call adds up its inputs.
Extras(n) == {Empty} \cup {With(Empty, p, Entry("file", s, n)) : p \in Paths, s \in Sizes}

Joined(extra, files) ==
    [p \in DOMAIN extra \cup DOMAIN files |-> IF p \in DOMAIN extra THEN extra[p] ELSE files[p]]

RunProject ==
    /\ Begins
    /\ \E tree \in Trees, follow \in BOOLEAN, extra \in Extras(runs') :
        LET inputs == Joined(extra, Chosen(tree, follow))
        IN  /\ ~TreeRefused(tree, follow)
            /\ IF Total(inputs) <= MaxUpload /\ Writable(ws, inputs)
               THEN ws' = Uploaded(ws, inputs) /\ UNCHANGED session
               ELSE session' = "dead" /\ UNCHANGED ws
    /\ UNCHANGED <<live, blob, store>>

----------------------------------------------------------------------------

Taken(files) == [members |-> Packed(files), was |-> ws, vars |-> live, taken |-> TRUE]

\* Mutated form: a checkpoint that keeps what fits.
FitsSome(c) == TRUE

Fits(c) == c.trunc = <<>>

\* _collect: a collector that fails or times out returns no file and none left out.
Collections ==
    {Collected(ws, order) : order \in Walks(ws)}
        \cup {Collected(ws, <<>>) : l \in Lapses \cap {"collector"}}

\* checkpoint(): raises when a file was left out.
Checkpoint ==
    /\ session = "open" /\ ~blob.taken
    /\ \E c \in Collections : Fits(c) /\ blob' = Taken(c.files)
    /\ UNCHANGED <<ws, session, live, runs, store>>

\* The caller saves the blob, during the turn or after it.
Stores ==
    /\ blob.taken
    /\ store' = blob /\ blob' = NoBlob
    /\ UNCHANGED <<ws, session, live, runs>>

Closes ==
    /\ session \in {"open", "dead"}
    /\ session' = "closed"
    /\ UNCHANGED <<ws, live, runs, blob, store>>

\* The process of the caller dies; the store survives.
Crash ==
    /\ session # "none"
    /\ session' = "none" /\ blob' = NoBlob
    /\ UNCHANGED <<ws, live, runs, store>>

Next ==
    \/ Opens \/ RunCompletes \/ RunFails \/ RunProject \/ Dies
    \/ Checkpoint \/ Stores \/ Closes \/ Crash

Spec == Init /\ [][Next]_vars

----------------------------------------------------------------------------
(* What a conversation may rely on. *)

Opening == session # "open" /\ session' = "open"

\* A session opens on the regular files its checkpoint could read, links as the
\* files they point to, and on nothing else: no file is lost in the pass of the
\* collector, the snapshot and the upload, and none of another tenant is there
\* (runner.py:728-738, 1026-1027).
ResumesReadable ==
    [][Opening => ws' = [p \in Readable(store.was) |-> Plain(store.was[p])]]_vars

\* "continuing from exactly that filesystem state" (README.md:581-582).
ResumesExactly == [][Opening => ws' = store.was]_vars

\* What was checkpointed can be resumed under the limits of the same
\* configuration (README.md:603-606).
Resumable == Resumes /\ Total(Unpacked(blob.members)) <= MaxUpload

\* An agent finds by name the variables of its last completed run, through failed
\* runs, checkpoints, crashes and resumed sessions
\* (examples/stateful_agent.py:5-8, 30-31).
NamespaceCarries == session = "open" => Found = live

\* A collection tells of every readable file it was asked for: it is there, or it
\* is listed as left out and would not have fitted (runner.py:448-455).
Tells(order, c) ==
    LET left == {c.trunc[i] : i \in 1..Len(c.trunc)}
        asked == {order[i] : i \in 1..Len(order)} \cap Readable(ws)
    IN  /\ DOMAIN c.files \cup left = asked
        /\ DOMAIN c.files \cap left = {}
        /\ Total(c.files) <= MaxCollect
        /\ \A p \in left : Total(c.files) + ws[p].size > MaxCollect
CollectTells ==
    \A order \in Walks(ws) \cup Wants(Paths \cup {NsFile}) : Tells(order, Collected(ws, order))

==================================================================================
