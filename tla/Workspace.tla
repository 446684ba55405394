-------------------------------- MODULE Workspace --------------------------------
(****************************************************************************)
(* What goes into the working dir of a worker and what comes out of it: the *)
(* scripts _CLEANER, _COLLECTOR and _UPLOADER, the project tree that        *)
(* run_project reads, and the snapshot of a checkpoint.                     *)
(*                                                                          *)
(* A workspace maps paths to entries [kind, size, data].  Of an entry that  *)
(* is no plain file only its kind counts: "link" is a symbolic link to a    *)
(* file, "unread" a file the collector may not open, "dir" an empty         *)
(* directory, "sealed" whatever the cleaner may not remove.                 *)
(****************************************************************************)
EXTENDS Integers, Sequences, FiniteSetsExt, SequencesExt

CONSTANTS
    MaxCollect,   \* config.max_collect_bytes
    MaxUpload     \* config.max_upload_bytes

ASSUME WorkspaceAssumption == MaxCollect \in Nat /\ MaxUpload \in Nat

Kinds == {"file", "link", "unread", "dir", "sealed"}
Entries == [kind : Kinds, size : Nat, data : Int]
Empty == [p \in {} |-> 0]
Total(fs) == MapThenSumSet(LAMBDA p : fs[p].size, DOMAIN fs)
Part(fs, S) == [p \in DOMAIN fs \cap S |-> fs[p]]
With(fs, p, e) == [q \in DOMAIN fs \cup {p} |-> IF q = p THEN e ELSE fs[q]]

\* Mutated form: directories are left alone.
CleanedOfFiles(ws) == Part(ws, {p \in DOMAIN ws : ws[p].kind \in {"sealed", "dir"}})

\* _CLEANER: errors are ignored and CLEAN_OK is printed all the same.
Cleaned(ws) == Part(ws, {p \in DOMAIN ws : ws[p].kind = "sealed"})

\* _UPLOADER opens each path for writing: a link is followed and stays a link, and
\* a directory or a file without permission raises.
Writable(ws, files) == \A p \in DOMAIN files \cap DOMAIN ws : ws[p].kind \in {"file", "link"}
Uploaded(ws, files) ==
    [p \in DOMAIN ws \cup DOMAIN files |->
        IF p \notin DOMAIN files THEN ws[p]
        ELSE IF p \in DOMAIN ws THEN [files[p] EXCEPT !.kind = ws[p].kind]
        ELSE files[p]]

----------------------------------------------------------------------------
(* _COLLECTOR: one pass, in the order of the walk or of the caller's list.  *)

Readable(ws) == {p \in DOMAIN ws : ws[p].kind \in {"file", "link"}}

\* A link is opened: what is sent is a plain file.
Plain(e) == [e EXCEPT !.kind = "file"]

\* Mutated form: the total is not carried on.
NotCounted(total, size) == total

Counted(total, size) == total + size
Add(ws, acc, p) ==
    IF p \notin Readable(ws) THEN acc
    ELSE IF acc.total + ws[p].size > MaxCollect
    THEN [acc EXCEPT !.trunc = Append(@, p)]
    ELSE [acc EXCEPT !.total = Counted(@, ws[p].size), !.files = With(@, p, Plain(ws[p]))]

Collected(ws, order) ==
    FoldLeft(LAMBDA acc, p : Add(ws, acc, p),
             [files |-> Empty, trunc |-> <<>>, total |-> 0], order)

\* os.walk: in any order.
Walks(ws) == SetToSeqs(DOMAIN ws)

\* What a caller may ask to collect, without naming a path twice.
Wants(paths) == UNION {SetToSeqs(S) : S \in SUBSET paths}

----------------------------------------------------------------------------
(* _read_project_tree: a host tree maps paths to entries [kind, size, data,  *)
(* pruned, linked]; pruned when a component of the path is excluded, linked  *)
(* when it is reached through a linked directory; "special" is no file.      *)

HostEntries == [kind : {"file", "link", "special"}, size : Nat, data : Int,
                pruned : BOOLEAN, linked : BOOLEAN]

Uploads(e, follow) ==
    /\ ~e.pruned
    /\ e.kind = "file" \/ (e.kind = "link" /\ follow)
    /\ e.linked => follow

Chosen(tree, follow) ==
    [p \in {q \in DOMAIN tree : Uploads(tree[q], follow)} |->
        [kind |-> "file", size |-> tree[p].size, data |-> tree[p].data]]

\* "exceeds max_upload_bytes", or nothing is left to upload.
TreeRefused(tree, follow) ==
    Chosen(tree, follow) = Empty \/ Total(Chosen(tree, follow)) > MaxUpload

----------------------------------------------------------------------------
(* _pack_snapshot and _unpack_snapshot.  The paths of the collector are      *)
(* relative and normal, so the test of the member names refuses none.        *)

\* Mutated form: the members are named from the parent of the working dir.
PackedFromParent(files) == {[name |-> <<"scratch", p>>, entry |-> files[p]] : p \in DOMAIN files}

Packed(files) == {[name |-> p, entry |-> files[p]] : p \in DOMAIN files}
Unpacked(members) ==
    [p \in {m.name : m \in members} |-> (CHOOSE m \in members : m.name = p).entry]

==================================================================================
