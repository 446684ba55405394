----------------------------- MODULE MCConversation -----------------------------
(* Instances of Conversation for TLC. *)
EXTENDS Conversation, TLC

CONSTANTS a, b   \* two paths

MCPaths == {a, b}

Host(kind, size, pruned, linked) ==
    [kind |-> kind, size |-> size, data |-> 0, pruned |-> pruned, linked |-> linked]

\* A plain file; a link and a file under a linked directory; files that are pruned
\* or no files; a tree over the limit.
MCTrees ==
    { a :> Host("file", 1, FALSE, FALSE) @@ b :> Host("special", 1, FALSE, FALSE),
      a :> Host("link", 2, FALSE, FALSE) @@ b :> Host("file", 1, FALSE, TRUE),
      a :> Host("file", 1, TRUE, FALSE),
      a :> Host("file", 2, FALSE, FALSE) @@ b :> Host("file", 2, FALSE, FALSE) }

MCLeftovers ==
    { Empty, a :> Entry("file", 1, 0) @@ b :> Entry("dir", 0, 0) }

==================================================================================
