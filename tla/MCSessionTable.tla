--------------------------- MODULE MCSessionTable ---------------------------
(* Small instances of SessionTable for TLC. *)
EXTENDS SessionTable, TLC

CONSTANTS alice, bob

Req(ops, callers, tokens) ==
    [op : ops, id : SessionIds, caller : callers, token : tokens]

\* The query family: two identities that open and close, an owner that fetches
\* and cancels.
QueryRequests ==
    Req({"query_open", "close"}, {alice, bob}, {TRUE}) \cup Req({"fetch", "cancel"}, {alice}, {TRUE})

\* Both families at once, so that controls meet sessions of the other family.
MixedRequests ==
    Req({"query_open", "upload_open", "close", "fetch", "upload_append", "upload_commit",
         "upload_abort"}, {alice}, {TRUE})

\* Uploads, and queries that are opened and closed, with a caller that does not
\* have the token.
UploadRequests ==
    Req({"query_open", "upload_open", "close", "upload_append", "upload_commit"}, {alice}, {TRUE})
        \cup Req({"upload_abort"}, {bob}, {FALSE})

\* Opens and fetches.
FetchRequests == Req({"query_open", "fetch"}, {alice}, {TRUE})

\* Workers are interchangeable, and so are pool connections.
Symmetry == Permutations(Workers) \cup Permutations(Conns)

=============================================================================
