---------------------------- MODULE MCRpcClient ----------------------------
(* Small instances of RpcClient for TLC.                                    *)
EXTENDS RpcClient

CONSTANTS c1, c2

\* One result per shape: none, one short chunk, several batches of chunks.
MCResults == {<<>>, << <<1>> >>, << <<1, 2>>, <<3>>, <<4, 5>> >>}

\* Chunk sizes: no chunk, narrow chunks before wide ones, one over the limit.
MCSources == {<<>>, <<1, 1, 5, 5>>, <<2, 9>>}

\* Statement lists of one thread alone, and of two beside each other.
Alone == {<<"query", "exec">>, <<"upload">>, <<"raw", "raw">>, <<"open", "table", "table", "close">>,
          <<"manifest", "prepare", "request">>, <<"open", "fetch", "cancel">>}
Beside == {<< <<"open", "table">>, <<"table">> >>, << <<"exec">>, <<"exec">> >>}

MCScripts ==
    {c1 :> s @@ c2 :> <<>> : s \in Alone} \union {c1 :> p[1] @@ c2 :> p[2] : p \in Beside}

\* One open, one fetch into a table.
TableScripts == {c1 :> <<"open", "table">>}
============================================================================
