------------------------- MODULE MCServerWorkConn -------------------------
(* Two concurrent user connections, a TCP one and an HTTP request; a pool *)
(* of one (the default pool_count is 0..1 in practice) so the retry loop   *)
(* runs twice; three work connections so that a dead pooled one, a        *)
(* discarded surplus one and a fresh one can all occur.                   *)
EXTENDS ServerWorkConn, TLC

CONSTANTS u1, u2
MCUsers == {u1, u2}
MCHttpUsers == {u2}
MCPoolCount == 1
MCMaxConns == 3
=============================================================================
