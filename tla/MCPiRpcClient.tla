---------------------------- MODULE MCPiRpcClient ----------------------------
EXTENDS PiRpcClient, RpcJsonl, TLC

CONSTANTS r1, r2, r3, n1

\* Every limit can be reached: one request too many, one record too many, and
\* a record that fits the queue only after another has left it.
MCRequests == {r1, r2, r3}
MCNotes == {n1}
MCSize == r1 :> 1 @@ r2 :> 2 @@ r3 :> 1 @@ n1 :> 1

\* The client, and the decoder of the output it reads.  They share no state, so the
\* decoder runs while the client has not begun, and the client beside an output that
\* is empty: the states add up instead of multiplying.
MCInit == Init /\ JsonlInit
MCNext ==
  \/ output = <<>> /\ Next /\ UNCHANGED jsonl
  \/ Init /\ Receive /\ UNCHANGED vars
MCSpec == MCInit /\ [][MCNext]_<<vars, jsonl>> /\ Fairness

=============================================================================
