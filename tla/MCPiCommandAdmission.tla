------------------------- MODULE MCPiCommandAdmission -------------------------
(* A command that is sent again. *)
EXTENDS PiCommandAdmission, TLC

CONSTANTS h1, h2, k1, k2, l1, c1, c2, c3, c4, c5

TwoCommands == {k1, k2}
OneLane == {l1}
Chained == k1 :> l1 @@ k2 :> l1
Asked == {c5}

\* One command is sent twice to a Host and once to another; a second command of
\* its session waits in the same lane, and a query asks about the first.
TwoHosts == {h1, h2}
FiveCalls == {c1, c2, c3, c4, c5}
Sent == c1 :> k1 @@ c2 :> k1 @@ c3 :> k1 @@ c4 :> k2 @@ c5 :> k1
To == c1 :> h1 @@ c2 :> h1 @@ c3 :> h2 @@ c4 :> h1 @@ c5 :> h2

=============================================================================
