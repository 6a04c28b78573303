--------------------------- MODULE MCPiWorkspace ---------------------------
(* A stored session that is loaded, branched and deleted, a creation, an   *)
(* import, and one upload id that is begun twice; and the copies of queued *)
(* images of one session.                                                  *)
EXTENDS PiWorkspace, PiQueueMedia, TLC

CONSTANTS l1, b1, c1, i1, d1, h, sb, sc, si, u1, e1, e2, q1

MCCalls == {l1, b1, c1, d1, i1}
LateCalls == {l1, i1}
MCKinds == [c \in Calls |-> CASE c = l1 -> "load" [] c = b1 -> "branch" [] c = c1 -> "create"
                              [] c = i1 -> "import" [] c = d1 -> "delete"]
MCSessions == [c \in Calls |-> CASE c \in {l1, d1} -> h [] c = b1 -> sb [] c = c1 -> sc [] c = i1 -> si]
MCSources == [c \in Calls |-> h]
MCStored == {h}
MCUploads == {u1}
MCEntries == {e1, e2}
MCUploadOf == [e \in Entries |-> u1]
MCCopies == {q1}

\* Images are staged beside the delete only, which loads the session first, and an
\* import is made beside the load and the delete only, to keep the mixes small.
\* What is left out are calls of the renderer, which nothing obliges it to make.
Alone(others) == \A c \in others : pc[c] = "idle"
Mix ==
  /\ (\E e \in Entries : stage[e] # "unused") => Alone(Calls \ {d1})
  /\ pc[i1] # "idle" => Alone(Calls \ {l1, d1, i1})

\* The workspace and the queue media share no state: each runs while the other has
\* not begun, and the states add up instead of multiplying.
MixInit == Init /\ MediaInit
MixNext ==
  \/ MediaInit /\ Next /\ Mix' /\ UNCHANGED mediaVars
  \/ Init /\ MediaStep /\ UNCHANGED vars
MixSpec == MixInit /\ [][MixNext]_<<vars, mediaVars>> /\ Fairness

\* The workspace alone, with a load and an import.
LateSpec == MixInit /\ [][Next /\ UNCHANGED mediaVars]_<<vars, mediaVars>>

=============================================================================
