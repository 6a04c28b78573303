--------------------------- MODULE MCPiSessionRun ---------------------------
(* Mixes of calls on one session. *)
EXTENDS PiSessionRun, TLC

CONSTANTS s1, s2, b1, k1, q1, d1, d2

\* Every way to take the foreground without the user's shell, with one dialog; or
\* an input beside the shell, with two.
InputCalls == {s2, k1, q1}
ShellCalls == {s1, b1}
MixCalls == InputCalls \cup ShellCalls
MixOps == s2 :> "slash" @@ k1 :> "compact" @@ q1 :> "resume" @@ s1 :> "slash" @@ b1 :> "bash"
TwoDialogs == {d1, d2}

\* The two mixes together are too many states.  What is left out are calls of the
\* renderer and dialogs of Pi.
Begun(mix) == \E c \in mix : pc[c] # "idle"
Mix == Begun(InputCalls) => ~Begun(ShellCalls) /\ ~Raised(d2)

MixSpec == Init /\ [][Next /\ Mix']_vars

\* An input that an extension handles, and a compaction.
StopCalls == {s1, k1}
StopOps == s1 :> "send" @@ k1 :> "compact"
OneDialog == {d1}

=============================================================================
