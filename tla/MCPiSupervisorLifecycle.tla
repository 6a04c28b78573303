----------------------- MODULE MCPiSupervisorLifecycle -----------------------
(* Runtimes that follow one another on two files; and, beside them, the saves of *)
(* one settings document.                                                        *)
EXTENDS PiSupervisorLifecycle, PiSettings, TLC

CONSTANTS r1, r2, r3, f1, f2, sa, sb, ca, cb

\* One creation and two resumes; the first two share a file.
ThreeStarts == {r1, r2, r3}
SomeFiles == {f1, f2}
Placed == r1 :> f1 @@ r2 :> f1 @@ r3 :> f2
Resumed == {r2, r3}

\* Two saves, each of a content that the other's editor may have read.  A document that
\* Pi cannot read would only be refused, and a refusal is possible everywhere.
TwoSavers == {sa, sb}
MCContents == {ca, cb}
MCBroken == {}
MCText == sa :> ca @@ sb :> cb

\* The supervisor and the document share no state: one of them moves, while the
\* other has not begun, so that their states add up instead of multiplying.
MCInit == Init /\ SettingsInit
MCNext ==
  \/ SettingsInit /\ document = Missing /\ Next /\ UNCHANGED settingsVars
  \/ Init /\ SettingsStep /\ UNCHANGED vars
MCSpec == MCInit /\ [][MCNext]_<<vars, settingsVars>> /\ Fairness

=============================================================================
