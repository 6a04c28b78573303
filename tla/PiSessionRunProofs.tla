------------------------- MODULE PiSessionRunProofs -------------------------
(***************************************************************************)
(* Proofs about the run state of a live session (PiSessionRun), for any    *)
(* number of calls and dialogs.  The frame lemmas say which part of the    *)
(* state each kind of step leaves alone, so that a proof about a part only *)
(* looks at the steps that touch it.                                       *)
(***************************************************************************)
EXTENDS PiSessionRun, TLAPS

\* A call moves neither Stop nor the dialogs.
LEMMA CallFrame ==
  ASSUME NEW c \in Calls, CallStep(c)
  PROVE  UNCHANGED <<stops, dialogs>>
BY DEF CallStep, CallBegins, SendText, RunBash, Compact, Direct, ResumeQueue, CallResumes,
       Catalog, Prompt, SendFails, SendState, Handled, NoRun, BashAnswered, CompactAnswered,
       CompactState, DirectEnds, ResumeAnswered

\* Stop moves no call.
LEMMA StopFrame == Stop \/ StopAdvances => UNCHANGED <<calls, direct>>
BY DEF Stop, StopAdvances, StopPause, StopNotify, StopAbort, StopWaitBash, StopWaitCompact,
       StopWaitPrompt, StopStep, StopEnds, Stopped, StopFails, calls, view

\* A dialog moves neither a call nor Stop.
LEMMA DialogFrame ==
  ASSUME NEW d \in Dialogs, DialogStep(d)
  PROVE  UNCHANGED <<phase, fg, uncertain, direct, queuePaused, accept, calls, stop, claimed,
                     pauseFailed, cancelling, queueReady>>
BY DEF DialogStep, DialogRaised, CancelEnds, Respond, Forget, view, stops, dialogs

\* Any other record moves the view alone.
LEMMA RecordFrame == RecordStep => UNCHANGED <<direct, queuePaused, calls, stops, dialogs>>
BY DEF RecordStep, RunEvent, AgentSettled, ProtocolDiagnostic, RequireReconciliation

-----------------------------------------------------------------------------
(* Type correctness.                                                       *)

\* The state of the calls keeps its type.
LEMMA CallTypeStep == TypeOK /\ [Next]_vars => CallTypeOK'
<1> SUFFICES ASSUME TypeOK, [Next]_vars PROVE CallTypeOK'
  OBVIOUS
<1> USE DEF TypeOK
<1>1. ASSUME NEW c \in Calls, CallStep(c) PROVE CallTypeOK'
  <2> USE <1>1 DEF CallTypeOK, CallStep, CallBegins, SendText, RunBash, Compact, Direct,
          ResumeQueue, CallResumes, Catalog, Prompt, SendFails, SendState, Handled, NoRun,
          BashAnswered, CompactAnswered, CompactState, DirectEnds, ResumeAnswered
  <2>1. pc' \in [Calls -> {"idle"} \cup Awaiting \cup Ended]
    BY DEF Goto, Awaiting, Ended
  <2>2. old' \in [Calls -> Ready \cup {None}]
    OBVIOUS
  <2>3. disposition' \in [Calls -> {"none", "run", "handled", "command"}]
    OBVIOUS
  <2>4. QED
    BY <2>1, <2>2, <2>3
<1>2. ASSUME UNCHANGED calls PROVE CallTypeOK'
  BY <1>2 DEF CallTypeOK, calls
<1>3. QED
  BY <1>1, <1>2, StopFrame, DialogFrame, RecordFrame DEF Next, vars

\* The state of Stop keeps its type.
LEMMA StopTypeStep == TypeOK /\ [Next]_vars => StopTypeOK'
<1> SUFFICES ASSUME TypeOK, [Next]_vars PROVE StopTypeOK'
  OBVIOUS
<1> USE DEF TypeOK, StopTypeOK
<1>1. CASE Stop
  BY <1>1 DEF Stop, Stopping, Doubt, ViewTypeOK
<1>2. CASE StopAdvances
  BY <1>2 DEF StopAdvances, StopPause, StopNotify, StopAbort, StopWaitBash, StopWaitCompact,
              StopWaitPrompt, StopStep, StopGoto, StopEnds, Stopped, StopFails, Stopping
<1>3. ASSUME NEW d \in Dialogs, DialogStep(d) PROVE StopTypeOK'
  BY <1>3 DEF DialogStep, DialogRaised, CancelEnds, Respond, Forget, stops
<1>4. ASSUME UNCHANGED stops PROVE StopTypeOK'
  BY <1>4 DEF stops
<1>5. QED
  BY <1>1, <1>2, <1>3, <1>4, CallFrame, RecordFrame DEF Next, vars

\* The dialogs keep their type.
LEMMA DialogTypeStep == TypeOK /\ [Next]_vars => DialogTypeOK'
<1> SUFFICES ASSUME TypeOK, [Next]_vars PROVE DialogTypeOK'
  OBVIOUS
<1> USE DEF TypeOK, DialogTypeOK
<1>1. CASE Stop
  BY <1>1 DEF Stop
<1>2. CASE StopAdvances
  <2>1. CASE StopPause
    <3>1. answers' \in [Dialogs -> Nat]
      BY <2>1 DEF StopPause
    <3>2. QED
      BY <2>1, <3>1 DEF StopPause
  <2>2. CASE Stopped
    BY <2>2 DEF Stopped
  <2>3. CASE UNCHANGED dialogs
    BY <2>3 DEF dialogs
  <2>4. QED
    BY <1>2, <2>1, <2>2, <2>3
    DEF StopAdvances, StopNotify, StopAbort, StopWaitBash, StopWaitCompact, StopWaitPrompt,
        StopStep, StopEnds, StopFails
<1>3. ASSUME NEW d \in Dialogs, DialogStep(d) PROVE DialogTypeOK'
  BY <1>3 DEF DialogStep, DialogRaised, CancelEnds, Respond, Forget
<1>4. ASSUME UNCHANGED dialogs PROVE DialogTypeOK'
  BY <1>4 DEF dialogs
<1>5. QED
  BY <1>1, <1>2, <1>3, <1>4, CallFrame, RecordFrame DEF Next, vars

\* The view keeps its type.
LEMMA ViewTypeStep == TypeOK /\ [Next]_vars => ViewTypeOK'
<1> SUFFICES ASSUME TypeOK, [Next]_vars PROVE ViewTypeOK'
  OBVIOUS
<1> USE DEF TypeOK, ViewTypeOK, view
<1>1. ASSUME NEW c \in Calls, CallStep(c) PROVE ViewTypeOK'
  <2> USE <1>1 DEF CallStep, CallBegins, SendText, RunBash, Compact, Direct,
          ResumeQueue, CallResumes, Catalog, Prompt, SendFails, SendState, Handled, NoRun,
          BashAnswered, CompactAnswered, CompactState, DirectEnds, ResumeAnswered, RestorePhase
  <2>1. phase' \in Phases
    BY DEF Phases, Ready, SettledPhase, CallTypeOK
  <2>2. fg' \in Calls \cup {None}
    OBVIOUS
  <2>3. uncertain' \in BOOLEAN /\ reconcile' \in BOOLEAN
    OBVIOUS
  <2>4. direct' \subseteq {"bash", "compact"}
    OBVIOUS
  <2>5. queuePaused' \in BOOLEAN /\ accept' \in BOOLEAN
    OBVIOUS
  <2>6. QED
    BY <2>1, <2>2, <2>3, <2>4, <2>5
<1>2. CASE Stop
  BY <1>2 DEF Stop, Phases
<1>3. CASE StopAdvances
  BY <1>3 DEF StopAdvances, StopPause, StopNotify, StopAbort, StopWaitBash, StopWaitCompact,
              StopWaitPrompt, StopStep, StopEnds, Stopped, StopFails, Phases, Ready
<1>4. ASSUME NEW d \in Dialogs, DialogStep(d) PROVE ViewTypeOK'
  BY <1>4 DEF DialogStep, DialogRaised, CancelEnds, Respond, Forget
<1>5. CASE RecordStep
  BY <1>5 DEF RecordStep, RunEvent, AgentSettled, ProtocolDiagnostic, RequireReconciliation,
              SettledPhase, Phases, Ready
<1>6. CASE UNCHANGED vars
  BY <1>6 DEF vars
<1>7. QED
  BY <1>1, <1>2, <1>3, <1>4, <1>5, <1>6 DEF Next

\* The state of a session stays in its types, for any calls and dialogs.
THEOREM RunTypeCorrect == Spec => []TypeOK
<1>1. Init => TypeOK
  <2> SUFFICES ASSUME Init PROVE TypeOK
    OBVIOUS
  <2>1. ViewTypeOK
    BY DEF Init, ViewTypeOK, Phases, Ready
  <2>2. CallTypeOK
    BY DEF Init, CallTypeOK
  <2>3. StopTypeOK
    BY DEF Init, StopTypeOK
  <2>4. DialogTypeOK
    BY DEF Init, DialogTypeOK
  <2>5. QED
    BY <2>1, <2>2, <2>3, <2>4 DEF TypeOK
<1>2. TypeOK /\ [Next]_vars => TypeOK'
  BY ViewTypeStep, CallTypeStep, StopTypeStep, DialogTypeStep DEF TypeOK
<1>3. QED
  BY <1>1, <1>2, PTL DEF Spec

-----------------------------------------------------------------------------
(* Dialogs.                                                                *)

\* A dialog is to be answered by one party at a time, and has not been answered.
DialogFresh ==
  /\ pending \cap held = {}
  /\ \A d \in Dialogs : /\ d \in pending \cup held => answers[d] = 0
                        /\ answers[d] <= 1

\* No step answers a dialog that was answered, nor offers it again.
LEMMA FreshStep == TypeOK /\ DialogFresh /\ [Next]_vars => DialogFresh'
<1> SUFFICES ASSUME TypeOK, DialogFresh, [Next]_vars PROVE DialogFresh'
  OBVIOUS
<1> USE DEF DialogFresh, DialogTypeOK
<1>0. DialogTypeOK
  BY DEF TypeOK
<1>1. CASE Stop
  BY <1>1 DEF Stop
<1>2. CASE StopPause
  BY <1>0, <1>2 DEF StopPause
<1>3. ASSUME NEW d \in Dialogs, DialogStep(d) PROVE DialogFresh'
  <2>1. CASE DialogRaised(d)
    BY <1>0, <2>1 DEF DialogRaised, Raised
  <2>2. CASE CancelEnds(d)
    BY <2>2 DEF CancelEnds
  <2>3. CASE Respond(d)
    BY <1>0, <2>3 DEF Respond
  <2>4. CASE Forget(d)
    BY <2>4 DEF Forget
  <2>5. QED
    BY <1>3, <2>1, <2>2, <2>3, <2>4 DEF DialogStep
<1>4. ASSUME UNCHANGED <<pending, held, answers>> PROVE DialogFresh'
  BY <1>4
<1>5. CASE StopAdvances /\ ~StopPause
  BY <1>4, <1>5 DEF StopAdvances, StopNotify, StopAbort, StopWaitBash, StopWaitCompact,
                    StopWaitPrompt, StopStep, StopEnds, Stopped, StopFails, dialogs
<1>6. QED
  BY <1>1, <1>2, <1>3, <1>4, <1>5, CallFrame, RecordFrame DEF Next, vars, dialogs

\* Pi receives at most one answer to a dialog.
THEOREM AnsweredOnce == Spec => []DialogAnsweredOnce
<1>1. Init => DialogFresh
  BY DEF Init, DialogFresh
<1>2. DialogFresh => DialogAnsweredOnce
  BY DEF DialogFresh, DialogAnsweredOnce
<1>3. QED
  BY <1>1, <1>2, FreshStep, RunTypeCorrect, PTL DEF Spec

\* Once Stop has released the dialogs, a step leaves none for the renderer.
LEMMA NoneLeftStep == NoneLeftPending /\ [Next]_vars => NoneLeftPending'
<1> SUFFICES ASSUME NoneLeftPending, [Next]_vars PROVE NoneLeftPending'
  OBVIOUS
<1> USE DEF NoneLeftPending
<1>1. CASE Stop
  BY <1>1 DEF Stop
<1>2. CASE StopAdvances
  BY <1>2 DEF StopAdvances, StopPause, StopNotify, StopAbort, StopWaitBash, StopWaitCompact,
              StopWaitPrompt, StopStep, StopEnds, Stopped, StopFails, dialogs
<1>3. ASSUME NEW d \in Dialogs, DialogStep(d) PROVE NoneLeftPending'
  BY <1>3 DEF DialogStep, DialogRaised, CancelEnds, Respond, Forget
<1>4. ASSUME UNCHANGED dialogs PROVE NoneLeftPending'
  BY <1>4 DEF dialogs
<1>5. QED
  BY <1>1, <1>2, <1>3, <1>4, CallFrame, RecordFrame DEF Next, vars

\* No dialog is left for the renderer to answer once Stop has released them.
THEOREM NoneLeft == Spec => []NoneLeftPending
<1>1. Init => NoneLeftPending
  BY DEF Init, NoneLeftPending
<1>2. QED
  BY <1>1, NoneLeftStep, PTL DEF Spec

\* Both: every dialog is settled, and once.
THEOREM DialogsAreSettled == Spec => []DialogsSettled
<1>1. DialogAnsweredOnce /\ NoneLeftPending => DialogsSettled
  BY DEF DialogsSettled
<1>2. QED
  BY <1>1, AnsweredOnce, NoneLeft, PTL

-----------------------------------------------------------------------------
(* What is sent.                                                           *)

\* A claim that may still be sent is on a session whose deliveries are certain.
AcceptedCertain == phase = "accepted" => ~uncertain

\* Whatever makes a delivery uncertain takes the claim away.
LEMMA CertainStep == TypeOK /\ AcceptedCertain /\ [Next]_vars => AcceptedCertain'
<1> SUFFICES ASSUME TypeOK, AcceptedCertain, [Next]_vars PROVE AcceptedCertain'
  OBVIOUS
<1> USE DEF AcceptedCertain, view
<1>1. ASSUME NEW c \in Calls, CallStep(c) PROVE AcceptedCertain'
  <2>1. CASE CallBegins(c)
    BY <2>1 DEF CallBegins, SendText, RunBash, Compact, Direct, ResumeQueue, Doubt
  <2>2. CASE Catalog(c) \/ Prompt(c)
    BY <2>2 DEF Catalog, Prompt, SendFails
  <2>3. CASE SendState(c)
    BY <2>3 DEF SendState, Handled, NoRun, SettledPhase
  <2>4. CASE BashAnswered(c) \/ CompactAnswered(c) \/ CompactState(c)
    BY <2>4 DEF BashAnswered, CompactAnswered, CompactState, DirectEnds
  <2>5. CASE ResumeAnswered(c)
    <3>1. old[c] # None => old[c] \in Ready
      BY DEF TypeOK, CallTypeOK
    <3>2. QED
      BY <2>5, <3>1 DEF ResumeAnswered, RestorePhase, Ready
  <2>6. QED
    BY <1>1, <2>1, <2>2, <2>3, <2>4, <2>5 DEF CallStep, CallResumes
<1>2. CASE Stop \/ StopAdvances
  BY <1>2 DEF Stop, StopAdvances, StopPause, StopNotify, StopAbort, StopWaitBash,
              StopWaitCompact, StopWaitPrompt, StopStep, StopEnds, Stopped, StopFails
<1>3. CASE RecordStep
  BY <1>3 DEF RecordStep, RunEvent, AgentSettled, ProtocolDiagnostic, RequireReconciliation,
              SettledPhase
<1>4. ASSUME UNCHANGED <<phase, uncertain>> PROVE AcceptedCertain'
  BY <1>4
<1>5. QED
  BY <1>1, <1>2, <1>3, <1>4, DialogFrame DEF Next, vars

\* A call moves only itself.
LEMMA GotoMoves ==
  ASSUME CallTypeOK, NEW c \in Calls, NEW l, Goto(c, l), NEW b \in Calls, pc'[b] # pc[b]
  PROVE  b = c /\ pc'[c] = l
BY DEF CallTypeOK, Goto

\* Nothing that can start work in Pi is sent while a delivery is uncertain.
THEOREM CertainSending == Spec => NothingSentUncertain
<1> DEFINE Sends(c) == pc[c] # pc'[c] /\ pc'[c] \in {"prompt", "bash", "compact", "resume"}
           Certain  == \A c \in Calls : Sends(c) => ~uncertain
<1>1. Init => AcceptedCertain
  BY DEF Init, AcceptedCertain
<1>2. TypeOK /\ AcceptedCertain /\ [Next]_vars => [Certain]_vars
  <2> SUFFICES ASSUME TypeOK, AcceptedCertain, Next, NEW b \in Calls, Sends(b)
               PROVE  ~uncertain
    OBVIOUS
  <2>1. PICK c \in Calls : CallStep(c)
    BY StopFrame, DialogFrame, RecordFrame DEF Next, calls
  <2>2. PICK l : Goto(c, l) /\ (l \in {"prompt", "bash", "compact", "resume"} => ~uncertain)
    <3>1. CASE SendText(c)
      BY <3>1 DEF SendText, Doubt
    <3>2. CASE RunBash(c) \/ Compact(c)
      BY <3>2 DEF RunBash, Compact, Direct, Doubt
    <3>3. CASE ResumeQueue(c)
      BY <3>3 DEF ResumeQueue, Doubt
    <3>4. CASE Catalog(c)
      BY <3>4 DEF Catalog, SendFails, AcceptedCertain
    <3>5. CASE Prompt(c)
      BY <3>5 DEF Prompt, SendFails
    <3>6. CASE SendState(c)
      BY <3>6 DEF SendState, Handled, NoRun
    <3>7. CASE BashAnswered(c) \/ CompactAnswered(c) \/ CompactState(c)
      <4>1. Goto(c, "compactState") \/ Goto(c, "done") \/ Goto(c, "failed")
        BY <3>7 DEF BashAnswered, CompactAnswered, CompactState, DirectEnds
      <4>2. QED
        BY <4>1
    <3>8. CASE ResumeAnswered(c)
      <4>1. Goto(c, "failed") \/ Goto(c, "done") \/ Goto(c, "run")
        BY <3>8 DEF ResumeAnswered
      <4>2. QED
        BY <4>1
    <3>9. QED
      BY <2>1, <3>1, <3>2, <3>3, <3>4, <3>5, <3>6, <3>7, <3>8
      DEF CallStep, CallBegins, CallResumes
  <2>3. QED
    BY <2>2, GotoMoves DEF TypeOK
<1>3. QED
  BY <1>1, <1>2, CertainStep, RunTypeCorrect, PTL DEF Spec, NothingSentUncertain

-----------------------------------------------------------------------------
(* The foreground.                                                         *)

\* A call holds the foreground only after it has begun, and a resumeQueue only
\* when it found Pi idle and claimed it.
Claims(c) ==
  /\ fg = c => pc[c] # "idle"
  /\ fg = c /\ OpOf[c] = "resume" => old[c] # None
  /\ pc[c] = "resume" => OpOf[c] = "resume"
  /\ fg = c /\ pc[c] \in {"failed", "handled", "done"} => stopping \/ Doubt

ForegroundInv == \A c \in Calls : Claims(c)

\* A call takes the foreground by beginning, and gives it back by ending.
LEMMA ClaimsStep == TypeOK /\ ForegroundInv /\ [Next]_vars => ForegroundInv'
<1> SUFFICES ASSUME TypeOK, ForegroundInv, [Next]_vars, NEW b \in Calls PROVE Claims(b)'
  BY DEF ForegroundInv
<1>0. Claims(b)
  BY DEF ForegroundInv
<1>1. ASSUME NEW c \in Calls, CallStep(c) PROVE Claims(b)'
  <2> USE RunAssumption DEF Claims, stopping, Doubt, stops, calls, Goto, At
  <2>0. CallTypeOK /\ Claims(c)
    BY DEF TypeOK, ForegroundInv
  <2>1. CASE SendText(c)
    BY <1>0, <2>0, <2>1 DEF SendText, CallTypeOK
  <2>2. CASE RunBash(c)
    BY <1>0, <2>0, <2>2 DEF RunBash, Direct, CallTypeOK
  <2>3. CASE Compact(c)
    BY <1>0, <2>0, <2>3 DEF Compact, Direct, CallTypeOK
  <2>4. CASE ResumeQueue(c)
    <3>1. pc'[c] \in {"failed", "resume"} /\ pc[c] = "idle" /\ OpOf[c] = "resume"
      BY <2>0, <2>4 DEF ResumeQueue, CallTypeOK
    <3>2. b # c => pc'[b] = pc[b] /\ old'[b] = old[b]
      BY <2>0, <2>4 DEF ResumeQueue, CallTypeOK
    <3>3. \/ fg' = fg
          \/ fg' = None
          \/ fg' = c /\ pc'[c] = "resume" /\ old'[c] # None
      BY <2>0, <2>4 DEF ResumeQueue, CallTypeOK, Ready, Kinds
    <3>4. UNCHANGED <<stop, uncertain, reconcile>>
      BY <2>4 DEF ResumeQueue
    <3>5. QED
      BY <1>0, <2>0, <3>1, <3>2, <3>3, <3>4
  <2>5. ASSUME NEW why \in Failures, SendFails(c, why), pc[c] \notin {"idle", "resume"}
        PROVE  Claims(b)'
    <3>1. pc'[c] = "failed" /\ (b # c => pc'[b] = pc[b])
      BY <2>0, <2>5 DEF SendFails, CallTypeOK
    <3>2. \/ fg' = fg /\ (fg = c => stopping)
          \/ fg' = fg /\ why = "unknown"
          \/ fg' = None
      BY <2>5 DEF SendFails, Failures
    <3>3. uncertain \/ (~stopping /\ fg = c /\ why = "unknown") => uncertain'
      BY <2>5 DEF SendFails
    <3>4. UNCHANGED <<stop, reconcile, old>>
      BY <2>5 DEF SendFails
    <3>5. QED
      BY <1>0, <2>0, <3>1, <3>2, <3>3, <3>4
  <2>6. ASSUME NEW how, DirectEnds(c, how), pc[c] \notin {"idle", "resume"}
        PROVE  Claims(b)'
    <3>1. pc'[c] \in {"done", "failed"} /\ (b # c => pc'[b] = pc[b])
      BY <2>0, <2>6 DEF DirectEnds, CallTypeOK
    <3>2. \/ fg' = fg /\ (fg = c => stopping)
          \/ fg' = None
      BY <2>6 DEF DirectEnds
    <3>3. uncertain => uncertain'
      BY <2>6 DEF DirectEnds
    <3>4. UNCHANGED <<stop, reconcile, old>>
      BY <2>6 DEF DirectEnds
    <3>5. QED
      BY <1>0, <2>0, <3>1, <3>2, <3>3, <3>4
  <2>7. CASE Catalog(c)
    BY <1>0, <2>0, <2>5, <2>7 DEF Catalog, Failures, CallTypeOK, view
  <2>8. CASE Prompt(c)
    <3>1. CASE Goto(c, "state") /\ UNCHANGED <<view, old, stops>>
      BY <1>0, <2>0, <3>1 DEF CallTypeOK, view
    <3>2. QED
      BY <2>5, <2>8, <3>1 DEF Prompt
  <2>9. CASE SendState(c)
    BY <1>0, <2>0, <2>9 DEF SendState, Handled, NoRun, CallTypeOK, view
  <2>10. CASE CompactAnswered(c) /\ Goto(c, "compactState") /\ UNCHANGED <<view, old, stops>>
    BY <1>0, <2>0, <2>10 DEF CompactAnswered, CallTypeOK, view
  <2>11. CASE BashAnswered(c) \/ CompactAnswered(c) \/ CompactState(c)
    BY <2>6, <2>10, <2>11 DEF BashAnswered, CompactAnswered, CompactState
  <2>12. CASE ResumeAnswered(c)
    BY <1>0, <2>0, <2>12 DEF ResumeAnswered, RestorePhase, Failures, CallTypeOK
  <2>13. QED
    BY <1>1, <2>1, <2>2, <2>3, <2>4, <2>7, <2>8, <2>9, <2>11, <2>12
    DEF CallStep, CallBegins, CallResumes
<1> USE DEF Claims, stopping, Doubt, calls, view
<1>2. CASE Stop
  BY <1>0, <1>2 DEF Stop
<1>3. CASE StopAdvances
  <2>1. CASE StopPause \/ StopNotify \/ StopAbort \/ StopWaitBash \/ StopWaitCompact \/ StopWaitPrompt
    BY <1>0, <2>1 DEF StopPause, StopNotify, StopAbort, StopWaitBash, StopWaitCompact,
                      StopWaitPrompt, StopStep, StopGoto
  <2>2. CASE Stopped
    BY <1>0, <2>2, RunAssumption DEF Stopped
  <2>3. CASE StopFails
    BY <1>0, <2>3 DEF StopFails
  <2>4. QED
    BY <1>3, <2>1, <2>2, <2>3 DEF StopAdvances, StopEnds
<1>4. ASSUME NEW d \in Dialogs, DialogStep(d) PROVE Claims(b)'
  BY <1>0, <1>4 DEF DialogStep, DialogRaised, CancelEnds, Respond, Forget, stops
<1>5. CASE RecordStep
  BY <1>0, <1>5, RunAssumption
  DEF RecordStep, RunEvent, AgentSettled, ProtocolDiagnostic, RequireReconciliation, stops
<1>6. CASE UNCHANGED vars
  BY <1>0, <1>6 DEF vars, stops
<1>7. QED
  BY <1>1, <1>2, <1>3, <1>4, <1>5, <1>6 DEF Next

\* A call that came to nothing has given the foreground back, unless a Stop is
\* pending or the session is in doubt.
THEOREM ForegroundGivenBack == Spec => []ForegroundReleased
<1>1. Init => ForegroundInv
  BY RunAssumption DEF Init, ForegroundInv, Claims
<1>2. ForegroundInv => ForegroundReleased
  BY DEF ForegroundInv, Claims, ForegroundReleased
<1>3. QED
  BY <1>1, <1>2, ClaimsStep, RunTypeCorrect, PTL DEF Spec

=============================================================================
