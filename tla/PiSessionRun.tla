---------------------------- MODULE PiSessionRun ----------------------------
(***************************************************************************)
(* The run state of one live Pi session: the SessionRuntime of             *)
(* pi-session-supervisor.ts and the calls that share it while they await   *)
(* Pi: sendText, runBash, compact, resumeQueue, stop and respondExtension, *)
(* with the records Pi sends meanwhile.                                    *)
(*                                                                         *)
(* A call is an element of Calls, its kind OpOf[call] ("slash" is a        *)
(* sendText whose text begins with "/"), and its execution id the call     *)
(* itself.  A call runs from one await to the next in one step.  Awaits in *)
(* a row that nothing is read or written between are one await.  Pi is     *)
(* external: an awaited request is answered, refused, or left unanswered   *)
(* (delivery unknown), in any order, and records come at any time.         *)
(*                                                                         *)
(* Left out: the text of errors, and with it whether a run that settles    *)
(* failed ("settled" or "error" is a choice here); the control bridge,     *)
(* which can only refuse a call; exit and close of the runtime, which end  *)
(* the state modelled here.                                                *)
(*                                                                         *)
(* An operator introduced by a comment that begins with "Bug:" is not part *)
(* of the specification: it is what a plausible mistake would make of the  *)
(* operator after it, and shows that the properties notice.                *)
(***************************************************************************)
EXTENDS Naturals

CONSTANTS Calls, OpOf, Dialogs, None

Kinds == {"send", "slash", "bash", "compact", "resume"}

Ready == {"idle", "settled", "stopped", "error"}    \* phases that admit an input

ASSUME RunAssumption ==
  /\ OpOf \in [Calls -> Kinds]
  /\ None \notin Calls \cup Ready

VARIABLES
  phase, fg,         \* view.phase, view.foregroundExecutionId
  uncertain,         \* view.uncertainDelivery
  reconcile,         \* view.reconciliationRequired
  direct,            \* view.directBash and view.directCompaction
  queuePaused,       \* view.queuePaused
  accept,            \* acceptRunEvents
  pc,                \* where each call awaits, or how it ended
  old,               \* `oldPhase' of a resumeQueue that found Pi idle, else None
  disposition,       \* promptDisposition of each sendText
  stop,              \* where stop awaits; `stopping' is stop # "no"
  claimed,           \* the execution this Stop has claimed
  pauseFailed,       \* pauseError
  cancelling,        \* cancellingExtensionRequests
  queueReady,        \* extensionStopQueueReady
  cancelError,       \* extensionCancellationError
  pending,           \* pendingExtensionRequests
  held,              \* extensionRequests, the dialogs Stop is to cancel
  cancels,           \* dialogs whose cancellation by the record handler is under way
  answers            \* extension_ui_response records written for each dialog (history)

view == <<phase, fg, uncertain, reconcile, direct, queuePaused>>
calls == <<pc, old, disposition>>
stops == <<stop, claimed, pauseFailed, cancelError>>
dialogs == <<cancelling, queueReady, pending, held, cancels, answers>>
vars == <<view, accept, calls, stops, dialogs>>

Phases == Ready \cup {"accepted", "running", "retrying", "compacting", "stopping"}
Awaiting == {"catalog", "prompt", "state", "bash", "compact", "compactState", "resume"}
Ended == {"failed", "handled", "run", "done"}
Stopping == {"pause", "notify", "abort", "waitBash", "waitCompact", "waitPrompt", "state"}

stopping == stop # "no"
Doubt == uncertain \/ reconcile

ViewTypeOK ==
  /\ phase \in Phases
  /\ fg \in Calls \cup {None}
  /\ uncertain \in BOOLEAN /\ reconcile \in BOOLEAN
  /\ direct \subseteq {"bash", "compact"}
  /\ queuePaused \in BOOLEAN /\ accept \in BOOLEAN

CallTypeOK ==
  /\ pc \in [Calls -> {"idle"} \cup Awaiting \cup Ended]
  /\ old \in [Calls -> Ready \cup {None}]
  /\ disposition \in [Calls -> {"none", "run", "handled", "command"}]

StopTypeOK ==
  /\ stop \in Stopping \cup {"no"}
  /\ claimed \in Calls \cup {None}
  /\ pauseFailed \in BOOLEAN /\ cancelError \in BOOLEAN

DialogTypeOK ==
  /\ cancelling \in BOOLEAN /\ queueReady \in BOOLEAN
  /\ pending \subseteq Dialogs /\ held \subseteq Dialogs /\ cancels \subseteq Dialogs
  /\ answers \in [Dialogs -> Nat]

\* The view, the runtime and every await hold what their declarations say.
TypeOK == ViewTypeOK /\ CallTypeOK /\ StopTypeOK /\ DialogTypeOK

\* start, of a session that is idle in Pi.
Init ==
  /\ phase = "idle" /\ fg = None
  /\ uncertain = FALSE /\ reconcile = FALSE
  /\ direct = {} /\ queuePaused = FALSE /\ accept = FALSE
  /\ pc = [c \in Calls |-> "idle"]
  /\ old = [c \in Calls |-> None]
  /\ disposition = [c \in Calls |-> "none"]
  /\ stop = "no" /\ claimed = None /\ pauseFailed = FALSE /\ cancelError = FALSE
  /\ cancelling = FALSE /\ queueReady = FALSE
  /\ pending = {} /\ held = {} /\ cancels = {}
  /\ answers = [d \in Dialogs |-> 0]

Goto(c, l) == pc' = [pc EXCEPT ![c] = l]
At(c, l) == pc[c] = l

\* The service runs sendText and resumeQueue of a session one after another;
\* stop, compact, runBash and respondExtension overtake them.
LaneFree ==
  \A c \in Calls : OpOf[c] \in {"send", "slash", "resume"} => pc[c] \notin Awaiting

\* A settled run: whether it failed is not modelled, doubt makes it an error.
SettledPhase == IF Doubt THEN {"error"} ELSE {"settled", "error"}

\* How a request ends that is not answered with success.
Failures == {"refused", "unknown"}

-----------------------------------------------------------------------------
(* sendText.                                                               *)

\* Bug: a refused input keeps the foreground.
SendFailsHolding(c, why) ==
  /\ Goto(c, "failed")
  /\ IF ~stopping /\ fg = c
       THEN /\ phase' = "error"
            /\ accept' = FALSE
            /\ uncertain' = (uncertain \/ why = "unknown")
       ELSE UNCHANGED <<phase, accept, uncertain>>
  /\ UNCHANGED <<fg, reconcile, direct, queuePaused, old, disposition, stops, dialogs>>

\* The catch of sendText: it belongs to the execution that still holds the
\* foreground of a session that is not being stopped.
SendFails(c, why) ==
  /\ Goto(c, "failed")
  /\ IF ~stopping /\ fg = c
       THEN /\ phase' = "error"
            /\ accept' = FALSE
            /\ uncertain' = (uncertain \/ why = "unknown")
            /\ fg' = IF why = "unknown" THEN fg ELSE None
       ELSE UNCHANGED <<phase, accept, uncertain, fg>>
  /\ UNCHANGED <<reconcile, direct, queuePaused, old, disposition, stops, dialogs>>

\* The admission is claimed at once.  A text without "/" is sent in the same
\* step, unless a Stop is pending.
SendText(c) ==
  /\ At(c, "idle") /\ OpOf[c] \in {"send", "slash"} /\ LaneFree
  /\ ~Doubt /\ phase \in Ready
  /\ accept' = TRUE
  /\ phase' = "accepted"
  /\ fg' = c
  /\ Goto(c, IF OpOf[c] = "slash" THEN "catalog" ELSE IF stopping THEN "failed" ELSE "prompt")
  /\ UNCHANGED <<uncertain, reconcile, direct, queuePaused, old, disposition, stops, dialogs>>

\* Bug: the claim is not looked at again after the catalog was read.
CatalogTrusting(c) ==
  /\ At(c, "catalog")
  /\ Goto(c, "prompt")
  /\ UNCHANGED <<view, accept, old, disposition, stops, dialogs>>

\* get_commands came back, or failed: the claim is looked at again.
Catalog(c) ==
  /\ At(c, "catalog")
  /\ \/ /\ ~stopping /\ fg = c /\ phase = "accepted"
        /\ Goto(c, "prompt")
        /\ UNCHANGED <<view, accept, old, disposition, stops, dialogs>>
     \/ SendFails(c, "refused")   \* stopped, or images for an extension command

Prompt(c) ==
  /\ At(c, "prompt")
  /\ \/ /\ Goto(c, "state")
        /\ \E d \in {"none", "run", "handled"} \cup
                    (IF OpOf[c] = "slash" THEN {"command"} ELSE {}) :
             disposition' = [disposition EXCEPT ![c] = d]
        /\ UNCHANGED <<view, accept, old, stops, dialogs>>
     \/ \E why \in Failures : SendFails(c, why)

\* Pi was found idle: the input was consumed without a run.
Handled(c) ==
  /\ phase' \in SettledPhase
  /\ fg' = None /\ accept' = FALSE
  /\ Goto(c, "handled")
  /\ UNCHANGED <<uncertain, reconcile, direct, queuePaused, old, disposition, stops, dialogs>>

\* The input was admitted, and nothing tells what became of it.
NoRun(c) ==
  /\ phase' = "error" /\ reconcile' = TRUE
  /\ fg' = None /\ accept' = FALSE
  /\ Goto(c, "failed")
  /\ UNCHANGED <<uncertain, direct, queuePaused, old, disposition, stops, dialogs>>

\* get_state after an admission says that Pi is idle or busy, its queue empty or
\* not; or it fails.
SendState(c) ==
  /\ At(c, "state")
  /\ \/ \E idle, empty \in BOOLEAN :
          LET quiet   == idle /\ empty /\ phase = "accepted"
              handled == /\ ~Doubt
                         /\ \/ disposition[c] = "handled" /\ idle
                            \/ disposition[c] = "command" /\ quiet
              lost    == quiet /\ disposition[c] # "run" /\ (Doubt \/ disposition[c] = "none")
          IN \/ handled /\ Handled(c)
             \/ lost /\ NoRun(c)
             \/ /\ ~handled /\ ~lost
                /\ Goto(c, "run")
                /\ UNCHANGED <<view, accept, old, disposition, stops, dialogs>>
     \/ /\ reconcile' = TRUE
        /\ Goto(c, "run")
        /\ UNCHANGED <<phase, fg, uncertain, direct, queuePaused, accept, old,
                       disposition, stops, dialogs>>

-----------------------------------------------------------------------------
(* runBash and compact: a direct command of the user.                      *)

Direct(c, kind, at) ==
  /\ At(c, "idle") /\ OpOf[c] = kind
  /\ ~Doubt /\ phase \in Ready
  /\ fg' = c
  /\ direct' = direct \cup {kind}
  /\ Goto(c, kind)
  /\ phase' = at

RunBash(c) ==
  /\ Direct(c, "bash", "running")
  /\ UNCHANGED <<uncertain, reconcile, queuePaused, accept, old, disposition, stops, dialogs>>

Compact(c) ==
  /\ Direct(c, "compact", "compacting")
  /\ accept' = TRUE
  /\ UNCHANGED <<uncertain, reconcile, queuePaused, old, disposition, stops, dialogs>>

\* The catch and finally of both: they belong to the execution that still holds
\* the foreground of a session that is not being stopped.
DirectEnds(c, how) ==
  LET mine == fg = c /\ ~stopping
      kind == OpOf[c]
      swallowed == kind = "compact" /\ phase = "stopped"
  IN /\ direct' = direct \ {kind}
     /\ uncertain' = (uncertain \/ (how = "unknown" /\ mine /\ ~swallowed))
     /\ fg' = IF mine THEN None ELSE fg
     /\ phase' = IF ~mine \/ phase = "error" THEN phase
                 ELSE IF how = "ok" \/ swallowed THEN "settled" ELSE "error"
     /\ accept' = IF mine /\ kind = "compact" THEN FALSE ELSE accept
     /\ Goto(c, IF how = "ok" THEN "done" ELSE "failed")
     /\ UNCHANGED <<reconcile, queuePaused, old, disposition, stops, dialogs>>

BashAnswered(c) ==
  At(c, "bash") /\ \E how \in {"ok"} \cup Failures : DirectEnds(c, how)

CompactAnswered(c) ==
  /\ At(c, "compact")
  /\ \/ Goto(c, "compactState")
        /\ UNCHANGED <<view, accept, old, disposition, stops, dialogs>>
     \/ \E why \in Failures : DirectEnds(c, why)

\* get_state after the compaction; still compacting counts as a failure.
CompactState(c) ==
  At(c, "compactState") /\ \E how \in {"ok"} \cup Failures : DirectEnds(c, how)

-----------------------------------------------------------------------------
(* resumeQueue.                                                            *)

\* Back to the phase before, whoever holds the foreground by now.
RestorePhase(c) ==
  /\ phase' = old[c]
  /\ fg' = None /\ accept' = FALSE

\* After the queue compatibility was read, which is refused in doubt.  An idle
\* session is claimed for the input Pi may promote; the command is refused too
\* when the doubt arose meanwhile.
ResumeQueue(c) ==
  /\ At(c, "idle") /\ OpOf[c] = "resume" /\ LaneFree
  /\ Goto(c, IF Doubt THEN "failed" ELSE "resume")
  /\ \/ Doubt /\ UNCHANGED <<phase, fg, accept, old>>
     \/ /\ phase \notin Ready
        /\ UNCHANGED <<phase, fg, accept, old>>
     \/ /\ phase \in Ready
        /\ old' = [old EXCEPT ![c] = phase]
        /\ IF Doubt THEN UNCHANGED phase /\ fg' = None /\ accept' = FALSE
                    ELSE phase' = "accepted" /\ fg' = c /\ accept' = TRUE
  /\ UNCHANGED <<uncertain, reconcile, direct, queuePaused, disposition, stops, dialogs>>

ResumeAnswered(c) ==
  /\ At(c, "resume")
  /\ \/ \E why \in Failures :
          /\ Goto(c, "failed")
          /\ \/ old[c] = None /\ UNCHANGED <<phase, fg, accept, uncertain, reconcile>>
             \/ /\ old[c] # None /\ why = "unknown"
                /\ phase' = "error" /\ uncertain' = TRUE /\ reconcile' = TRUE
                /\ UNCHANGED <<fg, accept>>
             \/ /\ old[c] # None /\ why = "refused"
                /\ RestorePhase(c) /\ UNCHANGED <<uncertain, reconcile>>
          /\ UNCHANGED queuePaused
     \/ \E promoted, paused \in BOOLEAN :
          /\ queuePaused' = paused
          /\ IF old[c] # None /\ ~promoted /\ phase = "accepted"
               THEN RestorePhase(c) /\ Goto(c, "done")
               ELSE UNCHANGED <<phase, fg, accept>> /\ Goto(c, "run")
          /\ UNCHANGED <<uncertain, reconcile>>
     \/ /\ Goto(c, "run")         \* malformed: thrown, Pi may run a promoted input
        /\ UNCHANGED <<phase, fg, accept, uncertain, reconcile, queuePaused>>
  /\ UNCHANGED <<direct, old, disposition, stops, dialogs>>

-----------------------------------------------------------------------------
(* stop.                                                                   *)

StopGoto(l) == stop' = l /\ UNCHANGED <<claimed, pauseFailed, cancelError>>

Stop ==
  /\ fg # None /\ ~stopping
  /\ stop' = "pause" /\ claimed' = fg
  /\ cancelling' = TRUE /\ queueReady' = FALSE /\ cancelError' = FALSE
  /\ held' = pending /\ pending' = {}
  /\ accept' = FALSE
  /\ phase' = "stopping"
  /\ pauseFailed' = Doubt        \* a queue command is refused while in doubt
  /\ UNCHANGED <<fg, uncertain, reconcile, direct, queuePaused, calls, cancels, answers>>

\* Bug: only the dialogs that were open when Stop was called are cancelled.
StopPauseOnce ==
  /\ stop = "pause"
  /\ \/ ~pauseFailed /\ queuePaused' \in BOOLEAN /\ UNCHANGED pauseFailed
     \/ pauseFailed' = TRUE /\ UNCHANGED queuePaused
  /\ stop' = "notify"
  /\ queueReady' = TRUE
  /\ answers' = [d \in Dialogs |-> IF d \in held THEN answers[d] + 1 ELSE answers[d]]
  /\ held' = {}
  /\ UNCHANGED <<phase, fg, uncertain, reconcile, direct, accept, calls, claimed,
                 cancelError, cancelling, pending, cancels>>

\* The queue is paused, or not: the dialogs held back are cancelled.
StopPause ==
  /\ stop = "pause"
  /\ \/ ~pauseFailed /\ queuePaused' \in BOOLEAN /\ UNCHANGED pauseFailed
     \/ pauseFailed' = TRUE /\ UNCHANGED queuePaused
  /\ stop' = "notify"
  /\ queueReady' = TRUE
  /\ answers' = [d \in Dialogs |->
                   IF d \in held \cup pending THEN answers[d] + 1 ELSE answers[d]]
  /\ held' = {} /\ pending' = {}
  /\ UNCHANGED <<phase, fg, uncertain, reconcile, direct, accept, calls, claimed,
                 cancelError, cancelling, cancels>>

\* The catch and finally of stop: dialogs stay cancelled.
StopFails ==
  /\ uncertain' \in {uncertain, TRUE}
  /\ reconcile' = TRUE
  /\ phase' = "error"
  /\ stop' = "no" /\ claimed' = None
  /\ UNCHANGED <<fg, direct, queuePaused, accept, calls, pauseFailed, cancelError, dialogs>>

StopStep(from, next) ==
  /\ stop = from
  /\ StopGoto(next)
  /\ UNCHANGED <<view, accept, calls, dialogs>>

StopNotify == ~pauseFailed /\ StopStep("notify", "abort")
StopAbort  == StopStep("abort", "waitBash")

Unanswered(kind) == \E c \in Calls : pc[c] = kind

StopWaitBash    == ("bash" \in direct => ~Unanswered("bash")) /\ StopStep("waitBash", "waitCompact")
StopWaitCompact == ("compact" \in direct => ~Unanswered("compact")) /\ StopStep("waitCompact", "waitPrompt")
StopWaitPrompt  == ~Unanswered("prompt") /\ ~cancelError /\ StopStep("waitPrompt", "state")

Stopped ==
  /\ stop = "state" /\ queuePaused
  /\ phase' = "stopped" /\ fg' = None
  /\ reconcile' = FALSE
  /\ cancelling' = FALSE /\ queueReady' = FALSE
  /\ stop' = "no" /\ claimed' = None
  /\ UNCHANGED <<uncertain, direct, queuePaused, accept, calls, pauseFailed, cancelError,
                 pending, held, cancels, answers>>

StopEnds == Stopped \/ (stop \in Stopping \ {"pause"} /\ StopFails)

StopAdvances ==
  \/ StopPause \/ StopNotify \/ StopAbort \/ StopWaitBash \/ StopWaitCompact
  \/ StopWaitPrompt \/ StopEnds

-----------------------------------------------------------------------------
(* Dialogs, and the other records of Pi.                                   *)

Raised(d) == d \in pending \cup held \cup cancels \/ answers[d] > 0

\* An extension_ui_request, with an id Pi does not use while it may be answered
\* or has been.
DialogRaised(d) ==
  /\ ~Raised(d)
  /\ IF cancelling /\ queueReady
       THEN /\ cancels' = cancels \cup {d}
            /\ answers' = [answers EXCEPT ![d] = @ + 1]
            /\ UNCHANGED pending
       ELSE pending' = pending \cup {d} /\ UNCHANGED <<cancels, answers>>
  /\ UNCHANGED <<view, accept, calls, stops, cancelling, queueReady, held>>

\* The cancellation by the record handler is written, or fails.
CancelEnds(d) ==
  /\ d \in cancels
  /\ cancels' = cancels \ {d}
  /\ \/ cancelError' = TRUE /\ reconcile' = TRUE
     \/ UNCHANGED <<cancelError, reconcile>>
  /\ UNCHANGED <<phase, fg, uncertain, direct, queuePaused, accept, calls, stop, claimed,
                 pauseFailed, cancelling, queueReady, pending, held, answers>>

\* respondExtension: the request is claimed before the answer is written.
Respond(d) ==
  /\ ~cancelling /\ ~stopping
  /\ d \in pending
  /\ pending' = pending \ {d}
  /\ answers' = [answers EXCEPT ![d] = @ + 1]
  /\ UNCHANGED <<view, accept, calls, stops, cancelling, queueReady, held, cancels>>

\* forgetExtensionRequest: the time the dialog allows for an answer is over.
Forget(d) ==
  /\ d \in pending
  /\ pending' = pending \ {d}
  /\ UNCHANGED <<view, accept, calls, stops, cancelling, queueReady, held, cancels, answers>>

\* agent_start, the retry and the compaction records.
RunEvent ==
  /\ ~stopping /\ accept
  /\ phase' \in {"running", "retrying", "compacting"}
  /\ UNCHANGED <<fg, uncertain, reconcile, direct, queuePaused, accept, calls, stops, dialogs>>

AgentSettled ==
  /\ ~stopping /\ accept
  /\ phase' \in SettledPhase
  /\ fg' = None /\ accept' = FALSE
  /\ UNCHANGED <<uncertain, reconcile, direct, queuePaused, calls, stops, dialogs>>

\* Malformed output of Pi.
ProtocolDiagnostic ==
  /\ uncertain' = TRUE /\ phase' = "error"
  /\ UNCHANGED <<fg, reconcile, direct, queuePaused, accept, calls, stops, dialogs>>

\* requireReconciliation, by the service.
RequireReconciliation ==
  /\ uncertain' \in {uncertain, TRUE}
  /\ reconcile' = TRUE /\ phase' = "error"
  /\ UNCHANGED <<fg, direct, queuePaused, accept, calls, stops, dialogs>>

CallBegins(c) == SendText(c) \/ RunBash(c) \/ Compact(c) \/ ResumeQueue(c)

CallResumes(c) ==
  \/ Catalog(c) \/ Prompt(c) \/ SendState(c)
  \/ BashAnswered(c) \/ CompactAnswered(c) \/ CompactState(c) \/ ResumeAnswered(c)

CallStep(c) == CallBegins(c) \/ CallResumes(c)
DialogStep(d) == DialogRaised(d) \/ CancelEnds(d) \/ Respond(d) \/ Forget(d)
RecordStep == RunEvent \/ AgentSettled \/ ProtocolDiagnostic \/ RequireReconciliation

Next ==
  \/ \E c \in Calls : CallStep(c)
  \/ Stop \/ StopAdvances
  \/ \E d \in Dialogs : DialogStep(d)
  \/ RecordStep

Spec == Init /\ [][Next]_vars

-----------------------------------------------------------------------------

(* What the supervisor promises.                                           *)

\* A dialog of Pi is answered at most once, by the renderer, by Stop or by the
\* record handler, however their claims interleave (respondExtension, stop).
DialogAnsweredOnce == \A d \in Dialogs : answers[d] <= 1

\* Once Stop has released the dialogs none is left for the renderer to answer:
\* not one raised while the queue was being paused, nor one raised after a Stop
\* that failed.
NoneLeftPending == cancelling /\ queueReady => pending = {}

\* Both: every dialog is settled, by one of the three, and once.
DialogsSettled == DialogAnsweredOnce /\ NoneLeftPending

\* Nothing that can start work in Pi is sent while an earlier delivery is
\* uncertain, though the doubt arose while a call was awaiting the catalog.
NothingSentUncertain ==
  [][\A c \in Calls : pc[c] # pc'[c] /\ pc'[c] \in {"prompt", "bash", "compact", "resume"}
       => ~uncertain]_vars

\* A call that came to nothing gives the foreground back, whatever Stop did
\* meanwhile, unless the session is in doubt: the next input is not refused as
\* busy for an execution nobody will ever settle.
ForegroundReleased ==
  \A c \in Calls : fg = c /\ pc[c] \in {"failed", "handled", "done"} => stopping \/ Doubt

\* "A new admission cannot enter while this generation's Stop is pending"
\* (pi-session-supervisor.ts, stop): the foreground stays with the execution
\* that Stop has claimed until Stop ends.
StopExcludesAdmission == stopping => fg \in {claimed, None}

=============================================================================
