-------------------------------- MODULE PiAuth --------------------------------
(***************************************************************************)
(* Operations on Pi's credentials: PiAuthManager (pi-auth-manager.ts), and *)
(* the synchronization of the live session that follows a change           *)
(* (synchronizePiAuthSessions in pi-native-v4-service.ts), beside the      *)
(* inputs and the controls of that session.                                *)
(*                                                                         *)
(* Every member of Calls is one call of start or refresh, by what it does  *)
(* (ActionOf).  A step runs from one await to the next.  Pi is abstract:   *)
(* it does what it is asked, or throws, or throws after it has stored the  *)
(* credential (CredentialSynchronizationError), aborted or not; it may     *)
(* leave a call unanswered until it is aborted, and asks as it likes.      *)
(*                                                                         *)
(* Left out: what prompts and notices show, views, providers that are not  *)
(* registered (a start that fails), a second live session, which would be  *)
(* synchronized after the first.  Of the commands only sendText is here:   *)
(* those on the queue do not look at the fence, and those that fork take   *)
(* it, as a control does.                                                  *)
(*                                                                         *)
(* An operator introduced by a comment that begins with "Bug:" is not part *)
(* of the specification: it is what a plausible mistake would make of the  *)
(* operator after it, and shows that the properties notice.                *)
(***************************************************************************)
EXTENDS Naturals, Sequences, SequencesExt

CONSTANTS
  Calls, ActionOf,
  Inputs,        \* the calls of sendText on the session
  MaxPrompts,    \* a bound on the prompts that are open at once
  Control, Nobody

Altering == {"login", "logout"}

ASSUME AuthAssumption ==
  /\ ActionOf \in [Calls -> Altering \cup {"resolve", "catalog", "directory"}]
  /\ MaxPrompts \in Nat
  /\ {Control, Nobody} \cap Calls = {} /\ Control # Nobody

VARIABLES
  pc,            \* where each call awaits
  claiming,      \* this.claiming: the call that claims the manager
  outcome,       \* view.outcome
  aborted,       \* calls whose signal is aborted
  asked,         \* operation.pending: how many prompts are open
  disposed,
  stored,        \* the calls whose change of the credential Pi has made
  fence,         \* this.treeOperations: who has the session to itself
  admissions,    \* this.sessionAdmissions: the inputs in their order
  awaited,       \* the admission that a synchronization waits for
  input,         \* where each input awaits
  busy           \* a run of the session is under way

manager == <<pc, claiming, outcome, aborted, asked, disposed>>
session == <<fence, admissions, awaited, input, busy>>
authVars == <<manager, stored, session>>

Syncing == {"sync", "admission", "inspect"}
AtWork == {"pi", "refresh"} \cup Syncing
Active(c) == outcome[c] \in {"running", "waiting"}

AuthInit ==
  /\ pc = [c \in Calls |-> "idle"]
  /\ claiming = Nobody
  /\ outcome = [c \in Calls |-> "none"]
  /\ aborted = {} /\ disposed = FALSE /\ stored = {}
  /\ asked = [c \in Calls |-> 0]
  /\ fence = Nobody /\ admissions = <<>> /\ busy = FALSE
  /\ awaited = [c \in Calls |-> {}]
  /\ input = [m \in Inputs |-> "idle"]

Goto(c, l) == pc' = [pc EXCEPT ![c] = l]
At(c, l) == pc[c] = l

-----------------------------------------------------------------------------
(* start and refresh.                                                      *)

Free == ~disposed /\ claiming = Nobody /\ \A c \in Calls : ~Active(c)

Call(c) ==
  /\ At(c, "idle")
  /\ IF Free THEN Goto(c, "runtime") /\ claiming' = c
             ELSE Goto(c, "over") /\ UNCHANGED claiming
  /\ UNCHANGED <<outcome, aborted, asked, disposed, stored, session>>

\* The runtime of Pi is there, or could not be made.  An operation becomes active
\* in the step that drops the claim; refresh keeps it to its end.
RuntimeThere(c) ==
  /\ At(c, "runtime")
  /\ \/ Goto(c, "over") /\ claiming' = Nobody /\ UNCHANGED outcome
     \/ ActionOf[c] = "directory" /\ Goto(c, "pi") /\ UNCHANGED <<claiming, outcome>>
     \/ /\ ActionOf[c] # "directory"
        /\ Goto(c, "pi") /\ claiming' = Nobody
        /\ outcome' = [outcome EXCEPT ![c] = "running"]
  /\ UNCHANGED <<aborted, asked, disposed, stored, session>>

\* The end of perform, or of refresh: the signal is aborted, no prompt is left, and
\* the session is given back.
Ends(c, o) ==
  /\ Goto(c, "over")
  /\ claiming' = IF claiming = c THEN Nobody ELSE claiming
  /\ outcome' = [outcome EXCEPT ![c] = IF ActionOf[c] = "directory" THEN "none" ELSE o]
  /\ aborted' = aborted \cup {c}
  /\ asked' = [asked EXCEPT ![c] = 0]
  /\ fence' = IF fence = c THEN Nobody ELSE fence
  /\ awaited' = [awaited EXCEPT ![c] = {}]
  /\ UNCHANGED <<disposed, admissions, input, busy>>

\* The local variable committed of perform.
committed(c) == ActionOf[c] \in Altering /\ pc[c] # "pi"

\* Bug: whether the user has cancelled is asked first.
ThrownCancelled(c, storing) ==
  Ends(c, IF c \in aborted THEN "cancelled"
          ELSE IF committed(c) \/ storing THEN "sync-failed" ELSE "error")

\* The catch of perform.
Thrown(c, storing) ==
  Ends(c, IF committed(c) \/ storing THEN "sync-failed"
          ELSE IF c \in aborted THEN "cancelled" ELSE "error")

\* Pi answers login, logout, getAuth or a refresh of its directory.
PiAnswers(c) ==
  /\ At(c, "pi")
  /\ IF ActionOf[c] = "resolve"
       THEN Ends(c, "done")
       ELSE /\ Goto(c, IF ActionOf[c] \in Altering THEN "refresh" ELSE "sync")
            /\ UNCHANGED <<claiming, outcome, aborted, asked, disposed, session>>
  /\ stored' = IF ActionOf[c] \in Altering THEN stored \cup {c} ELSE stored

PiThrows(c) ==
  /\ At(c, "pi")
  /\ \E storing \in BOOLEAN :
       /\ storing => ActionOf[c] \in Altering
       /\ Thrown(c, storing)
       /\ stored' = IF storing THEN stored \cup {c} ELSE stored

\* The provider is read again after a change; aborted means an error here.
Refreshed(c) ==
  /\ At(c, "refresh")
  /\ Thrown(c, FALSE) \/ (Goto(c, "sync") /\ UNCHANGED <<claiming, outcome, aborted, asked, disposed, session>>)
  /\ UNCHANGED stored

-----------------------------------------------------------------------------
(* synchronizePiAuthSessions.                                              *)

\* The session is alive or not; if it is, it is fenced, unless it is taken, and the
\* last input that was admitted is noted.
Synchronizes(c) ==
  /\ At(c, "sync")
  /\ \/ Ends(c, "done")
     \/ fence # Nobody /\ Thrown(c, FALSE)
     \/ /\ fence = Nobody
        /\ fence' = c /\ Goto(c, "admission")
        /\ awaited' = [awaited EXCEPT ![c] = IF admissions = <<>> THEN {} ELSE {Last(admissions)}]
        /\ UNCHANGED <<claiming, outcome, aborted, asked, disposed, admissions, input, busy>>
  /\ UNCHANGED stored

Answered(c) == \A m \in awaited[c] : input[m] = "over"

\* Bug: the prior input is not waited for.
AdmissionIgnored(c) ==
  /\ At(c, "admission")
  /\ IF busy THEN Thrown(c, FALSE)
     ELSE Goto(c, "inspect") /\ UNCHANGED <<claiming, outcome, aborted, asked, disposed, session>>
  /\ UNCHANGED stored

\* Bug: nobody counts the time that the prior input takes.
AdmissionUntimed(c) ==
  /\ At(c, "admission") /\ Answered(c)
  /\ IF busy THEN Thrown(c, FALSE)
     ELSE Goto(c, "inspect") /\ UNCHANGED <<claiming, outcome, aborted, asked, disposed, session>>
  /\ UNCHANGED stored

\* The prior input has been answered, or its time is up.
AdmissionAwaited(c) ==
  /\ At(c, "admission")
  /\ IF Answered(c) /\ ~busy
       THEN Goto(c, "inspect") /\ UNCHANGED <<claiming, outcome, aborted, asked, disposed, session>>
       ELSE Thrown(c, FALSE)
  /\ UNCHANGED stored

\* The bridge is read, refreshes the models, and the facts are read.
Inspected(c) ==
  /\ At(c, "inspect")
  /\ Thrown(c, FALSE) \/ Ends(c, "done")
  /\ UNCHANGED stored

-----------------------------------------------------------------------------
(* Prompts, cancel, the timer, dispose.                                    *)

Prompt(c) ==
  /\ At(c, "pi") /\ ActionOf[c] = "login" /\ c \notin aborted
  /\ asked[c] < MaxPrompts
  /\ asked' = [asked EXCEPT ![c] = @ + 1]
  /\ outcome' = [outcome EXCEPT ![c] = "waiting"]
  /\ UNCHANGED <<pc, claiming, aborted, disposed, stored, session>>

\* cleanup of a prompt: the user answers, or Pi takes the prompt back.
PromptOver(c) ==
  /\ asked[c] > 0
  /\ asked' = [asked EXCEPT ![c] = @ - 1]
  /\ outcome' = [outcome EXCEPT ![c] = IF asked[c] > 1 THEN "waiting" ELSE "running"]
  /\ UNCHANGED <<pc, claiming, aborted, disposed, stored, session>>

\* The signals of the operations in S are aborted, and their prompts with them.
Abort(S) ==
  /\ aborted' = aborted \cup S
  /\ asked' = [c \in Calls |-> IF c \in S THEN 0 ELSE asked[c]]
  /\ outcome' = [c \in Calls |->
       IF c \in S /\ outcome[c] = "waiting" THEN "running" ELSE outcome[c]]

\* The user cancels an active operation, or its fifteen minutes are over.
Cancel(c) ==
  /\ Active(c) /\ c \notin aborted
  /\ Abort({c})
  /\ UNCHANGED <<pc, claiming, disposed, stored, session>>

Dispose ==
  /\ ~disposed /\ disposed' = TRUE
  /\ Abort({c \in Calls : outcome[c] # "none"})
  /\ UNCHANGED <<pc, claiming, stored, session>>

-----------------------------------------------------------------------------
(* The session: inputs in the order of their calls, and controls.          *)

Send(m) ==
  /\ input[m] = "idle"
  /\ input' = [input EXCEPT ![m] = "queued"]
  /\ admissions' = Append(admissions, m)
  /\ UNCHANGED <<manager, stored, fence, awaited, busy>>

First(m) == admissions # <<>> /\ Head(admissions) = m

\* The input that is first is refused behind the fence, or goes on to Pi.
Dispatch(m) ==
  /\ First(m) /\ input[m] = "queued"
  /\ \/ /\ fence = Nobody
        /\ input' = [input EXCEPT ![m] = "sending"] /\ UNCHANGED admissions
     \/ input' = [input EXCEPT ![m] = "over"] /\ admissions' = Tail(admissions)
  /\ UNCHANGED <<manager, stored, fence, awaited, busy>>

\* It is answered, and has begun a run or not.
Acknowledged(m) ==
  /\ First(m) /\ input[m] = "sending"
  /\ input' = [input EXCEPT ![m] = "over"] /\ admissions' = Tail(admissions)
  /\ busy' \in {busy, TRUE}
  /\ UNCHANGED <<manager, stored, fence, awaited>>

RunEnds ==
  /\ busy /\ busy' = FALSE
  /\ UNCHANGED <<manager, stored, fence, admissions, awaited, input>>

\* A control, an export, a share or a fork takes a session that nobody has.  Only the
\* first asks whether an input is on its way.
ControlBegins ==
  /\ fence = Nobody /\ ~busy
  /\ fence' = Control
  /\ UNCHANGED <<manager, stored, admissions, awaited, input, busy>>

ControlEnds ==
  /\ fence = Control /\ fence' = Nobody
  /\ UNCHANGED <<manager, stored, admissions, awaited, input, busy>>

AuthStep(c) ==
  \/ RuntimeThere(c) \/ PiAnswers(c) \/ PiThrows(c) \/ Refreshed(c)
  \/ Synchronizes(c) \/ AdmissionAwaited(c) \/ Inspected(c)

AuthNext ==
  \/ \E c \in Calls : Call(c) \/ AuthStep(c) \/ Prompt(c) \/ PromptOver(c) \/ Cancel(c)
  \/ Dispose
  \/ \E m \in Inputs : Send(m) \/ Dispatch(m) \/ Acknowledged(m)
  \/ RunEnds \/ ControlBegins \/ ControlEnds

\* Pi answers once a signal is aborted, and at once what it reads from its own files;
\* the timer of an operation fires; the synchronization has deadlines.  Nothing is
\* owed by the user, nor by an input.
Settles(c) ==
  \/ (At(c, "pi") => c \in aborted \/ ActionOf[c] = "directory") /\ AuthStep(c)
  \/ Cancel(c)

AuthFairness == \A c \in Calls : WF_authVars(Settles(c))

AuthSpec == AuthInit /\ [][AuthNext]_authVars /\ AuthFairness

-----------------------------------------------------------------------------
(* What the manager promises.                                              *)

\* An operation tells of a change exactly when Pi has made it, "cancelled" least of
\* all: a cancellation that comes while the change is followed up undoes nothing
\* (the catch of perform).
AuthTold ==
  \A c \in Calls : Active(c) \/ outcome[c] = "none" \/ ActionOf[c] \notin Altering
    \/ (outcome[c] \in {"done", "sync-failed"} <=> c \in stored)

\* Two operations never work on the credentials at once, nor an operation and a
\* refresh of the directory, across the claims and the outcomes that keep them apart.
AuthAlone == \A c, d \in Calls : pc[c] \in AtWork /\ pc[d] \in AtWork => c = d

\* While the session is synchronized it runs nothing, and no input is between its
\* look at the fence and its answer ("Fence new input, then let the prior admitted
\* command finish before reading Pi state", synchronizePiAuthSessions).
SyncAlone ==
  \A c \in Calls : At(c, "inspect") =>
    fence = c /\ ~busy /\ \A m \in Inputs : input[m] # "sending"

\* Both: an operation has the credentials, and then the session, to itself.
WorksAlone == AuthAlone /\ SyncAlone

\* The manager is never taken for good, whatever the user, Pi and the session's inputs
\* leave unanswered, and whether or not it was disposed of while an operation began.
Taken == claiming # Nobody \/ \E c \in Calls : Active(c)
ManagerFreed == Taken ~> ~Taken

=============================================================================
