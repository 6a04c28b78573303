------------------------ MODULE PiSupervisorLifecycle ------------------------
(***************************************************************************)
(* How PiSessionSupervisor (pi-session-supervisor.ts) brings Pi runtimes   *)
(* up and down: createSession, resumeSession and start, the exit of Pi,    *)
(* closeSession, and dispose.                                              *)
(*                                                                         *)
(* A runtime is an element of Starts: one call of createSession or         *)
(* resumeSession, on the history file FileOf[s].  The lease is taken       *)
(* abstractly, as OwnedSession promises it (PiSessionLease implements      *)
(* that): lease[f] is the runtime that holds the file's lease.  So is the  *)
(* client: its dispose comes back, with the process tree gone or with an   *)
(* error (PiRpcClient).  A step runs from one await to the next.           *)
(*                                                                         *)
(* A temporary session, which has no lease, is a start on a file that no   *)
(* other start has.                                                        *)
(*                                                                         *)
(* Left out: a session id or file that Pi answers wrongly (an answer that  *)
(* fails here); branchSession, which closes one session and resumes        *)
(* another and is in PiWorkspace; the death of the Host, which is in       *)
(* PiSessionLease.                                                         *)
(*                                                                         *)
(* An operator introduced by a comment that begins with "Bug:" is not part *)
(* of the specification: it is what a plausible mistake would make of the  *)
(* operator after it, and shows that the properties notice.                *)
(***************************************************************************)
EXTENDS Naturals

CONSTANTS Starts, Files, FileOf, Resumes, None

ASSUME LifecycleAssumption ==
  /\ FileOf \in [Starts -> Files]
  /\ Resumes \subseteq Starts
  /\ None \notin Starts

VARIABLES
  pc,          \* where each call of create or resume awaits, or how it ended:
               \* "kept" is a start that failed and kept its lease
  waits,       \* the exit cleanup that a resume awaits
  lease,       \* the runtime that holds the lease of each file
  root,        \* the Pi process of each runtime
  tree,        \* runtimes of which some process runs, Pi or a tool of Pi
  sessions,    \* this.sessions and this.sessionFiles
  closing,     \* this.closingSessions
  flight,      \* this.closeFlights: where closeSession awaits
  exits,       \* this.exitCleanups: the runtime whose cleanup is kept for a file
  cleanup,     \* where each exit cleanup awaits, or how it ended
  disposing,   \* where dispose awaits, or how it ended
  awaited,     \* the runtimes whose close dispose awaits
  rejected     \* whether one of these was rejected

starting == <<pc, waits>>
closes == <<closing, flight>>
cleanups == <<exits, cleanup>>
disposal == <<disposing, awaited, rejected>>
vars == <<starting, lease, root, tree, sessions, closes, cleanups, disposal>>

PendingStart == {"find", "wait", "acquire", "mark", "launch", "state", "check", "dispose", "release"}
Ending == {"dispose", "release"}

disposed == disposing # "no"

\* The tables of the supervisor name runtimes, each at one of its awaits.
TypeOK ==
  /\ pc \in [Starts -> {"idle", "up", "failed", "kept"} \cup PendingStart]
  /\ waits \in [Starts -> Starts \cup {None}]
  /\ lease \in [Files -> Starts \cup {None}]
  /\ root \in [Starts -> {"none", "live", "closed"}]
  /\ tree \subseteq Starts /\ sessions \subseteq Starts /\ closing \subseteq Starts
  /\ flight \in [Starts -> {"none", "settle"} \cup Ending]
  /\ exits \in [Files -> Starts \cup {None}]
  /\ cleanup \in [Starts -> {"none", "done", "failed"} \cup Ending]
  /\ disposing \in {"no", "starts", "closes", "exits", "done", "failed"}
  /\ awaited \subseteq Starts /\ rejected \in BOOLEAN

Init ==
  /\ pc = [s \in Starts |-> "idle"]
  /\ waits = [s \in Starts |-> None]
  /\ lease = [f \in Files |-> None]
  /\ root = [s \in Starts |-> "none"]
  /\ tree = {} /\ sessions = {} /\ closing = {}
  /\ flight = [s \in Starts |-> "none"]
  /\ exits = [f \in Files |-> None]
  /\ cleanup = [s \in Starts |-> "none"]
  /\ disposing = "no" /\ awaited = {} /\ rejected = FALSE

Goto(s, l) == pc' = [pc EXCEPT ![s] = l]
At(s, l) == pc[s] = l

-----------------------------------------------------------------------------
(* createSession, resumeSession, start.                                    *)

Call(s) ==
  /\ At(s, "idle") /\ ~disposed
  /\ Goto(s, IF s \in Resumes THEN "find" ELSE "acquire")
  /\ UNCHANGED <<waits, lease, root, tree, sessions, closes, cleanups, disposal>>

\* The history file is there; the cleanup of the runtime that exited on it, if
\* there is one, is awaited.
FindCleanup(s) ==
  /\ At(s, "find")
  /\ waits' = [waits EXCEPT ![s] = exits[FileOf[s]]]
  /\ Goto(s, "wait")
  /\ UNCHANGED <<lease, root, tree, sessions, closes, cleanups, disposal>>

\* Bug: a cleanup that fails is not heard.
AwaitCleanupDone(s) ==
  LET c == waits[s]
  IN /\ At(s, "wait")
     /\ c # None => cleanup[c] = "done"
     /\ Goto(s, IF disposed THEN "failed" ELSE "acquire")
     /\ UNCHANGED <<waits, lease, root, tree, sessions, closes, cleanups, disposal>>

\* A resume goes on when that cleanup has come to an end, and well.
AwaitCleanup(s) ==
  LET c == waits[s]
  IN /\ At(s, "wait")
     /\ c # None => cleanup[c] \in {"done", "failed"}
     /\ Goto(s, IF disposed \/ (c # None /\ cleanup[c] = "failed") THEN "failed" ELSE "acquire")
     /\ UNCHANGED <<waits, lease, root, tree, sessions, closes, cleanups, disposal>>

\* Before there is a lease a start fails with nothing to undo: the workspace or
\* the history file is not there, or the lease is taken.
Refused(s) ==
  /\ pc[s] \in {"find", "acquire"}
  /\ Goto(s, "failed")
  /\ UNCHANGED <<waits, lease, root, tree, sessions, closes, cleanups, disposal>>

\* PiSessionLease.acquire.  The disposal is looked at before, not after.
Acquire(s) ==
  /\ At(s, "acquire")
  /\ lease[FileOf[s]] = None
  /\ lease' = [lease EXCEPT ![FileOf[s]] = s]
  /\ Goto(s, "mark")
  /\ UNCHANGED <<waits, root, tree, sessions, closes, cleanups, disposal>>

\* Bug: the lease is forgotten when there is no client yet.
StartFailsForgetting(s) ==
  /\ \/ pc[s] \in {"mark", "launch"} /\ Goto(s, "failed")
     \/ pc[s] \in {"state", "check"} /\ Goto(s, "dispose")
  /\ UNCHANGED <<waits, lease, root, tree, sessions, closes, cleanups, disposal>>

\* The catch of start: without a client the lease is released at once, else
\* when dispose has verified the tree.
StartFails(s) ==
  /\ \/ pc[s] \in {"mark", "launch"} /\ Goto(s, "release")
     \/ pc[s] \in {"state", "check"} /\ Goto(s, "dispose")
  /\ UNCHANGED <<waits, lease, root, tree, sessions, closes, cleanups, disposal>>

Mark(s) ==
  /\ At(s, "mark") /\ ~disposed
  /\ Goto(s, "launch")
  /\ UNCHANGED <<waits, lease, root, tree, sessions, closes, cleanups, disposal>>

\* The client is made and started; a process that cannot be started is none.
Launch(s) ==
  /\ At(s, "launch") /\ ~disposed
  /\ Goto(s, "state")
  /\ \/ root' = [root EXCEPT ![s] = "live"] /\ tree' = tree \cup {s}
     \/ UNCHANGED <<root, tree>>
  /\ UNCHANGED <<waits, lease, sessions, closes, cleanups, disposal>>

\* get_state was answered; the history file is compared with the leased one.
StateAnswered(s) ==
  /\ At(s, "state") /\ ~disposed /\ root[s] # "none"
  /\ Goto(s, "check")
  /\ UNCHANGED <<waits, lease, root, tree, sessions, closes, cleanups, disposal>>

\* Bug: Pi is not looked at again after get_state.
RegisterUnchecked(s) ==
  /\ At(s, "check") /\ ~disposed
  /\ sessions' = sessions \cup {s}
  /\ Goto(s, "up")
  /\ UNCHANGED <<waits, lease, root, tree, closes, cleanups, disposal>>

\* Registered, unless Pi is gone or the supervisor was disposed meanwhile.
Register(s) ==
  /\ At(s, "check") /\ ~disposed
  /\ root[s] = "live"
  /\ \A t \in sessions : FileOf[t] # FileOf[s]
  /\ sessions' = sessions \cup {s}
  /\ Goto(s, "up")
  /\ UNCHANGED <<waits, lease, root, tree, closes, cleanups, disposal>>

-----------------------------------------------------------------------------
(* What the client and the lease do for all of them.                       *)

\* client.dispose comes back: the tree is gone and the root has closed.
TreeDisposed(s) ==
  /\ root' = [root EXCEPT ![s] = IF @ = "live" THEN "closed" ELSE @]
  /\ tree' = tree \ {s}

\* client.dispose is rejected: the tree may run on, its root or its tools.
TreeUnverified(s) ==
  /\ root[s] # "none"
  /\ root' \in {root, [root EXCEPT ![s] = "closed"]}
  /\ UNCHANGED tree

\* lease.release: on success the file is free.
Free(s) == lease' = [lease EXCEPT ![FileOf[s]] = IF @ = s THEN None ELSE @]

\* Bug: the lease is released whether the tree was verified or not.
StartDisposesAnyway(s) ==
  /\ At(s, "dispose")
  /\ TreeDisposed(s) \/ TreeUnverified(s)
  /\ Goto(s, "release")
  /\ UNCHANGED <<waits, lease, sessions, closes, cleanups, disposal>>

StartDisposes(s) ==
  /\ At(s, "dispose")
  /\ \/ TreeDisposed(s) /\ Goto(s, "release")
     \/ TreeUnverified(s) /\ Goto(s, "kept")
  /\ UNCHANGED <<waits, lease, sessions, closes, cleanups, disposal>>

StartReleases(s) ==
  /\ At(s, "release")
  /\ \/ Free(s) /\ Goto(s, "failed")
     \/ UNCHANGED lease /\ Goto(s, "kept")
  /\ UNCHANGED <<waits, root, tree, sessions, closes, cleanups, disposal>>

-----------------------------------------------------------------------------
(* The exit of Pi, and what is left of its tree.                           *)

\* The exit of the client is emitted.  The handler acts for a session that is
\* still the current one.
Exit(s) ==
  /\ root[s] = "live"
  /\ root' = [root EXCEPT ![s] = "closed"]
  /\ IF s \in sessions
       THEN /\ sessions' = sessions \ {s}
            /\ exits' = [exits EXCEPT ![FileOf[s]] = s]
            /\ cleanup' = [cleanup EXCEPT ![s] = "dispose"]
       ELSE UNCHANGED <<sessions, cleanups>>
  /\ UNCHANGED <<starting, lease, tree, closes, disposal>>

TreeEnds(s) ==
  /\ s \in tree /\ root[s] = "closed"
  /\ tree' = tree \ {s}
  /\ UNCHANGED <<starting, lease, root, sessions, closes, cleanups, disposal>>

CleanupDisposes(s) ==
  /\ cleanup[s] = "dispose"
  /\ \/ TreeDisposed(s) /\ cleanup' = [cleanup EXCEPT ![s] = "release"]
     \/ TreeUnverified(s) /\ cleanup' = [cleanup EXCEPT ![s] = "failed"]
  /\ UNCHANGED <<starting, lease, sessions, closes, exits, disposal>>

\* A cleanup that failed is kept, and with it its file.
CleanupReleases(s) ==
  /\ cleanup[s] = "release"
  /\ \/ /\ Free(s)
        /\ cleanup' = [cleanup EXCEPT ![s] = "done"]
        /\ exits' = [exits EXCEPT ![FileOf[s]] = IF @ = s THEN None ELSE @]
     \/ /\ cleanup' = [cleanup EXCEPT ![s] = "failed"]
        /\ UNCHANGED <<lease, exits>>
  /\ UNCHANGED <<starting, root, tree, sessions, closes, disposal>>

-----------------------------------------------------------------------------
(* closeSession.                                                           *)

\* The runtimes of S are closed: the ones whose close is under way already have
\* their flight.
CloseAll(S) ==
  /\ sessions' = sessions \ S
  /\ closing' = closing \cup S
  /\ flight' = [s \in Starts |-> IF s \in S /\ flight[s] = "none" THEN "settle" ELSE flight[s]]

Close(s) ==
  /\ s \in sessions \cup closing /\ flight[s] = "none"
  /\ CloseAll({s})
  /\ UNCHANGED <<starting, lease, root, tree, cleanups, disposal>>

\* settlePiSessionBeforeClose came back, or failed.
CloseSettled(s) ==
  /\ flight[s] = "settle"
  /\ flight' = [flight EXCEPT ![s] = "dispose"]
  /\ UNCHANGED <<starting, lease, root, tree, sessions, closing, cleanups, disposal>>

\* The flight ends; the dispose that awaits it learns whether it was rejected.
FlightEnds(s, fails) ==
  /\ flight' = [flight EXCEPT ![s] = "none"]
  /\ rejected' = (rejected \/ (fails /\ s \in awaited))
  /\ awaited' = awaited \ {s}
  /\ UNCHANGED disposing

CloseDisposes(s) ==
  /\ flight[s] = "dispose"
  /\ \/ TreeDisposed(s) /\ flight' = [flight EXCEPT ![s] = "release"] /\ UNCHANGED disposal
     \/ TreeUnverified(s) /\ FlightEnds(s, TRUE)
  /\ UNCHANGED <<starting, lease, sessions, closing, cleanups>>

\* Closed; rejected all the same when settling had failed.
CloseReleases(s) ==
  /\ flight[s] = "release"
  /\ \/ /\ Free(s) /\ closing' = closing \ {s}
        /\ \E fails \in BOOLEAN : FlightEnds(s, fails)
     \/ FlightEnds(s, TRUE) /\ UNCHANGED <<lease, closing>>
  /\ UNCHANGED <<starting, root, tree, sessions, cleanups>>

-----------------------------------------------------------------------------
(* dispose.                                                                *)

Dispose ==
  /\ ~disposed
  /\ disposing' = "starts"
  /\ UNCHANGED <<starting, lease, root, tree, sessions, closes, cleanups, awaited, rejected>>

\* Bug: the starts under way are not awaited.
DisposeClosesAtOnce ==
  /\ disposing = "starts"
  /\ disposing' = "closes"
  /\ awaited' = sessions \cup closing
  /\ CloseAll(sessions \cup closing)
  /\ UNCHANGED <<starting, lease, root, tree, cleanups, rejected>>

\* The starts have come to an end, well or not: what is there is closed.
DisposeCloses ==
  /\ disposing = "starts"
  /\ \A s \in Starts : pc[s] \notin PendingStart
  /\ disposing' = "closes"
  /\ awaited' = sessions \cup closing
  /\ CloseAll(sessions \cup closing)
  /\ UNCHANGED <<starting, lease, root, tree, cleanups, rejected>>

DisposeAwaitsExits ==
  /\ disposing = "closes"
  /\ awaited = {}
  /\ disposing' = "exits"
  /\ UNCHANGED <<starting, lease, root, tree, sessions, closes, cleanups, awaited, rejected>>

Disposed ==
  /\ disposing = "exits"
  /\ \A s \in Starts : cleanup[s] \notin Ending
  /\ disposing' = IF rejected \/ \E s \in Starts : cleanup[s] = "failed"
                    THEN "failed" ELSE "done"
  /\ UNCHANGED <<starting, lease, root, tree, sessions, closes, cleanups, awaited, rejected>>

StartStep(s) ==
  \/ FindCleanup(s) \/ AwaitCleanup(s) \/ Refused(s) \/ Acquire(s) \/ Mark(s) \/ Launch(s)
  \/ StateAnswered(s) \/ Register(s) \/ StartFails(s) \/ StartDisposes(s) \/ StartReleases(s)
CloseStep(s) == CloseSettled(s) \/ CloseDisposes(s) \/ CloseReleases(s)
CleanupStep(s) == CleanupDisposes(s) \/ CleanupReleases(s)
DisposeStep == DisposeCloses \/ DisposeAwaitsExits \/ Disposed

Next ==
  \/ \E s \in Starts : Call(s) \/ StartStep(s) \/ Exit(s) \/ TreeEnds(s) \/ CleanupStep(s)
                       \/ Close(s) \/ CloseStep(s)
  \/ Dispose \/ DisposeStep

Spec == Init /\ [][Next]_vars

\* A start, a close and a cleanup await requests with a deadline, file
\* operations and dispose of the client, all of which come back.
Fairness ==
  /\ \A s \in Starts : WF_vars(StartStep(s)) /\ WF_vars(CloseStep(s)) /\ WF_vars(CleanupStep(s))
  /\ WF_vars(DisposeStep)

FairSpec == Spec /\ Fairness

-----------------------------------------------------------------------------
(* What the supervisor promises of its runtimes.                           *)

\* A session in the table has a living Pi and the lease of its file: the exit
\* of Pi is heard though it comes between get_state and the registration.
SessionsLive ==
  \A s \in sessions : root[s] = "live" /\ lease[FileOf[s]] = s

\* A lease is held for a start, a session, a close or a cleanup that is to give
\* it back, or kept because a cleanup could not verify its tree: no path of
\* start, exit and closeSession drops one.
LeaseAccounted ==
  \A s \in Starts : lease[FileOf[s]] = s =>
    \/ pc[s] \in PendingStart \cup {"kept"}
    \/ s \in sessions \cup closing
    \/ cleanup[s] \in Ending \cup {"failed"}

\* "none can register after disposal returns" (pi-session-supervisor.ts,
\* dispose): every start has come to an end, and no session is left.
DisposedForGood ==
  disposing \in {"done", "failed"} => sessions = {} /\ \A s \in Starts : pc[s] \notin PendingStart

\* A dispose that resolves leaves no process of Pi behind, but those of a start
\* that failed and could not verify its own tree.
DisposedClean ==
  disposing = "done" => closing = {} /\ \A s \in tree : pc[s] = "kept"

\* Both: what dispose found, and what came while it waited, is gone when it returns.
DisposedProperly == DisposedForGood /\ DisposedClean

Running(f) == {s \in tree : FileOf[s] = f}
Owned(f) == INSTANCE OwnedSession WITH
  Leases <- Starts, owner <- lease[f], writers <- Running(f)

\* start, closeSession and the exit handler keep to what a lease is for: Pi runs
\* on a file only while its runtime holds the lease, which is released when
\* nothing of Pi runs any more.
LeaseDiscipline ==
  /\ \A f \in Files : Owned(f)!Init
  /\ [][\A f \in Files : [Owned(f)!Next]_<<lease[f], Running(f)>>]_vars

\* createSession and resumeSession come to an end, though a resume waits for the
\* cleanup of an exit, and so does dispose, though it waits for the starts, the
\* closes and the cleanups that are under way.
CallsEnd ==
  /\ \A s \in Starts : (pc[s] \in PendingStart) ~> (pc[s] \notin PendingStart)
  /\ disposed ~> disposing \in {"done", "failed"}

=============================================================================
