---------------------------- MODULE PiWorkspace ----------------------------
(***************************************************************************)
(* A workspace of the native service (pi-native-v4-service.ts): the calls  *)
(* that load, create, branch, import and delete sessions, beside           *)
(* disposeWorkspace, which fences, closes and drains them, and the staged  *)
(* images, which it releases.  The supervisor is taken by its promise: a   *)
(* start gives a live runtime or leaves none, a close ends it or keeps it  *)
(* for another try.  Continuations of a promise that has settled run       *)
(* before anything else does, as JavaScript runs microtasks.               *)
(***************************************************************************)
EXTENDS Naturals, PiImageUploads

CONSTANTS
  Calls,         \* calls of the renderer
  KindOf,        \* call -> "load", "create", "branch", "import", "delete"
  SessionOf,     \* call -> the session that it loads, makes or deletes
  SourceOf,      \* branch -> the session that it branches
  Stored,        \* sessions that a scan of the workspace finds
  UploadSession, \* the session whose images are staged
  MaxReleases    \* bound: releases of the workspace

Sessions == {SessionOf[c] : c \in Calls} \cup Stored
Commands == {c \in Calls : KindOf[c] \in {"create", "branch", "delete"}}

ASSUME WorkspaceAssumption ==
  /\ KindOf \in [Calls -> {"load", "create", "branch", "import", "delete"}]
  /\ \A c \in Calls : KindOf[c] = "branch" => SourceOf[c] \in Stored
  \* Pi gives the child of a branch a new id: no other call is about it.
  /\ \A c, d \in Calls : KindOf[c] = "branch" =>
       SessionOf[c] \notin Stored /\ (SessionOf[d] = SessionOf[c] => d = c)
  /\ UploadSession \in Sessions
  /\ None \notin Calls
  /\ MaxReleases \in Nat

VARIABLES
  pc,          \* call -> where it awaits
  closed,      \* call -> what the close that it awaits has come to, or "no"
  records,     \* sessions: those with a record in the service
  runtime,     \* session -> "none", "alive", "closing", "stuck" in the supervisor
  bookmarks,   \* sessions that are indexed
  scan,        \* "none", "running", "done": workspaceLoads of the workspace
  loader,      \* sessionLoads: session -> the call whose load is shared, or None
  closure,     \* where disposeWorkspace is, or "open"
  ending,      \* session -> its close by the release: "no", "waiting", "ended"
  drained,     \* what the release waits for: commands, and sessions being loaded
  generation,  \* how many releases have returned: workspaceGenerations
  born,        \* ghost: call -> the generation in which it was called
  starter,     \* ghost: session -> the call that started its runtime or record last
  orphans      \* ghost: children of a branch that failed after it had started them

vars == <<pc, closed, records, runtime, bookmarks, scan, loader, closure, ending,
          drained, generation, born, starter, orphans, uploadVars>>
releaseVars == <<closure, ending, drained, generation>>
callVars == <<pc, closed, bookmarks, scan, loader, born, starter, orphans>>

Microtask(c) == pc[c] \in {"scanned", "loaded"} \/ closed[c] # "no"
Quiet == \A c \in Calls : ~Microtask(c)
Fenced == closure # "open"

TypeOK ==
  /\ UploadTypeOK
  /\ pc \in [Calls -> {"idle", "ledger", "scanning", "scanned", "joined", "loaded", "source",
                        "starting", "branching", "replacing", "childStart", "childHistory",
                        "childFacts", "deleting", "resuming", "history", "facts", "unwinding",
                        "done"}]
  /\ closed \in [Calls -> {"no", "ok", "bad"}]
  /\ records \subseteq Sessions
  /\ runtime \in [Sessions -> {"none", "alive", "closing", "stuck"}]
  /\ bookmarks \subseteq Sessions
  /\ scan \in {"none", "running", "done"}
  /\ loader \in [Sessions -> Calls \cup {None}]
  /\ closure \in {"open", "fenced", "closing", "draining", "closingLate", "uploads"}
  /\ ending \in [Sessions -> {"no", "waiting", "ended"}]
  /\ drained \in [commands : SUBSET Calls, loads : SUBSET Sessions]
  /\ generation \in 0..MaxReleases
  /\ born \in [Calls -> 0..MaxReleases]
  /\ starter \in [Sessions -> Calls \cup {None}]
  /\ orphans \subseteq Sessions

Init ==
  /\ UploadInit
  /\ pc = [c \in Calls |-> "idle"]
  /\ closed = [c \in Calls |-> "no"]
  /\ records = {} /\ bookmarks = {} /\ orphans = {}
  /\ runtime = [s \in Sessions |-> "none"]
  /\ scan = "none"
  /\ loader = [s \in Sessions |-> None]
  /\ closure = "open"
  /\ ending = [s \in Sessions |-> "no"]
  /\ drained = [commands |-> {}, loads |-> {}]
  /\ generation = 0
  /\ born = [c \in Calls |-> 0]
  /\ starter = [s \in Sessions |-> None]

\* The session that a call loads, or creates.
Target(c) == IF KindOf[c] = "branch" THEN SourceOf[c] ELSE SessionOf[c]

-----------------------------------------------------------------------------
(* The supervisor.                                                         *)

Closable == {"alive", "stuck"}

\* closeSession of the sessions S: one flight each, shared by those who ask.
RuntimeClosing(S) ==
  runtime' = [s \in Sessions |-> IF s \in S /\ runtime[s] \in Closable THEN "closing" ELSE runtime[s]]

\* A call that awaits the close of its target.
AwaitsClose(c) == pc[c] \in {"unwinding", "replacing", "deleting"}

\* A call asks for the close of session s and goes to where; nothing to close
\* answers at once.
CallCloses(c, s, where) ==
  /\ pc' = [pc EXCEPT ![c] = where]
  /\ closed' = IF runtime[s] = "none" THEN [closed EXCEPT ![c] = "ok"] ELSE closed
  /\ RuntimeClosing({s})

\* A close ends.  One that failed keeps the runtime, or has ended it and reports
\* that Pi did not settle before.
CloseEnds(s) ==
  /\ runtime[s] = "closing"
  /\ \E result \in {"ok", "bad"}, after \in {"none", "stuck"} :
       /\ after = "stuck" => result = "bad"
       /\ runtime' = [runtime EXCEPT ![s] = after]
       /\ closed' = [c \in Calls |-> IF AwaitsClose(c) /\ Target(c) = s
                                     THEN result ELSE closed[c]]
       /\ ending' = IF ending[s] = "waiting" THEN [ending EXCEPT ![s] = "ended"] ELSE ending
  /\ UNCHANGED <<pc, records, bookmarks, scan, loader, closure, drained,
                 generation, born, starter, orphans, uploadVars>>

\* Pi exits by itself: its record stays, with the phase "exited".
PiExits(s) ==
  /\ runtime[s] = "alive"
  /\ runtime' = [runtime EXCEPT ![s] = "none"]
  /\ UNCHANGED <<callVars, releaseVars, records, uploadVars>>

-----------------------------------------------------------------------------
(* Calls: loading.                                                         *)

\* loadWorkspace up to its await: refused behind the fence, shared if it runs,
\* memoized once it is done.
LoadWorkspace(c) ==
  IF Fenced THEN pc' = [pc EXCEPT ![c] = "done"] /\ UNCHANGED scan
  ELSE /\ pc' = [pc EXCEPT ![c] = IF scan = "done" THEN "scanned" ELSE "scanning"]
       /\ scan' = IF scan = "done" THEN "done" ELSE "running"

\* A call enters the service: refused behind the fence.  A command first reserves
\* its receipt.
Begin(c) ==
  /\ pc[c] = "idle"
  /\ born' = [born EXCEPT ![c] = generation]
  /\ IF c \in Commands
     THEN pc' = [pc EXCEPT ![c] = IF Fenced THEN "done" ELSE "ledger"] /\ UNCHANGED scan
     ELSE LoadWorkspace(c)
  /\ UNCHANGED <<closed, records, runtime, bookmarks, loader, starter, orphans,
                 releaseVars, uploadVars>>

\* Bug: a command behind the fence waits for it to fall.
LaneWhenOpen(c) == ~Fenced

\* Deletes and branches of a session run one after the other, in the lane that
\* PiCommandAdmission models.
LaneFree(c) ==
  \A x \in Commands : KindOf[x] # "create" /\ Target(x) = Target(c) => pc[x] \in {"idle", "ledger", "done"}

\* dispatch: it looks at the fence again.
Dispatch(c) ==
  /\ pc[c] = "ledger"
  /\ LaneFree(c)
  /\ \/ pc' = [pc EXCEPT ![c] = "done"] /\ UNCHANGED scan
     \/ /\ KindOf[c] = "create" /\ ~Fenced
        /\ pc' = [pc EXCEPT ![c] = "starting"] /\ UNCHANGED scan
     \/ KindOf[c] # "create" /\ LoadWorkspace(c)
  /\ UNCHANGED <<closed, records, runtime, bookmarks, loader, born, starter, orphans,
                 releaseVars, uploadVars>>

\* The scan ends: behind the fence it is rejected, and so are those who wait for it.
ScanEnds ==
  /\ scan = "running"
  /\ \E ok \in BOOLEAN :
       /\ ok => ~Fenced
       /\ scan' = IF ok THEN "done" ELSE "none"
       /\ bookmarks' = IF ok THEN bookmarks \cup Stored ELSE bookmarks
       /\ pc' = [c \in Calls |-> IF pc[c] # "scanning" THEN pc[c]
                                 ELSE IF ok THEN "scanned" ELSE "done"]
  /\ UNCHANGED <<closed, records, runtime, loader, born, starter, orphans, releaseVars, uploadVars>>

\* A record of a runtime that is alive, and not that of an earlier one whose
\* successor is still being loaded.
Current(s) ==
  /\ s \in records
  /\ runtime[s] = "alive"
  /\ loader[s] # None => pc[loader[s]] \notin {"resuming", "history"}

\* loadSession after loadWorkspace: there is a record; the session is unknown; it
\* is being loaded; or this call loads it.  An import reads its source first.
AfterScan(c) ==
  /\ pc[c] = "scanned"
  /\ LET s == Target(c)
         importing == KindOf[c] = "import" /\ s \notin bookmarks
         loads == ~importing /\ ~Current(s) /\ s \in bookmarks /\ loader[s] = None
     IN /\ pc' = [pc EXCEPT ![c] =
                    IF importing THEN "source"
                    ELSE IF Current(s) THEN "loaded"
                    ELSE IF s \notin bookmarks THEN "done"
                    ELSE IF loads THEN "resuming" ELSE "joined"]
        /\ loader' = IF loads THEN [loader EXCEPT ![s] = c] ELSE loader
  /\ UNCHANGED <<closed, records, runtime, bookmarks, scan, born, starter, orphans,
                 releaseVars, uploadVars>>

\* An import has copied its source, or failed: the copy is indexed and loaded.
SourceRead(c) ==
  /\ pc[c] = "source"
  /\ \/ /\ bookmarks' = bookmarks \cup {SessionOf[c]}
        /\ LoadWorkspace(c)
     \/ /\ pc' = [pc EXCEPT ![c] = "done"]
        /\ UNCHANGED <<bookmarks, scan>>
  /\ UNCHANGED <<closed, records, runtime, loader, born, starter, orphans, releaseVars, uploadVars>>

\* A load or a creation has ended for the call c and those who joined it.
Finished(c, ok) ==
  LET s == Target(c)
      next == IF ok THEN "loaded" ELSE "done"
  IN IF KindOf[c] = "create"
     THEN pc' = [pc EXCEPT ![c] = "done"] /\ UNCHANGED loader
     ELSE /\ pc' = [x \in Calls |-> IF x = c \/ (pc[x] = "joined" /\ Target(x) = s)
                                    THEN next ELSE pc[x]]
          /\ loader' = [loader EXCEPT ![s] = None]

\* The start ends.  A creation looks at the fence at once, and closes what it has
\* started behind it; a load looks after it has read the history.
Started(c) ==
  /\ pc[c] \in {"starting", "resuming"}
  /\ LET s == Target(c)
     IN \/ /\ runtime[s] = "none"
           /\ starter' = [starter EXCEPT ![s] = c]
           /\ IF pc[c] = "starting" /\ Fenced
              THEN /\ pc' = [pc EXCEPT ![c] = "unwinding"]
                   /\ runtime' = [runtime EXCEPT ![s] = "closing"]
              ELSE /\ pc' = [pc EXCEPT ![c] = "history"]
                   /\ runtime' = [runtime EXCEPT ![s] = "alive"]
           /\ UNCHANGED loader
        \/ /\ Finished(c, FALSE)
           /\ UNCHANGED <<runtime, starter>>
  /\ UNCHANGED <<closed, records, bookmarks, scan, born, orphans, releaseVars, uploadVars>>

\* State and history are read, and the session gets its record; or a read fails,
\* or the workspace closes, and the runtime is closed again.
Register(c) ==
  /\ pc[c] = "history"
  /\ LET s == Target(c)
     IN \/ /\ runtime[s] = "alive" /\ ~Fenced
           /\ records' = records \cup {s}
           /\ starter' = [starter EXCEPT ![s] = c]
           /\ pc' = [pc EXCEPT ![c] = "facts"]
           /\ UNCHANGED <<runtime, closed>>
        \/ /\ CallCloses(c, s, "unwinding")
           /\ UNCHANGED <<records, starter>>
  /\ UNCHANGED <<bookmarks, scan, loader, born, orphans, releaseVars, uploadVars>>

\* refreshRuntimeFacts ends; a failure closes the runtime though it has a record.
FactsRead(c) ==
  /\ pc[c] = "facts"
  /\ \/ /\ runtime[Target(c)] = "alive"
        /\ Finished(c, TRUE)
        /\ UNCHANGED <<runtime, closed>>
     \/ /\ CallCloses(c, Target(c), "unwinding")
        /\ UNCHANGED loader
  /\ UNCHANGED <<records, bookmarks, scan, born, starter, orphans, releaseVars, uploadVars>>

\* The close of a start that went wrong has ended: a creation also drops its
\* record, unless the close was rejected.
Unwound(c) ==
  /\ pc[c] = "unwinding"
  /\ closed[c] # "no"
  /\ closed' = [closed EXCEPT ![c] = "no"]
  /\ Finished(c, FALSE)
  /\ records' = IF KindOf[c] = "create" /\ closed[c] = "ok" THEN records \ {SessionOf[c]} ELSE records
  /\ UNCHANGED <<runtime, bookmarks, scan, born, starter, orphans, releaseVars, uploadVars>>

-----------------------------------------------------------------------------
(* Calls: what is done with a loaded session.                              *)

\* The session may have lost its record since: then the call fails.  A delete
\* that the session allows closes it, a branch asks Pi.
Loaded(c) ==
  /\ pc[c] = "loaded"
  /\ \/ /\ KindOf[c] = "delete" /\ Target(c) \in records
        /\ CallCloses(c, Target(c), "deleting")
     \/ /\ KindOf[c] = "branch" /\ Target(c) \in records
        /\ pc' = [pc EXCEPT ![c] = "branching"]
        /\ UNCHANGED <<closed, runtime>>
     \/ /\ pc' = [pc EXCEPT ![c] = "done"]
        /\ UNCHANGED <<closed, runtime>>
  /\ UNCHANGED <<records, bookmarks, scan, loader, born, starter, orphans, releaseVars, uploadVars>>

Deleted(c) ==
  /\ pc[c] = "deleting"
  /\ closed[c] # "no"
  /\ closed' = [closed EXCEPT ![c] = "no"]
  /\ pc' = [pc EXCEPT ![c] = "done"]
  /\ records' = IF closed[c] = "ok" THEN records \ {SessionOf[c]} ELSE records
  /\ UNCHANGED <<runtime, bookmarks, scan, loader, born, starter, orphans, releaseVars, uploadVars>>

\* branchSession: Pi refuses or cancels; or it has made the child, and its process,
\* which now writes the child's file, is closed.
Branched(c) ==
  /\ pc[c] = "branching"
  /\ \/ /\ runtime[SourceOf[c]] = "alive"
        /\ CallCloses(c, SourceOf[c], "replacing")
     \/ /\ pc' = [pc EXCEPT ![c] = "done"]
        /\ UNCHANGED <<closed, runtime>>
  /\ UNCHANGED <<records, bookmarks, scan, loader, born, starter, orphans, releaseVars, uploadVars>>

Replaced(c) ==
  /\ pc[c] = "replacing"
  /\ closed[c] # "no"
  /\ closed' = [closed EXCEPT ![c] = "no"]
  /\ pc' = [pc EXCEPT ![c] = IF closed[c] = "ok" THEN "childStart" ELSE "done"]
  /\ UNCHANGED <<records, runtime, bookmarks, scan, loader, born, starter, orphans,
                 releaseVars, uploadVars>>

\* The child is resumed, read, and gets its record without a look at the fence:
\* the release waits for the command.  A read that fails leaves the child running
\* without a record.
ChildStarted(c) ==
  /\ pc[c] = "childStart"
  /\ LET s == SessionOf[c]
     IN \/ /\ runtime[s] = "none"
           /\ runtime' = [runtime EXCEPT ![s] = "alive"]
           /\ starter' = [starter EXCEPT ![s] = c]
           /\ pc' = [pc EXCEPT ![c] = "childHistory"]
        \/ /\ pc' = [pc EXCEPT ![c] = "done"]
           /\ UNCHANGED <<runtime, starter>>
  /\ UNCHANGED <<closed, records, bookmarks, scan, loader, born, orphans, releaseVars, uploadVars>>

ChildRead(c) ==
  /\ pc[c] = "childHistory"
  /\ LET s == SessionOf[c]
     IN \/ /\ runtime[s] = "alive"
           /\ records' = records \cup {s}
           /\ pc' = [pc EXCEPT ![c] = "childFacts"]
           /\ UNCHANGED orphans
        \/ /\ orphans' = orphans \cup {s}
           /\ pc' = [pc EXCEPT ![c] = "done"]
           /\ UNCHANGED records
  /\ UNCHANGED <<closed, runtime, bookmarks, scan, loader, born, starter, releaseVars, uploadVars>>

ChildSaved(c) ==
  /\ pc[c] = "childFacts"
  /\ pc' = [pc EXCEPT ![c] = "done"]
  /\ UNCHANGED <<closed, records, runtime, bookmarks, scan, loader, born, starter, orphans,
                 releaseVars, uploadVars>>

-----------------------------------------------------------------------------
(* disposeWorkspace.  A second call shares the closure that is under way.  *)

DisposeWorkspace ==
  /\ closure = "open"
  /\ generation < MaxReleases
  /\ closure' = "fenced"
  /\ UNCHANGED <<ending, drained, generation, callVars, records, runtime, uploadVars>>

\* closeOwned: every session with a record is closed.
CloseOwned(from, to) ==
  /\ closure = from
  /\ closure' = to
  /\ ending' = [s \in Sessions |-> IF s \notin records THEN "no"
                                  ELSE IF runtime[s] = "none" THEN "ended" ELSE "waiting"]
  /\ RuntimeClosing(records)
  /\ UNCHANGED <<generation, callVars, records, uploadVars>>

ReleaseStarts == CloseOwned("fenced", "closing") /\ UNCHANGED drained

\* Its record goes, whether the close succeeded or not.
RecordClosed(s) ==
  /\ ending[s] = "ended"
  /\ ending' = [ending EXCEPT ![s] = "no"]
  /\ records' = records \ {s}
  /\ UNCHANGED <<closure, drained, generation, callVars, runtime, uploadVars>>

OwnedClosed == \A s \in Sessions : ending[s] = "no"

\* What runs at this moment is waited for: commands, and loads by others.
DrainStarts ==
  /\ closure = "closing" /\ OwnedClosed
  /\ closure' = "draining"
  /\ drained' = [commands |-> {c \in Commands : pc[c] \notin {"idle", "done"}},
                 loads |-> {s \in bookmarks : loader[s] # None}]
  /\ UNCHANGED <<ending, generation, callVars, records, runtime, uploadVars>>

\* Bug: commands that are under way are not waited for.
DrainLoads ==
  /\ scan # "running"
  /\ \A s \in drained.loads : loader[s] = None

Drained ==
  /\ scan # "running"
  /\ \A c \in drained.commands : pc[c] = "done"
  /\ \A s \in drained.loads : loader[s] = None

CloseLate == Drained /\ CloseOwned("draining", "closingLate")
             /\ drained' = [commands |-> {}, loads |-> {}]

ReleaseUploads ==
  /\ closure = "closingLate" /\ OwnedClosed
  /\ closure' = "uploads"
  /\ UploadReleaseBegin
  /\ UNCHANGED <<ending, drained, generation, callVars, records, runtime>>

\* The index is forgotten, the generation advances, and the fence falls.
ReleaseEnds ==
  /\ closure = "uploads" /\ releasing = {}
  /\ closure' = "open"
  /\ generation' = generation + 1
  /\ bookmarks' = {} /\ scan' = "none"
  /\ UNCHANGED <<pc, closed, loader, born, starter, orphans, ending, drained, records, runtime,
                 uploadVars>>

ReleaseStep ==
  \/ ReleaseStarts \/ DrainStarts \/ CloseLate \/ ReleaseUploads \/ ReleaseEnds
  \/ \E s \in Sessions : RecordClosed(s)

-----------------------------------------------------------------------------
(* Images of a session: each call looks at the fence and at the record.    *)

UploadCall ==
  /\ ~Fenced /\ UploadSession \in records
  /\ \E e \in Entries :
       UploadBegin(e) \/ UploadChunk(e) \/ UploadCommit(e) \/ UploadAbort(e)
  /\ UNCHANGED <<callVars, releaseVars, records, runtime>>

UploadStep == CommitStep /\ UNCHANGED <<callVars, releaseVars, records, runtime>>

Continue(c) == AfterScan(c) \/ Loaded(c) \/ Unwound(c) \/ Deleted(c) \/ Replaced(c)

Await(c) ==
  \/ Dispatch(c) \/ SourceRead(c) \/ Started(c) \/ Register(c) \/ FactsRead(c)
  \/ Branched(c) \/ ChildStarted(c) \/ ChildRead(c) \/ ChildSaved(c)

Request == (\E c \in Calls : Begin(c)) \/ DisposeWorkspace \/ UploadCall

\* What goes on by itself: what is under way, in any order.
Progress ==
  \/ \E c \in Calls : Continue(c)
  \/ /\ Quiet
     /\ \/ \E c \in Calls : Await(c)
        \/ \E s \in Sessions : CloseEnds(s)
        \/ ScanEnds \/ ReleaseStep \/ UploadStep

Next ==
  \/ Progress
  \/ Quiet /\ (Request \/ \E s \in Sessions : PiExits(s))

\* Every await is of a request with a deadline, a file operation, a close, whose
\* end PiSupervisorLifecycle shows (CallsEnd), or of one of these: something goes
\* on as long as anything is under way.  No call is owed.
Fairness == WF_vars(Progress)

Spec == Init /\ [][Next]_vars /\ Fairness

-----------------------------------------------------------------------------
(* What a release promises.                                                *)

\* "cannot publish a late runtime after release has returned" (releaseWorkspace):
\* what runs or has a record belongs to a call made since the last release.
LateRuntimeFenced ==
  closure = "open" =>
    \A s \in Sessions : s \in records \/ runtime[s] = "alive" => born[starter[s]] = generation

\* The same of all that the release fences or waits for.  An import is neither,
\* and a branch whose child could not be read leaves it without an owner.
ReleaseIsFinal ==
  closure = "open" =>
    \A s \in Sessions : s \in records \/ runtime[s] = "alive" =>
      \/ born[starter[s]] = generation
      \/ KindOf[starter[s]] = "import"
      \/ s \in orphans

\* A release comes to an end, whatever it waits for fails or comes late.
ReleaseReturns == Fenced ~> ~Fenced

=============================================================================
