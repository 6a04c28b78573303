--------------------------- MODULE PiSessionLease ---------------------------
(***************************************************************************)
(* The advisory lease on one Pi session file (pi-session-lease.ts): an     *)
(* owner-bearing lock file, a "runtime-uncertain" marker file published    *)
(* before Pi is spawned, and a chain of immutable recovery claims left by  *)
(* those who try to take over a dead owner's lock.                         *)
(*                                                                         *)
(* A lease is one call of PiSessionLease.acquire; its random token is the  *)
(* lease itself, its process is HostOf[lease].  Every await of the code on *)
(* a file is one step, so the steps of several processes interleave as     *)
(* their file operations do.  Legacy lock, marker and claim files without  *)
(* an owner, a recycled process id and any I/O error make the call throw:  *)
(* they are the action Throw.                                              *)
(*                                                                         *)
(* An operator introduced by a comment that begins with "Bug:" is not part *)
(* of the specification: it is what a plausible mistake would make of the  *)
(* operator after it, and shows that the properties notice.                *)
(***************************************************************************)
EXTENDS Naturals

CONSTANTS Leases,   \* the acquisitions attempted on the session file
          Hosts,    \* the product Host processes
          HostOf,   \* the process an acquisition runs in
          None      \* no file: ENOENT

ASSUME LeaseAssumption ==
  /\ HostOf \in [Leases -> Hosts]
  /\ None \notin Leases

VARIABLES
  lock,     \* owner in <session>.pi-agent-ide.lock
  marker,   \* owner in <session>.pi-agent-ide.lock.runtime-uncertain
  claims,   \* claims[x][p]: owner of the recovery claim of generation <<x, p>>
  alive,    \* processes that are running
  pc,       \* where an acquisition, or the release of its lease, stands
  seen,     \* `locked': the owner an acquisition read from the lock file
  prev,     \* the dead claimant that names its current `generation'
  mark,     \* where markRuntimeUncertain stands
  tree      \* leases whose Pi process tree (Pi and its tools) is running

vars == <<lock, marker, claims, alive, pc, seen, prev, mark, tree>>
files == <<lock, marker, claims>>

Owners == Leases \cup {None}

Acquiring == {"check", "create", "confirm", "exists", "read", "judge",
              "claim", "recheck", "verify", "unlink", "recreate"}
Releasing == {"waitMark", "readLock", "readMarkerOwned", "readMarkerLost",
              "unlinkMarker", "unlinkLock"}
Holding   == {"held", "retry"} \cup Releasing
Pending   == {"owner", "look", "publish", "confirm"}

Alive(a) == HostOf[a] \in alive
Holds(a) == Alive(a) /\ pc[a] \in Holding

\* The files name acquisitions, or nobody; acquire, markRuntimeUncertain and
\* release are at one of their awaits.
TypeOK ==
  /\ lock \in Owners
  /\ marker \in Owners
  /\ claims \in [Leases -> [Owners -> Owners]]
  /\ alive \subseteq Hosts
  /\ pc \in [Leases -> {"idle", "failed", "released"} \cup Acquiring \cup Holding]
  /\ seen \in [Leases -> Owners]
  /\ prev \in [Leases -> Owners]
  /\ mark \in [Leases -> {"idle", "done"} \cup Pending]
  /\ tree \subseteq Leases

Init ==
  /\ lock = None
  /\ marker = None
  /\ claims = [x \in Leases |-> [p \in Owners |-> None]]
  /\ alive = Hosts
  /\ pc = [a \in Leases |-> "idle"]
  /\ seen = [a \in Leases |-> None]
  /\ prev = [a \in Leases |-> None]
  /\ mark = [a \in Leases |-> "idle"]
  /\ tree = {}

-----------------------------------------------------------------------------
(* acquire.  A step of lease a continues at `next' if the code's condition *)
(* holds and throws out of acquire if it does not.                         *)

At(a, l) == pc[a] = l /\ Alive(a)
Goto(a, l) == pc' = [pc EXCEPT ![a] = l]
Require(a, condition, next) == Goto(a, IF condition THEN next ELSE "failed")

\* Bug: the marker of a dead Host is taken for a leftover.
RefuseLiveQuarantine(a, from, next) ==
  /\ At(a, from)
  /\ Require(a, marker = None \/ ~Alive(marker), next)
  /\ UNCHANGED <<files, alive, seen, prev, mark, tree>>

\* refuseQuarantined: any readable marker, even an orphan, refuses.
RefuseQuarantined(a, from, next) ==
  /\ At(a, from)
  /\ Require(a, marker = None, next)
  /\ UNCHANGED <<files, alive, seen, prev, mark, tree>>

Begin(a) ==
  /\ At(a, "idle")
  /\ Goto(a, "check")
  /\ UNCHANGED <<files, alive, seen, prev, mark, tree>>

Check(a)   == RefuseQuarantined(a, "check", "create")
Confirm(a) == RefuseQuarantined(a, "confirm", "held")
Exists(a)  == RefuseQuarantined(a, "exists", "read")
Recheck(a) == RefuseQuarantined(a, "recheck", "verify")

\* Bug: the lock is renamed into place and replaces another.
PublishOver(a, from, ifExists) ==
  /\ At(a, from)
  /\ lock' = a /\ Goto(a, "confirm")
  /\ UNCHANGED <<marker, claims, alive, seen, prev, mark, tree>>

\* publish(path, owner): link is an atomic create-if-absent.
Publish(a, from, ifExists) ==
  /\ At(a, from)
  /\ IF lock = None
       THEN lock' = a /\ Goto(a, "confirm")
       ELSE lock' = lock /\ Goto(a, ifExists)
  /\ UNCHANGED <<marker, claims, alive, seen, prev, mark, tree>>

Create(a)   == Publish(a, "create", "exists")
Recreate(a) == Publish(a, "recreate", "failed")

Read(a) ==
  /\ At(a, "read")
  /\ seen' = [seen EXCEPT ![a] = lock]
  /\ Require(a, lock # None, "judge")
  /\ UNCHANGED <<files, alive, prev, mark, tree>>

\* isAlive(locked.pid), and the start of the loop over generations.
Judge(a) ==
  /\ At(a, "judge")
  /\ Require(a, ~Alive(seen[a]), "claim")
  /\ prev' = [prev EXCEPT ![a] = None]
  /\ UNCHANGED <<files, alive, seen, mark, tree>>

\* Bug: the loop tries the same generation again.
ClaimAgain(a) ==
  LET claimant == claims[seen[a]][prev[a]]
  IN /\ At(a, "claim")
     /\ \/ /\ claimant = None
           /\ claims' = [claims EXCEPT ![seen[a]][prev[a]] = a]
           /\ Goto(a, "recheck")
        \/ /\ claimant # None
           /\ Require(a, ~Alive(claimant), "claim")
           /\ UNCHANGED claims
     /\ UNCHANGED <<lock, marker, alive, seen, prev, mark, tree>>

\* Bug: any claim refuses, that of a dead recoverer too.
ClaimUnlessClaimed(a) ==
  LET claimant == claims[seen[a]][prev[a]]
  IN /\ At(a, "claim")
     /\ Require(a, claimant = None, "recheck")
     /\ claims' = [claims EXCEPT ![seen[a]][prev[a]] = IF claimant = None THEN a ELSE @]
     /\ UNCHANGED <<lock, marker, alive, seen, prev, mark, tree>>

\* One round of the loop: publish the claim of this generation, or step to
\* the generation named after the dead claimant that already holds it.
Claim(a) ==
  LET x == seen[a]
      claimant == claims[x][prev[a]]
  IN /\ At(a, "claim")
     /\ \/ /\ claimant = None
           /\ claims' = [claims EXCEPT ![x][prev[a]] = a]
           /\ Goto(a, "recheck")
           /\ UNCHANGED prev
        \/ /\ claimant # None
           /\ Require(a, ~Alive(claimant), "claim")
           /\ prev' = [prev EXCEPT ![a] = claimant]
           /\ UNCHANGED claims
     /\ UNCHANGED <<lock, marker, alive, seen, mark, tree>>

\* Bug: a claim is taken for the right to unlink.
VerifyNothing(a) ==
  /\ At(a, "verify")
  /\ Goto(a, "unlink")
  /\ UNCHANGED <<files, alive, seen, prev, mark, tree>>

Verify(a) ==
  /\ At(a, "verify")
  /\ Require(a, lock = seen[a], "unlink")
  /\ UNCHANGED <<files, alive, seen, prev, mark, tree>>

\* unlink(path) looks at no owner: it removes whatever lock is there.
Unlink(a) ==
  /\ At(a, "unlink")
  /\ lock' = None
  /\ Require(a, lock # None, "recreate")
  /\ UNCHANGED <<marker, claims, alive, seen, prev, mark, tree>>

AcquireStep(a) ==
  \/ Check(a) \/ Create(a) \/ Confirm(a) \/ Exists(a) \/ Read(a) \/ Judge(a)
  \/ Claim(a) \/ Recheck(a) \/ Verify(a) \/ Unlink(a) \/ Recreate(a)

\* An ownerless or unreadable file, a recycled pid, a live legacy claimant, an
\* I/O error: acquire rejects and leaves behind what it has published.
Throw(a) ==
  /\ Alive(a) /\ pc[a] \in Acquiring
  /\ Goto(a, "failed")
  /\ UNCHANGED <<files, alive, seen, prev, mark, tree>>

-----------------------------------------------------------------------------
(* markRuntimeUncertain: awaited by the caller before it spawns Pi.        *)

MarkAt(a, l) == mark[a] = l /\ Alive(a)
MarkGoto(a, l) == mark' = [mark EXCEPT ![a] = l]

\* A rejected mark also rejects a release that awaits it.
MarkRejected(a) ==
  /\ MarkGoto(a, "idle")
  /\ Goto(a, IF pc[a] = "waitMark" THEN "retry" ELSE pc[a])

MarkSettles(a, ok, next) ==
  IF ok THEN MarkGoto(a, next) /\ UNCHANGED pc ELSE MarkRejected(a)

CallMark(a) ==
  /\ Alive(a) /\ pc[a] \in {"held", "retry"}
  /\ mark[a] \notin Pending
  /\ MarkGoto(a, "owner")
  /\ UNCHANGED <<files, alive, pc, seen, prev, tree>>

MarkOwner(a) ==
  /\ MarkAt(a, "owner")
  /\ MarkSettles(a, lock = a, "look")
  /\ UNCHANGED <<files, alive, seen, prev, tree>>

MarkLook(a) ==
  /\ MarkAt(a, "look")
  /\ MarkSettles(a, marker \in {None, a}, IF marker = a THEN "done" ELSE "publish")
  /\ UNCHANGED <<files, alive, seen, prev, tree>>

MarkPublish(a) ==
  /\ MarkAt(a, "publish")
  /\ marker' = IF marker = None THEN a ELSE marker
  /\ MarkGoto(a, "confirm")
  /\ UNCHANGED <<lock, claims, alive, pc, seen, prev, tree>>

\* Bug: any marker will do.
MarkConfirmAny(a) ==
  /\ MarkAt(a, "confirm")
  /\ MarkSettles(a, marker # None, "done")
  /\ UNCHANGED <<files, alive, seen, prev, tree>>

MarkConfirm(a) ==
  /\ MarkAt(a, "confirm")
  /\ MarkSettles(a, marker = a, "done")
  /\ UNCHANGED <<files, alive, seen, prev, tree>>

MarkStep(a) == MarkOwner(a) \/ MarkLook(a) \/ MarkPublish(a) \/ MarkConfirm(a)

\* An I/O error in any of its steps, including one after the link.
MarkThrows(a) ==
  /\ Alive(a) /\ mark[a] \in Pending
  /\ MarkRejected(a)
  /\ UNCHANGED <<files, alive, seen, prev, tree>>

-----------------------------------------------------------------------------
(* release, and its two unlinks.  The caller calls it only once its        *)
(* process tree is verified empty.                                         *)

CallRelease(a) ==
  /\ Alive(a) /\ pc[a] \in {"held", "retry"}
  /\ a \notin tree
  /\ Goto(a, "waitMark")
  /\ UNCHANGED <<files, alive, seen, prev, mark, tree>>

\* Bug: a mark under way is not awaited.
WaitNothing(a) ==
  /\ At(a, "waitMark")
  /\ Goto(a, "readLock")
  /\ UNCHANGED <<files, alive, seen, prev, mark, tree>>

WaitMark(a) ==
  /\ At(a, "waitMark")
  /\ mark[a] \notin Pending
  /\ Goto(a, "readLock")
  /\ UNCHANGED <<files, alive, seen, prev, mark, tree>>

ReadLock(a) ==
  /\ At(a, "readLock")
  /\ Goto(a, IF lock = a THEN "readMarkerOwned" ELSE "readMarkerLost")
  /\ UNCHANGED <<files, alive, seen, prev, mark, tree>>

\* A marker of another owner, or one's own without one's own lock, is never
\* touched: release throws and may be called again.
ReadMarker(a) ==
  /\ \/ /\ At(a, "readMarkerOwned")
        /\ Goto(a, CASE marker = None -> "unlinkLock"
                     [] marker = a -> "unlinkMarker"
                     [] OTHER -> "retry")
     \/ /\ At(a, "readMarkerLost")
        /\ Goto(a, IF marker = None THEN "released" ELSE "retry")
  /\ UNCHANGED <<files, alive, seen, prev, mark, tree>>

\* unlinkRuntimeMarker fails when the file is gone.
UnlinkMarker(a) ==
  /\ At(a, "unlinkMarker")
  /\ marker' = None
  /\ Goto(a, IF marker = None THEN "retry" ELSE "unlinkLock")
  /\ UNCHANGED <<lock, claims, alive, seen, prev, mark, tree>>

\* unlinkOwned does not: ENOENT is ignored.
UnlinkLock(a) ==
  /\ At(a, "unlinkLock")
  /\ lock' = None
  /\ Goto(a, "released")
  /\ UNCHANGED <<marker, claims, alive, seen, prev, mark, tree>>

ReleaseStep(a) ==
  WaitMark(a) \/ ReadLock(a) \/ ReadMarker(a) \/ UnlinkMarker(a) \/ UnlinkLock(a)

\* An I/O error; releasePending is cleared so that release can be retried.
ReleaseThrows(a) ==
  /\ Alive(a) /\ pc[a] \in Releasing \ {"waitMark"}
  /\ Goto(a, "retry")
  /\ UNCHANGED <<files, alive, seen, prev, mark, tree>>

-----------------------------------------------------------------------------
(* The caller, its process and the world outside.                          *)

\* A runtime is spawned once on a lease, after its mark was awaited.
SpawnTree(a) ==
  /\ At(a, "held")
  /\ mark[a] = "done"
  /\ a \notin tree
  /\ tree' = tree \cup {a}
  /\ UNCHANGED <<files, alive, pc, seen, prev, mark>>

\* The tree of a dead Host may live on, and may still end.
TreeEnds(a) ==
  /\ a \in tree
  /\ tree' = tree \ {a}
  /\ UNCHANGED <<files, alive, pc, seen, prev, mark>>

Crash(h) ==
  /\ h \in alive
  /\ alive' = alive \ {h}
  /\ UNCHANGED <<files, pc, seen, prev, mark, tree>>

\* "Verify the process tree and recover manually": the marker of a dead Host
\* is removed by a person, who has seen that no Pi process is left.
RecoverManually ==
  /\ marker # None /\ ~Alive(marker)
  /\ tree = {}
  /\ marker' = None
  /\ UNCHANGED <<lock, claims, alive, pc, seen, prev, mark, tree>>

\* An outsider deletes the lock file of a session.
LockFileLost ==
  /\ lock # None
  /\ lock' = None
  /\ UNCHANGED <<marker, claims, alive, pc, seen, prev, mark, tree>>

LeaseStep(a) ==
  \/ Begin(a) \/ AcquireStep(a) \/ Throw(a)
  \/ CallMark(a) \/ MarkStep(a) \/ MarkThrows(a)
  \/ CallRelease(a) \/ ReleaseStep(a) \/ ReleaseThrows(a)
  \/ SpawnTree(a) \/ TreeEnds(a)

Next ==
  \/ \E a \in Leases : LeaseStep(a)
  \/ \E h \in Hosts : Crash(h)
  \/ RecoverManually

Spec == Init /\ [][Next]_vars

\* A process that is not killed runs its continuations to the end: the file
\* operation a step awaits completes or fails.
Fairness ==
  \A a \in Leases : /\ WF_vars(AcquireStep(a))
                    /\ WF_vars(MarkStep(a))
                    /\ WF_vars(ReleaseStep(a))

FairSpec == Spec /\ Fairness

NextOutsider == Next \/ LockFileLost
OutsiderSpec == Init /\ [][NextOutsider]_vars

-----------------------------------------------------------------------------
(* What the lease promises.                                                *)

\* One lease at a time is owned by a running Host, whatever races, crashes and
\* recoveries happened before (acquire, lines 73-129).
HolderExclusion ==
  \A a, b \in Leases : Holds(a) /\ Holds(b) => a = b

\* Two Pi process trees never write one session file, even when the Host of the
\* first died, and even when an outsider deleted its lock file.
WriterExclusion == \A a, b \in tree : a = b

\* Who holds the lease does so alone: no tree of an earlier owner is left.  The
\* deletion of a session relies on it, which holds a lease and spawns nothing.
HeldExcludesForeignTree ==
  \A a \in Leases : Holds(a) => tree \subseteq {a}

\* Both: who holds the lease is alone with the session file.
HolderAlone == HolderExclusion /\ HeldExcludesForeignTree

\* A running tree is covered by the marker of its own lease, so the quarantine
\* survives the crash of its Host and no failed release lifts it.
QuarantineCoversTree == \A a \in tree : marker = a

\* A released lease left neither its lock nor its marker behind: a mark that was
\* pending when release was called cannot publish one afterwards.
ReleasedLeavesNothing ==
  \A a \in Leases : pc[a] = "released" => lock # a /\ marker # a

\* The lock of a running Host's lease disappears only by that lease's release:
\* no recovery unlinks a lock other than the dead owner's it has verified.
LockNeverStolen ==
  [][\A a \in Leases : lock = a /\ Alive(a) /\ lock' # a => pc'[a] = "released"]_vars

\* acquire comes to an end, however many claims of dead recoverers it has to step
\* over, and so does release, though it waits for a mark that is pending.
OperationsSettle ==
  \A a \in Leases :
    /\ (pc[a] \in Acquiring) ~> (pc[a] \notin Acquiring \/ ~Alive(a))
    /\ (pc[a] \in Releasing) ~> (pc[a] \notin Releasing \/ ~Alive(a))

-----------------------------------------------------------------------------
(* The abstract lease it implements.                                       *)

Owner == IF \E a \in Leases : Holds(a) THEN CHOOSE a \in Leases : Holds(a) ELSE None

Owned == INSTANCE OwnedSession WITH owner <- Owner, writers <- tree

\* acquire, markRuntimeUncertain and release implement the abstract session: one
\* owner, which alone may write, and gives up with nothing left that writes.
OwnedSpec == Owned!Spec

=============================================================================
