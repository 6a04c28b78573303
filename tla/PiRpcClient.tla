----------------------------- MODULE PiRpcClient -----------------------------
(***************************************************************************)
(* One PiRpcClient (pi-rpc-client.ts): the lifetime of one Pi child        *)
(* process, the queue of records written to its stdin, and the promises of *)
(* request and notify.  An operation o is one call of request or notify;   *)
(* the record it writes is o itself, and its promise is outcome[o].  A     *)
(* request is in the pending map exactly while its promise is open.        *)
(*                                                                         *)
(* The child is a root process and the tools it starts.  Node's callbacks  *)
(* (spawn, flush, drain, data, exit, close, error, timers) are actions, in *)
(* every order Node allows.  Termination of the process tree itself is     *)
(* outside: a cleanup flight ends when it has seen the tree empty, or it   *)
(* fails.                                                                  *)
(*                                                                         *)
(* An operator introduced by a comment that begins with "Bug:" is not part *)
(* of the specification: it is what a plausible mistake would make of the  *)
(* operator after it, and shows that the properties notice.                *)
(***************************************************************************)
EXTENDS Integers, Sequences, FiniteSets, SequencesExt

CONSTANTS Requests, Notes,     \* calls of request and of notify
          Size,                \* bytes of the record of an operation
          MaxPending,          \* RPC_LIMITS.maxPendingRequests
          MaxRecords,          \* RPC_LIMITS.maxQueuedRecords
          MaxBytes,            \* RPC_LIMITS.maxQueuedBytes
          None                 \* no active write

Ops == Requests \cup Notes

ASSUME ClientAssumption ==
  /\ Requests \cap Notes = {}
  /\ None \notin Ops
  /\ Size \in [Ops -> Nat \ {0}]
  /\ MaxPending \in Nat /\ MaxRecords \in Nat /\ MaxBytes \in Nat

VARIABLES
  state,        \* 'new' | 'starting' | 'running' | 'stopping' | 'closed'
  disposed,     \* dispose was called
  starting,     \* the promise of start
  outcome,      \* the promise of each operation
  issued,       \* operations in the order of their calls (history)
  writes,       \* records queued and not yet handed to stdin
  activeWrite,  \* the record handed to stdin whose callback is awaited
  waitingDrain, \* stdin asked for no more until 'drain'
  queuedBytes,  \* bytes queued, the active record included
  wire,         \* records handed to stdin, in order
  tree,         \* processes of the child's tree that run
  child,        \* 'none', 'unborn' (no pid), 'born', 'exited' (exit event seen)
  ownedChild,   \* the tree is not yet verified absent
  flight,       \* a cleanup of the tree is under way
  disposal      \* the promise of dispose

queue == <<writes, activeWrite, waitingDrain, queuedBytes, wire>>
process == <<tree, child>>
cleanup == <<ownedChild, flight>>
vars == <<state, disposed, starting, outcome, issued, queue, process, cleanup, disposal>>

Settled == {"ok", "not-sent", "unknown"}
Open == {o \in Ops : outcome[o] = "open"}
Started(o) == o \in ToSet(wire)

\* The fields of the client hold what its declarations say.
TypeOK ==
  /\ state \in {"new", "starting", "running", "stopping", "closed"}
  /\ disposed \in BOOLEAN
  /\ starting \in {"none", "open", "ok", "failed"}
  /\ outcome \in [Ops -> {"none", "open"} \cup Settled]
  /\ issued \in Seq(Ops)
  /\ writes \in Seq(Ops)
  /\ activeWrite \in Ops \cup {None}
  /\ waitingDrain \in BOOLEAN
  /\ queuedBytes \in Int
  /\ wire \in Seq(Ops)
  /\ tree \subseteq {"root", "tool"}
  /\ child \in {"none", "unborn", "born", "exited"}
  /\ ownedChild \in BOOLEAN
  /\ flight \in BOOLEAN
  /\ disposal \in {"none", "tree", "closed", "rejected", "resolved"}

Init ==
  /\ state = "new" /\ disposed = FALSE /\ starting = "none"
  /\ outcome = [o \in Ops |-> "none"]
  /\ issued = <<>>
  /\ writes = <<>> /\ activeWrite = None /\ waitingDrain = FALSE
  /\ queuedBytes = 0 /\ wire = <<>>
  /\ tree = {} /\ child = "none"
  /\ ownedChild = FALSE /\ flight = FALSE
  /\ disposal = "none"

-----------------------------------------------------------------------------
(* Parts several handlers share.                                           *)

\* deliveryError: what a rejection says of the record's delivery.
Delivery(o) == IF Started(o) THEN "unknown" ELSE "not-sent"

Settle(o, how) == outcome' = [outcome EXCEPT ![o] = how]

\* rejectStarting
RejectStarting == starting' = IF starting = "open" THEN "failed" ELSE starting

\* rejectOperations: every promise settles, the queue is emptied.
RejectOperations ==
  /\ outcome' = [o \in Ops |-> IF o \in Open THEN Delivery(o) ELSE outcome[o]]
  /\ writes' = <<>> /\ activeWrite' = None /\ waitingDrain' = FALSE
  /\ queuedBytes' = 0
  /\ UNCHANGED wire

\* cleanupOwnedTree: one flight at a time, none once the tree is verified.
CleanupOwnedTree == flight' = ownedChild /\ UNCHANGED ownedChild

\* Bug: the record of a rejected call stays queued.
RemoveNothing(o) == UNCHANGED queue

\* removeUnsent: a record that is still queued never reaches stdin.
RemoveUnsent(o) ==
  /\ \/ \E i \in DOMAIN writes : /\ writes[i] = o
                                /\ writes' = RemoveAt(writes, i)
                                /\ queuedBytes' = queuedBytes - Size[o]
     \/ o \notin ToSet(writes) /\ UNCHANGED <<writes, queuedBytes>>
  /\ UNCHANGED <<activeWrite, waitingDrain, wire>>

\* Bug: the newest record goes first.
PumpNewest(q, active, waiting) ==
  IF state = "running" /\ active = None /\ ~waiting /\ q # <<>>
    THEN /\ writes' = Front(q)
         /\ activeWrite' = Last(q)
         /\ wire' = Append(wire, Last(q))
         /\ waitingDrain' \in BOOLEAN
    ELSE /\ writes' = q /\ activeWrite' = active /\ waitingDrain' = waiting
         /\ UNCHANGED wire

\* pump, from queue q with record `active' at stdin and `waiting' for a drain:
\* hand over one record.  stdin.write may ask to wait for 'drain'.
Pump(q, active, waiting) ==
  IF state = "running" /\ active = None /\ ~waiting /\ q # <<>>
    THEN /\ writes' = Tail(q)
         /\ activeWrite' = Head(q)
         /\ wire' = Append(wire, Head(q))
         /\ waitingDrain' \in BOOLEAN
    ELSE /\ writes' = q /\ activeWrite' = active /\ waitingDrain' = waiting
         /\ UNCHANGED wire

\* fail: the transport is unusable; what is left of Pi is cleaned up.
Failing ==
  /\ state' = "stopping"
  /\ RejectStarting
  /\ RejectOperations
  /\ CleanupOwnedTree

-----------------------------------------------------------------------------
(* start, and the child's birth.                                           *)

Start ==
  /\ state = "new" /\ ~disposed
  /\ \/ /\ child' = "born" /\ tree' = {"root"} /\ ownedChild' = TRUE
        /\ state' = "starting" /\ starting' = "open"
     \/ /\ child' = "unborn" /\ UNCHANGED <<tree, ownedChild>>
        /\ state' = "starting" /\ starting' = "open"
     \/ /\ state' = "closed" /\ starting' = "failed"   \* spawn throws
        /\ UNCHANGED <<child, tree, ownedChild>>
  /\ UNCHANGED <<disposed, outcome, issued, queue, flight, disposal>>

\* Bug: the spawn event does not look whether the client was stopped.
SpawnedAnyway ==
  /\ child = "born" /\ state \in {"starting", "stopping"}
  /\ state' = "running" /\ starting' = "ok"
  /\ UNCHANGED <<disposed, outcome, issued, queue, process, cleanup, disposal>>

Spawned ==
  /\ child = "born" /\ state = "starting"
  /\ state' = "running" /\ starting' = "ok"
  /\ UNCHANGED <<disposed, outcome, issued, queue, process, cleanup, disposal>>

-----------------------------------------------------------------------------
(* request and notify.                                                     *)

Load == Len(writes) + (IF activeWrite = None THEN 0 ELSE 1)

\* Refused calls, which change nothing, are left out.
Accepts(o) ==
  /\ state = "running"
  /\ outcome[o] = "none"
  /\ o \in Requests => Cardinality(Open \cap Requests) < MaxPending
  /\ queuedBytes + Size[o] <= MaxBytes
  /\ Load < MaxRecords

Issue(o) ==
  /\ Accepts(o)
  /\ issued' = Append(issued, o)
  /\ Settle(o, "open")
  /\ queuedBytes' = queuedBytes + Size[o]
  /\ Pump(Append(writes, o), activeWrite, waitingDrain)
  /\ UNCHANGED <<state, disposed, starting, process, cleanup, disposal>>

\* The write callback: a notification is done, a request awaits its response.
Flush ==
  /\ activeWrite # None
  /\ queuedBytes' = queuedBytes - Size[activeWrite]
  /\ IF activeWrite \in Notes /\ activeWrite \in Open
       THEN Settle(activeWrite, "ok") ELSE UNCHANGED outcome
  /\ Pump(writes, None, waitingDrain)
  /\ UNCHANGED <<state, disposed, starting, issued, process, cleanup, disposal>>

\* Bug: 'drain' lifts the wait and leaves the queue to the next callback.
DrainOnly ==
  /\ waitingDrain
  /\ waitingDrain' = FALSE
  /\ UNCHANGED <<state, disposed, starting, outcome, issued, writes, activeWrite,
                 queuedBytes, wire, process, cleanup, disposal>>

\* 'drain', which Node emits before or after the callback of the last record.
Drain ==
  /\ waitingDrain
  /\ Pump(writes, activeWrite, FALSE)
  /\ UNCHANGED <<state, disposed, starting, outcome, issued, queuedBytes,
                 process, cleanup, disposal>>

\* The deadline of a request, or of a notification's write.
Timeout(o) ==
  /\ o \in Open
  /\ RemoveUnsent(o)
  /\ Settle(o, Delivery(o))
  /\ UNCHANGED <<state, disposed, starting, issued, process, cleanup, disposal>>

\* handleLine is deaf once the client is disposed or closed.
Hearing == child # "none" /\ ~disposed /\ state # "closed"

\* A response to a sent request.  One whose request is no longer pending is
\* only diagnosed.
Response(r) ==
  /\ Hearing
  /\ r \in Open \cap Requests /\ Started(r)
  /\ Settle(r, "ok")
  /\ UNCHANGED <<state, disposed, starting, issued, queue, process, cleanup, disposal>>

\* A malformed or mismatched response, or one to a request not yet sent,
\* rejects the request it names.
BadResponse(r) ==
  /\ Hearing
  /\ r \in Open \cap Requests
  /\ RemoveUnsent(r)
  /\ Settle(r, Delivery(r))
  /\ UNCHANGED <<state, disposed, starting, issued, process, cleanup, disposal>>

-----------------------------------------------------------------------------
(* Failure, exit and close.                                                *)

\* An error event of the process or of a pipe, or a failed write callback.
Fail ==
  /\ child # "none" /\ state # "closed"
  /\ Failing
  /\ UNCHANGED <<disposed, issued, process, disposal>>

\* pump fails: stdin is not writable, or its write throws with the record
\* already counted as started.  `done' was flushed just before.
PumpFails(done, open, q) ==
  /\ state = "running" /\ q # <<>>
  /\ wire' \in {wire, Append(wire, Head(q))}
  /\ outcome' = [o \in Ops |-> CASE o \in done -> "ok"
                                [] o \in open \ done -> Delivery(o)'
                                [] OTHER -> outcome[o]]
  /\ writes' = <<>> /\ activeWrite' = None /\ waitingDrain' = FALSE
  /\ queuedBytes' = 0
  /\ state' = "stopping"
  /\ CleanupOwnedTree
  /\ UNCHANGED <<disposed, starting, process, disposal>>

IssueFails(o) ==
  /\ Accepts(o)
  /\ activeWrite = None /\ ~waitingDrain
  /\ issued' = Append(issued, o)
  /\ PumpFails({}, Open \cup {o}, Append(writes, o))

FlushFails ==
  /\ activeWrite # None /\ ~waitingDrain
  /\ PumpFails({activeWrite} \cap Notes \cap Open, Open, writes)
  /\ UNCHANGED issued

DrainFails ==
  /\ waitingDrain /\ activeWrite = None
  /\ PumpFails({}, Open, writes)
  /\ UNCHANGED issued

\* onExit: the root has exited; pending operations wait for the last output.
Exit ==
  /\ child = "born" /\ "root" \notin tree
  /\ state # "closed"
  /\ child' = "exited"
  /\ state' = "stopping"
  /\ RejectStarting
  /\ CleanupOwnedTree
  /\ UNCHANGED <<disposed, outcome, issued, queue, tree, disposal>>

FinishClose ==
  /\ state # "closed"
  /\ state' = "closed"
  /\ RejectStarting
  /\ RejectOperations
  /\ UNCHANGED <<disposed, issued, process, cleanup, disposal>>

\* 'close': the child is gone and no process holds its pipes.
Close == (child = "unborn" \/ (child = "exited" /\ tree = {})) /\ FinishClose

\* The drain window after exit ends, though a tool may hold the pipes.
DrainWindowEnds == child = "exited" /\ FinishClose

-----------------------------------------------------------------------------
(* dispose, the cleanup of the tree, and the tree itself.                  *)

Dispose ==
  /\ disposal \in {"none", "rejected"}
  /\ disposed' = TRUE
  /\ RejectStarting
  /\ RejectOperations
  /\ state' = IF state \in {"new", "closed"} THEN "closed" ELSE "stopping"
  /\ CleanupOwnedTree
  /\ disposal' = IF ownedChild THEN "tree" ELSE "closed"
  /\ UNCHANGED <<issued, process>>

\* Bug: the cleanup is done when the root process is gone.
CleanupDoneAtRoot ==
  /\ flight /\ "root" \notin tree
  /\ flight' = FALSE /\ ownedChild' = FALSE
  /\ disposal' = IF disposal = "tree" THEN "closed" ELSE disposal
  /\ UNCHANGED <<state, disposed, starting, outcome, issued, queue, process>>

CleanupDone ==
  /\ flight /\ tree = {}
  /\ flight' = FALSE /\ ownedChild' = FALSE
  /\ disposal' = IF disposal = "tree" THEN "closed" ELSE disposal
  /\ UNCHANGED <<state, disposed, starting, outcome, issued, queue, process>>

\* Bug: the failure of a cleanup is swallowed, and dispose awaits it for ever.
CleanupFailsUnheard ==
  /\ flight
  /\ flight' = FALSE
  /\ UNCHANGED <<state, disposed, starting, outcome, issued, queue, process,
                 ownedChild, disposal>>

\* Processes remain, or their identity is unknown: the owner keeps the tree.
CleanupFails ==
  /\ flight
  /\ flight' = FALSE
  /\ disposal' = IF disposal = "tree" THEN "rejected" ELSE disposal
  /\ UNCHANGED <<state, disposed, starting, outcome, issued, queue, process, ownedChild>>

Disposed ==
  /\ disposal = "closed" /\ state = "closed"
  /\ disposal' = "resolved"
  /\ UNCHANGED <<state, disposed, starting, outcome, issued, queue, process, cleanup>>

ToolStarts ==
  /\ "root" \in tree /\ "tool" \notin tree
  /\ tree' = tree \cup {"tool"}
  /\ UNCHANGED <<state, disposed, starting, outcome, issued, queue, child, cleanup, disposal>>

ProcessEnds(p) ==
  /\ p \in tree
  /\ tree' = tree \ {p}
  /\ UNCHANGED <<state, disposed, starting, outcome, issued, queue, child, cleanup, disposal>>

Next ==
  \/ Start \/ Spawned
  \/ \E o \in Ops : Issue(o) \/ Timeout(o) \/ IssueFails(o)
  \/ \E r \in Requests : Response(r) \/ BadResponse(r)
  \/ Flush \/ Drain \/ FlushFails \/ DrainFails
  \/ Fail \/ Exit \/ Close \/ DrainWindowEnds
  \/ Dispose \/ CleanupDone \/ CleanupFails \/ Disposed
  \/ ToolStarts \/ \E p \in {"root", "tool"} : ProcessEnds(p)

Spec == Init /\ [][Next]_vars

\* Timers fire, Node delivers the events of a child, and a cleanup ends one
\* way or the other.  That Pi answers, drains its stdin or exits is not assumed.
Fairness ==
  /\ \A o \in Ops : WF_vars(Timeout(o))
  /\ WF_vars(Exit) /\ WF_vars(Close) /\ WF_vars(DrainWindowEnds)
  /\ WF_vars(CleanupDone \/ CleanupFails)
  /\ WF_vars(Disposed)

FairSpec == Spec /\ Fairness

-----------------------------------------------------------------------------
(* What the client promises.                                               *)

\* "not-sent" is the truth for good: a record reported as not sent was never
\* handed to Pi and never will be, so the caller may send it again.
NotSentIsTrue == \A o \in Ops : outcome[o] = "not-sent" => ~Started(o)

\* Records reach stdin once, in the order of the calls, whatever was removed
\* from the queue in between.
WireInOrder ==
  \A i, j \in DOMAIN wire : i < j =>
    \E m, n \in DOMAIN issued : m < n /\ issued[m] = wire[i] /\ issued[n] = wire[j]

\* The bytes of records, each by its record and its place in it.
BytesOf(records) == UNION {{o} \X (1 .. Size[o]) : o \in records}

\* Byte accounting survives timeouts, flushes and failures in any order: it
\* never drifts, which would wedge the queue or lift its bound.
QueuedBytesExact ==
  queuedBytes = Cardinality(BytesOf(ToSet(writes) \cup ({activeWrite} \ {None})))

\* Both: what is queued is written once and in order, and counted until it is.
QueueKept == WireInOrder /\ QueuedBytesExact

\* A queued record is one whose caller still waits: nothing is written for a
\* caller that was told it was not sent.
QueuedIsOpen == \A o \in ToSet(writes) : o \in Open

\* A running client with records to write is waiting for stdin: for the callback
\* of the active record or for 'drain'.  No event leaves the queue stranded.
NothingStranded ==
  state = "running" /\ writes # <<>> => activeWrite # None \/ waitingDrain

\* Disposal and close leave no caller waiting, and no event revives the client.
QuietAfterEnd ==
  disposed \/ state = "closed" =>
    /\ Open = {} /\ writes = <<>> /\ activeWrite = None
    /\ state \in {"stopping", "closed"} /\ starting # "open"

\* dispose resolves only when no process of the tree is left: its caller then
\* releases the session lease.
DisposedTreeEmpty == disposal = "resolved" => tree = {}

\* Both: the end of a client is final, for its callers and for its processes.
EndIsFinal == QuietAfterEnd /\ DisposedTreeEmpty

\* A dead child is reported (the client closes and emits exit) though a tool
\* it left behind keeps its pipes open and cannot be killed.
ExitCloses == (child = "exited") ~> (state = "closed")

\* dispose comes back, resolved or rejected, once the tree that it cleans is
\* gone or the cleanup gives up.
DisposeSettles == (disposal \in {"tree", "closed"}) ~> (disposal \in {"resolved", "rejected"})

\* Both: whatever the tools that Pi leaves behind do, the end of a client is reported to
\* those who wait for its exit and to those who wait for dispose.
EndReported == ExitCloses /\ DisposeSettles

=============================================================================
