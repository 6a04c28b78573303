-------------------------------- MODULE PiFeed --------------------------------
(***************************************************************************)
(* How what Pi says reaches the panes: the records of one session, the     *)
(* reads of its history that follow a settled run and a shell command, the *)
(* projection they change and the snapshot that subscribers are sent       *)
(* (onPiRecord, reconcileSettled, emitConversation and                     *)
(* reconcilePiTreeHistory of pi-native-v4-service.ts).                     *)
(*                                                                         *)
(* Pi runs, for an input that was admitted or of an extension's accord; it *)
(* streams messages, and drops a failed answer before it retries.  A       *)
(* record is applied as it comes.  A read of the history is answered by    *)
(* Pi, in the order of the reads, and what waited for it goes on later:    *)
(* records that came with the answer are applied in between.  A settled    *)
(* read then saves the session before it shows what it changed.            *)
(*                                                                         *)
(* Left out: the state that goes with the rows (queue, retries, intents,   *)
(* turns), the frames of each subscriber, and the end of the record        *)
(* (release of a workspace waits for the reads).  The answer of a shell    *)
(* command that Pi refused changes no history.                             *)
(*                                                                         *)
(* An operator introduced by a comment that begins with "Bug:" is not part *)
(* of the specification: it is what a plausible mistake would make of the  *)
(* operator after it, and shows that the properties notice.                *)
(***************************************************************************)
EXTENDS PiMessageRows, SequencesExt

CONSTANTS
  MaxMessages,  \* a bound on the messages of Pi
  MaxSize,      \* a bound on the size of an answer
  MaxRecords,   \* a bound on the version, the records and admissions seen
  MaxCommands   \* a bound on the shell commands and compactions

ASSUME FeedAssumption == MaxMessages \in Nat /\ MaxSize \in Nat /\ MaxRecords \in Nat /\ MaxCommands \in Nat

VARIABLES
  history,     \* what Pi answers to a read: the messages that have ended
  current,     \* the message that Pi streams, <<>> or a sequence of one
  running,     \* Pi has a run
  count,       \* how many messages there were

  phase,       \* of the view of the supervisor
  commands,    \* how many shell commands and compactions there were
  version,     \* recordVersions
  generation,  \* admissionGeneration
  projection,
  shown,       \* the rows of the snapshot
  jobs,        \* reconciliations: the first one runs, each waits for the one before
  reads,       \* the reads of the history that have not been taken up

  settledAt,   \* the generation of the last run that settled
  unread,      \* the last read was refused
  givenUp,     \* a settled read was given up in a command, and none followed
  overtaken,   \* a change was shown before an older one
  unordered    \* a removal met ids that do not tell the rows it keeps from the others

pi == <<history, current, running, count>>
service == <<phase, commands, version, generation, projection, shown, jobs, reads>>
ghosts == <<settledAt, unread, givenUp, overtaken, unordered>>
vars == <<pi, service, ghosts>>

Phases == {"settled", "accepted", "running", "shell", "compact"}
Idle == jobs = <<>> /\ reads = <<>>

Init ==
  /\ history = <<>> /\ current = <<>> /\ running = FALSE /\ count = 0
  /\ phase = "settled" /\ commands = 0 /\ version = 0 /\ generation = 0
  /\ projection = NewRows /\ shown = <<>> /\ jobs = <<>> /\ reads = <<>>
  /\ settledAt = 0 /\ unread = FALSE /\ givenUp = FALSE /\ overtaken = FALSE /\ unordered = FALSE

-----------------------------------------------------------------------------
(* What is shown. *)

Saving == jobs # <<>> /\ Head(jobs).stage = "saving" /\ Head(jobs).deltas # <<>>

\* emitConversation, from a record or a shell command; a settled read that
\* is being saved has not shown its own, older, change yet.
Emit(deltas) ==
  /\ shown' = Applied(shown, deltas)
  /\ overtaken' = (overtaken \/ (deltas # <<>> /\ Saving))

\* What a removal will take away is noted as the rows change.
CutNoted(next) == unordered' = (unordered \/ ~CutClean(Rows(projection), Rows(next)))

\* (\E over one value rather than LET: TLC computes it once.)
Project(p) ==
  \E next \in {p} : \E deltas \in {Diff(Rows(projection), Rows(next))} :
    projection' = next /\ CutNoted(next) /\ Emit(deltas)

-----------------------------------------------------------------------------
(* Records. *)

Counted == version < MaxRecords /\ version' = version + 1

\* agent_start, of the input that was admitted or of an extension; the
\* supervisor's phase follows only the runs of an input (acceptRunEvents).
Start ==
  /\ ~running /\ phase # "compact" /\ Counted
  /\ running' = TRUE
  /\ phase' = IF phase = "accepted" THEN "running" ELSE phase
  /\ UNCHANGED <<history, current, count, commands, generation, projection, shown, jobs, reads, ghosts>>

MessageStart(role) ==
  /\ running /\ current = <<>> /\ count < MaxMessages /\ Counted
  /\ count' = count + 1
  /\ current' = <<Message(count + 1, role, 0)>>
  /\ Project(Started(projection, Message(count + 1, role, 0)))
  /\ UNCHANGED <<history, running, phase, commands, generation, jobs, reads, settledAt, unread, givenUp>>

MessageUpdate ==
  /\ current # <<>> /\ current[1].role = "assistant" /\ current[1].size < MaxSize /\ Counted
  /\ current' = [current EXCEPT ![1].size = @ + 1]
  /\ Project(Streamed(projection))
  /\ UNCHANGED <<history, running, count, phase, commands, generation, jobs, reads, settledAt, unread, givenUp>>

MessageEnd ==
  /\ current # <<>> /\ Counted
  /\ history' = Append(history, current[1]) /\ current' = <<>>
  /\ Project(Finished(projection, current[1]))
  /\ UNCHANGED <<running, count, phase, commands, generation, jobs, reads, settledAt, unread, givenUp>>

\* auto_retry_start: Pi drops the answer that failed, which is its newest
\* message, the projection does not.
Retry ==
  /\ running /\ current = <<>> /\ Counted
  /\ history # <<>> /\ Last(history).role = "assistant" /\ Last(history).n = count
  /\ history' = Front(history)
  /\ UNCHANGED <<current, running, count, phase, commands, generation, projection, shown, jobs, reads, ghosts>>

\* A record without rows: of the queue, of a dialog, of a compaction.
Other ==
  /\ Counted
  /\ UNCHANGED <<pi, phase, commands, generation, projection, shown, jobs, reads, ghosts>>

Job(v, g) == [version |-> v, generation |-> g, stage |-> "queued", deltas |-> <<>>]

Settle ==
  /\ running /\ current = <<>> /\ Counted
  /\ running' = FALSE
  /\ phase' = IF phase \in {"accepted", "running"} THEN "settled" ELSE phase
  /\ jobs' = Append(jobs, Job(version + 1, generation))
  /\ settledAt' = generation
  /\ UNCHANGED <<history, current, count, commands, generation, projection, shown, reads, unread, givenUp, overtaken, unordered>>

RecordStep ==
  \/ Start \/ MessageUpdate \/ MessageEnd \/ Retry \/ Other \/ Settle
  \/ \E role \in Roles : MessageStart(role)

-----------------------------------------------------------------------------
(* Inputs and commands of the user. *)

Admit ==
  /\ phase = "settled" /\ Counted
  /\ generation' = generation + 1
  /\ phase' = "accepted"
  /\ UNCHANGED <<pi, commands, projection, shown, jobs, reads, ghosts>>

\* The input was handled by an extension, or refused: no run follows.
NoRun ==
  /\ phase = "accepted" /\ phase' = "settled"
  /\ UNCHANGED <<pi, commands, version, generation, projection, shown, jobs, reads, ghosts>>

\* Pi compacts only when it has no run.
Command(kind) ==
  /\ phase = "settled" /\ commands < MaxCommands /\ (kind = "compact" => ~running)
  /\ commands' = commands + 1
  /\ phase' = kind
  /\ UNCHANGED <<pi, version, generation, projection, shown, jobs, reads, ghosts>>

CommandFails ==
  /\ phase \in {"shell", "compact"} /\ phase' = "settled"
  /\ UNCHANGED <<pi, commands, version, generation, projection, shown, jobs, reads, ghosts>>

\* A compaction leaves the messages of the history as they are.
CompactEnds ==
  /\ phase = "compact" /\ phase' = "settled"
  /\ UNCHANGED <<pi, commands, version, generation, projection, shown, jobs, reads, ghosts>>

Read(for) == [for |-> for, answered |-> FALSE, messages |-> <<>>]

\* Pi writes the entry without a record; the service reads the history.
ShellEnds ==
  /\ phase = "shell" /\ count < MaxMessages
  /\ phase' = "settled"
  /\ count' = count + 1
  /\ history' = Append(history, Message(count + 1, "bash", 0))
  /\ reads' = Append(reads, Read("shell"))
  /\ UNCHANGED <<current, running, commands, version, generation, projection, shown, jobs, ghosts>>

ShellShows ==
  /\ reads # <<>> /\ Head(reads).for = "shell" /\ Head(reads).answered
  /\ reads' = Tail(reads)
  /\ Project(Reconciled(projection, Head(reads).messages))
  /\ unread' = FALSE /\ givenUp' = FALSE
  /\ UNCHANGED <<pi, phase, commands, version, generation, jobs, settledAt>>

UserStep ==
  \/ Admit \/ NoRun \/ CommandFails \/ CompactEnds \/ ShellEnds
  \/ \E kind \in {"shell", "compact"} : Command(kind)

-----------------------------------------------------------------------------
(* The reads of the history. *)

Ask ==
  /\ jobs # <<>> /\ Head(jobs).stage = "queued"
  /\ jobs' = [jobs EXCEPT ![1].stage = "reading"]
  /\ reads' = Append(reads, Read("settled"))
  /\ UNCHANGED <<pi, phase, commands, version, generation, projection, shown, ghosts>>

\* Pi answers in the order it was asked.
Answer ==
  /\ \E i \in DOMAIN reads :
        /\ ~reads[i].answered /\ \A j \in 1..(i - 1) : reads[j].answered
        /\ reads' = [reads EXCEPT ![i] = [for |-> @.for, answered |-> TRUE, messages |-> history]]
  /\ UNCHANGED <<pi, phase, commands, version, generation, projection, shown, jobs, ghosts>>

\* Pi refuses the read, or its deadline passes: the session is marked.
Unanswered ==
  /\ reads # <<>> /\ ~Head(reads).answered
  /\ reads' = Tail(reads)
  /\ jobs' = IF Head(reads).for = "settled" THEN Tail(jobs) ELSE jobs
  /\ unread' = TRUE
  /\ UNCHANGED <<pi, phase, commands, version, generation, projection, shown, settledAt, givenUp, overtaken, unordered>>

SettledRead ==
  /\ reads # <<>> /\ Head(reads).for = "settled" /\ Head(reads).answered
  /\ reads' = Tail(reads)
  /\ UNCHANGED <<pi, phase, commands, version, generation, settledAt>>

\* Bug: any record after the settled one counts.
CurrentAnyway == Head(jobs).generation = generation

\* No record and no admission came after the one the read is for.
Current == Head(jobs).generation = generation /\ Head(jobs).version = version

SettledPhases == {"settled"}

\* Bug: a read that a late record made stale is not repeated.
NotRepeated == FALSE

Repeated == Head(jobs).generation = generation /\ Head(jobs).version # version /\ phase \in SettledPhases

\* Bug: the read is repeated for the version that is already past.
RepeatedJobStale == Head(jobs)

RepeatedJob == Job(version, Head(jobs).generation)

Reconcile ==
  /\ SettledRead /\ Current
  /\ \E next \in {Reconciled(projection, Head(reads).messages)} :
         /\ projection' = next /\ CutNoted(next)
         /\ jobs' = [jobs EXCEPT ![1].stage = "saving", ![1].deltas = Diff(Rows(projection), Rows(next))]
  /\ unread' = FALSE /\ givenUp' = FALSE
  /\ UNCHANGED <<shown, overtaken>>

ReadAgain ==
  /\ SettledRead /\ ~Current /\ Repeated
  /\ jobs' = Append(Tail(jobs), [RepeatedJob EXCEPT !.stage = "queued"])
  /\ UNCHANGED <<projection, shown, unread, givenUp, overtaken, unordered>>

GiveUp ==
  /\ SettledRead /\ ~Current /\ ~Repeated
  /\ jobs' = Tail(jobs)
  /\ givenUp' = (givenUp \/ phase \in {"shell", "compact"})
  /\ UNCHANGED <<projection, shown, unread, overtaken, unordered>>

Saved ==
  /\ jobs # <<>> /\ Head(jobs).stage = "saving"
  /\ shown' = Applied(shown, Head(jobs).deltas)
  /\ jobs' = Tail(jobs)
  /\ UNCHANGED <<pi, phase, commands, version, generation, projection, reads, ghosts>>

ReadStep == Ask \/ Answer \/ Unanswered \/ Reconcile \/ ReadAgain \/ GiveUp \/ Saved \/ ShellShows

Next == RecordStep \/ UserStep \/ ReadStep

Spec == Init /\ [][Next]_vars

\* Each read is answered or its deadline passes, and what waits for it, or
\* for the file, goes on.
Fairness == WF_vars(ReadStep)

FairSpec == Spec /\ Fairness

-----------------------------------------------------------------------------
TypeOK ==
  /\ phase \in Phases /\ running \in BOOLEAN /\ version \in 0..MaxRecords
  /\ count \in 0..MaxMessages /\ commands \in 0..MaxCommands /\ generation \in Nat
  /\ projection.active \in 0..Len(projection.messages)
  /\ Len(projection.ids) = Len(projection.messages)

\* What subscribers were sent, together with the change that a settled read
\* has still to send, is what the projection holds, unless a newer change
\* was sent before an older one, or a removal took away more than it was for:
\* the deltas rebuild the rows whatever was inserted, cut or replaced.
ShownFollowsRows ==
  overtaken \/ unordered \/ Rows(projection) = Applied(shown, IF Saving THEN Head(jobs).deltas ELSE <<>>)

\* A settled read never takes away a message that Pi ended after it
\* answered: the version tells that the answer is old.
NewerKept ==
  [][Reconcile => \A i \in DOMAIN projection.messages :
        projection.messages[i] \in ToSet(history) => projection.messages[i] \in ToSet(projection'.messages)]_vars

AtRest == Idle /\ ~running /\ phase = "settled" /\ generation = settledAt /\ ~unread

\* When the last run has settled and no read is under way, the messages are
\* those of Pi's history, whatever records came in between, unless a read
\* was given up because a command was running.
RestIsHistory == AtRest /\ ~givenUp => projection.messages = history

\* Both: what subscribers see follows the rows, and comes to rest at Pi's history.
FeedFaithful == ShownFollowsRows /\ RestIsHistory

\* "benign late records must instead trigger another authoritative read,
\* not strand old rows": the same, without exception.
LateRecordsReadAgain == AtRest => projection.messages = history

\* The reads come to an end: a late record makes a read be repeated for the
\* version it left, not for one that is past.
ReadsEnd == <>[]Idle
=============================================================================
