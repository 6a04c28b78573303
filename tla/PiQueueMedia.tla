---------------------------- MODULE PiQueueMedia ----------------------------
(***************************************************************************)
(* The copies on the disk of images that are queued in Pi: how the service *)
(* makes them (refreshQueueFacts, PiQueueMediaStore.materialize), names    *)
(* them in the record and in the bookmark of the session (persist), and    *)
(* removes those that nothing names (pruneQueueMedia, pruneUnreferenced),  *)
(* while Pi changes its queue, runs, exits and is loaded again, and the    *)
(* Host crashes.  One session, not a temporary one.  Pi sends its records  *)
(* and its answers in one stream, so the Host knows what Pi did before it  *)
(* answered: a record is handled in the step that sends it.                *)
(***************************************************************************)
EXTENDS Naturals, Sequences

CONSTANTS
  Copies,       \* names of copies: one for each image of a queue item
  MaxRecords,   \* bound: records of the session, one after the other
  MaxChanges,   \* bound: changes of the queue of one Pi
  MaxWrites     \* bound: writes of the bookmark that wait for one another

ASSUME MediaAssumption ==
  MaxRecords \in Nat \ {0} /\ MaxChanges \in Nat /\ MaxWrites \in Nat \ {0}

VARIABLES
  alive,        \* Pi runs
  queue,        \* images of the items in Pi's queue
  revision,     \* of the queue: every Pi counts its own
  running,      \* Pi works on an input, or one is on its way to it
  history,      \* copies that the session's JSONL mentions
  record,       \* which record the session has, 0 before the first
  named,        \* record -> the copies that its piQueueRecovery names
  interrupted,  \* record -> those that its piInterruptedQueueRecovery names
  bookmark,     \* the bookmark in memory
  disk,         \* the bookmark on the disk
  copies,       \* the copies that exist
  chain,        \* queueRefreshes: the records that wait for a refresh, in order
  job,          \* the refresh at the head of the chain
  writes,       \* catalogWrites: the writes of the bookmark, in order
  content,      \* what the write at the head is writing
  loading,      \* a load of the session: the bookmark it began with
  preview,      \* the copy that an image preview is making, beside the chain
  late,         \* ghost: mentions that came after the last look at them
  stale         \* ghost: names that were saved of a record after it was replaced

mediaVars == <<alive, queue, revision, running, history, record, named, interrupted,
               bookmark, disk, copies, chain, job, writes, content, loading, preview, late, stale>>
piVars == <<alive, queue, revision, running, history>>
memoryVars == <<record, named, interrupted, loading>>
writeVars == <<bookmark, disk, writes, content, stale>>
fileVars == <<copies, preview, late>>

Records == 0..MaxRecords
Names == [queued : SUBSET Copies, interrupted : SUBSET Copies]
NoNames == [queued |-> {}, interrupted |-> {}]
NoContent == [at |-> "none", names |-> NoNames]
NoJob == [at |-> "catalog", revision |-> 0, todo |-> {}, refs |-> {}, same |-> FALSE,
          kept |-> {}, candidates |-> {}, before |-> {}]

MediaTypeOK ==
  /\ alive \in BOOLEAN /\ running \in BOOLEAN
  /\ queue \subseteq Copies /\ history \subseteq Copies /\ copies \subseteq Copies /\ late \subseteq Copies
  /\ stale \subseteq Copies
  /\ revision \in 0..MaxChanges
  /\ record \in Records
  /\ named \in [Records -> SUBSET Copies]
  /\ interrupted \in [Records -> SUBSET Copies]
  /\ bookmark \in Names
  /\ disk \in Names
  /\ chain \in Seq(Records)
  /\ job.at \in {"catalog", "copy", "confirm", "save", "look", "list", "scan", "next", "unlink"}
  /\ writes \in Seq([of : Records, job : BOOLEAN])
  /\ content.at \in {"none", "write", "written"} /\ content.names \in Names
  /\ loading.on \in BOOLEAN /\ loading.names \in Names
  /\ preview \subseteq Copies

MediaInit ==
  /\ alive = FALSE /\ running = FALSE
  /\ queue = {} /\ history = {} /\ copies = {} /\ late = {} /\ stale = {}
  /\ revision = 0
  /\ record = 0
  /\ named = [r \in Records |-> {}]
  /\ interrupted = [r \in Records |-> {}]
  /\ bookmark = NoNames
  /\ disk = NoNames
  /\ chain = <<>> /\ job = NoJob
  /\ writes = <<>> /\ content = NoContent
  /\ loading = [on |-> FALSE, names |-> NoNames]
  /\ preview = {}

AllNames(names) == names.queued \cup names.interrupted

-----------------------------------------------------------------------------
(* Pi.                                                                     *)

Refreshed == IF record = 0 THEN chain ELSE Append(chain, record)

\* The removal that is under way finds that something has happened: another version of
\* the records, or another bookmark.
Noticed == job' = [job EXCEPT !.same = FALSE]

\* Pi's queue takes an item, or gives one to a run; its record asks the Host to read
\* the queue again.
QueueChanges ==
  /\ alive
  /\ revision < MaxChanges
  /\ \E c \in Copies :
       \/ c \notin queue /\ queue' = queue \cup {c} /\ UNCHANGED running
       \/ c \in queue /\ queue' = queue \ {c} /\ running' \in {running, TRUE}
  /\ revision' = revision + 1
  /\ chain' = Refreshed
  /\ Noticed
  /\ UNCHANGED <<alive, history, memoryVars, writeVars, fileVars>>

\* An input is admitted: the Host notes it before Pi hears of it.
RunStarts ==
  /\ alive /\ ~running
  /\ running' = TRUE
  /\ Noticed
  /\ UNCHANGED <<alive, queue, revision, history, memoryVars, writeVars, fileVars, chain>>

RunEnds ==
  /\ running
  /\ running' = FALSE
  /\ Noticed
  /\ UNCHANGED <<alive, queue, revision, history, memoryVars, writeVars, fileVars, chain>>

\* A message of the run mentions a copy that exists.
Mention(c) ==
  /\ running /\ c \in copies
  /\ history' = history \cup {c}
  /\ late' = IF job.at = "unlink" /\ c \in job.todo THEN late \cup {c} ELSE late
  /\ UNCHANGED <<alive, queue, revision, running, memoryVars, writeVars, copies, preview,
                 chain, job>>

\* Pi exits, and its queue with it; the record stays until the session is loaded again.
MediaPiExits ==
  /\ alive
  /\ alive' = FALSE /\ running' = FALSE /\ queue' = {}
  /\ UNCHANGED <<revision, history, memoryVars, writeVars, fileVars, chain, job>>

-----------------------------------------------------------------------------
(* loadSession.                                                            *)

LoadBegins ==
  /\ ~alive /\ ~loading.on /\ record < MaxRecords
  /\ loading' = [on |-> TRUE, names |-> bookmark]
  /\ UNCHANGED <<piVars, record, named, interrupted, writeVars, fileVars, chain, job>>

\* Pi is resumed; what the queue of the last Pi held is interrupted.
LoadEnds ==
  /\ loading.on
  /\ loading' = [on |-> FALSE, names |-> NoNames]
  /\ alive' = TRUE /\ revision' = 0
  /\ record' = record + 1
  /\ interrupted' = [interrupted EXCEPT ![record'] = AllNames(loading.names)]
  /\ chain' = Append(chain, record')
  /\ UNCHANGED <<queue, running, history, named, writeVars, fileVars, job>>

\* The Host dies at any moment; another reads the bookmark from the disk.
MediaCrash ==
  /\ record < MaxRecords
  /\ alive' = FALSE /\ running' = FALSE /\ queue' = {}
  /\ chain' = <<>> /\ job' = NoJob
  /\ writes' = <<>> /\ content' = NoContent
  /\ bookmark' = disk
  /\ loading' = [on |-> FALSE, names |-> NoNames]
  /\ named' = [r \in Records |-> {}]
  /\ interrupted' = [r \in Records |-> {}]
  /\ preview' = {}
  /\ UNCHANGED <<revision, history, record, disk, copies, late, stale>>

-----------------------------------------------------------------------------
(* persist: one write of the bookmark after the other.                     *)

\* The writes that wait, the first of which reads its record now if it has not before.
Waiting(next, queued) ==
  /\ writes' = next
  /\ content' = IF next = <<>> THEN NoContent
                ELSE LET r == Head(next).of
                     IN [at |-> "write", names |-> [queued |-> queued[r], interrupted |-> interrupted[r]]]

Enqueued(write, queued) ==
  IF writes = <<>> THEN Waiting(<<write>>, queued)
  ELSE writes' = Append(writes, write) /\ UNCHANGED content

\* A command or a change of phase saves a record, which may have been replaced.
Persist(r) ==
  /\ r \in 1..record /\ Len(writes) < MaxWrites
  /\ Enqueued([of |-> r, job |-> FALSE], named)
  /\ UNCHANGED <<piVars, memoryVars, bookmark, disk, stale, fileVars, chain, job>>

\* The new bookmark takes the place of the old one on the disk.
Renamed ==
  /\ content.at = "write"
  /\ disk' = content.names
  /\ content' = [content EXCEPT !.at = "written"]
  /\ stale' = IF Head(writes).of = record THEN stale ELSE stale \cup AllNames(content.names)
  /\ UNCHANGED <<piVars, memoryVars, bookmark, writes, fileVars, chain, job>>

NextJob == chain' = Tail(chain) /\ job' = NoJob

\* The bookmark in memory follows.  The refresh that saved goes on with the removal
\* of copies, and notes the version and the bookmark of this moment.
Recorded ==
  /\ content.at = "written"
  /\ bookmark' = content.names
  /\ Waiting(Tail(writes), named)
  /\ job' = IF Head(writes).job
            THEN [job EXCEPT !.at = "look", !.same = TRUE]
            ELSE [job EXCEPT !.same = FALSE]
  /\ UNCHANGED <<piVars, memoryVars, disk, stale, fileVars, chain>>

WriteRejected ==
  /\ content.at = "write"
  /\ Waiting(Tail(writes), named)
  /\ IF Head(writes).job THEN NextJob ELSE UNCHANGED <<chain, job>>
  /\ UNCHANGED <<piVars, memoryVars, bookmark, disk, stale, fileVars>>

-----------------------------------------------------------------------------
(* refreshQueueFacts: one after the other for a session.                   *)

JobAt(where) == chain # <<>> /\ job.at = where

Catalog ==
  /\ JobAt("catalog") /\ alive
  /\ job' = [NoJob EXCEPT !.at = "copy", !.revision = revision, !.todo = queue]
  /\ UNCHANGED <<piVars, memoryVars, writeVars, fileVars, chain>>

\* readQueueItem and materialize, for one image.
Copy(c) ==
  /\ JobAt("copy") /\ alive
  /\ c \in job.todo /\ c \in queue /\ revision = job.revision
  /\ copies' = copies \cup {c}
  /\ job' = [job EXCEPT !.todo = @ \ {c}, !.refs = @ \cup {c}]
  /\ UNCHANGED <<piVars, memoryVars, writeVars, preview, late, chain>>

\* The queue has changed: once more, or for the fourth time and no more.
Changed ==
  /\ JobAt("copy") /\ alive /\ revision # job.revision
  /\ \/ job' = NoJob /\ UNCHANGED chain
     \/ NextJob
  /\ UNCHANGED <<piVars, memoryVars, writeVars, fileVars>>

\* The revision is the same after the copies were made: the record names them, and
\* is saved.  A record that was replaced is left alone.
Confirm ==
  /\ JobAt("copy") /\ alive /\ job.todo = {} /\ revision = job.revision
  /\ IF Head(chain) = record
     THEN /\ named' = [named EXCEPT ![record] = job.refs \cap queue]
          /\ Enqueued([of |-> record, job |-> TRUE], named')
          /\ job' = [job EXCEPT !.at = "save", !.refs = {}]
          /\ UNCHANGED chain
     ELSE NextJob /\ UNCHANGED <<named, writes, content>>
  /\ UNCHANGED <<piVars, record, interrupted, loading, bookmark, disk, stale, fileVars>>

\* Pi does not answer, or a file operation fails; removals that were begun stay.
JobFails ==
  /\ chain # <<>> /\ job.at # "save"
  /\ NextJob
  /\ UNCHANGED <<piVars, memoryVars, writeVars, fileVars>>

-----------------------------------------------------------------------------
(* pruneQueueMedia and pruneUnreferenced.                                  *)

\* Bug: what happened since the removal began is not looked at.
UnreferencedNow ==
  /\ Head(chain) = record
  /\ alive /\ ~running /\ revision = job.revision

\* stillUnreferenced: what the Host knows, and Pi's answers.
Unreferenced ==
  /\ Head(chain) = record
  /\ job.same
  /\ alive /\ ~running /\ revision = job.revision

\* The first look; what is named at this moment is kept.
Retain ==
  /\ JobAt("look") /\ Unreferenced
  /\ job' = [job EXCEPT !.at = "list",
               !.kept = named[record] \cup interrupted[record] \cup AllNames(bookmark)]
  /\ UNCHANGED <<piVars, memoryVars, writeVars, fileVars, chain>>

List ==
  /\ JobAt("list")
  /\ job' = [job EXCEPT !.at = "scan", !.kept = {}, !.candidates = copies \ job.kept, !.before = history]
  /\ UNCHANGED <<piVars, memoryVars, writeVars, fileVars, chain>>

\* The history is read through; it must not have changed meanwhile.
Scan ==
  /\ JobAt("scan") /\ history = job.before
  /\ job' = [job EXCEPT !.at = "next", !.candidates = @ \ history, !.before = {}]
  /\ UNCHANGED <<piVars, memoryVars, writeVars, fileVars, chain>>

\* Each removal has a look of its own.
Look(c) ==
  /\ JobAt("next") /\ c \in job.candidates /\ Unreferenced
  /\ job' = [job EXCEPT !.at = "unlink", !.todo = {c}, !.candidates = @ \ {c}]
  /\ UNCHANGED <<piVars, memoryVars, writeVars, fileVars, chain>>

Unlink ==
  /\ JobAt("unlink")
  /\ copies' = copies \ job.todo
  /\ job' = [job EXCEPT !.at = "next", !.todo = {}]
  /\ UNCHANGED <<piVars, memoryVars, writeVars, preview, late, chain>>

\* An image preview, or a queued item that is sent now, makes the copy of an item
\* outside the chain.
PreviewReads(c) ==
  /\ alive /\ c \in queue /\ preview = {}
  /\ preview' = {c}
  /\ UNCHANGED <<piVars, memoryVars, writeVars, copies, late, chain, job>>

PreviewCopies ==
  /\ preview # {}
  /\ copies' = copies \cup preview
  /\ preview' = {}
  /\ UNCHANGED <<piVars, memoryVars, writeVars, late, chain, job>>

-----------------------------------------------------------------------------

MediaStep ==
  \/ QueueChanges \/ RunStarts \/ RunEnds \/ MediaPiExits
  \/ LoadBegins \/ LoadEnds \/ MediaCrash
  \/ \E r \in Records : Persist(r)
  \/ Renamed \/ Recorded \/ WriteRejected
  \/ Catalog \/ Changed \/ Confirm \/ JobFails
  \/ Retain \/ List \/ Scan \/ Unlink \/ PreviewCopies
  \/ \E c \in Copies : Mention(c) \/ Copy(c) \/ Look(c) \/ PreviewReads(c)

MediaSpec == MediaInit /\ [][MediaStep]_mediaVars

-----------------------------------------------------------------------------
(* Whatever the record shows as queued or interrupted, whatever a Host     *)
(* that comes after a crash would find in the bookmark, and whatever the   *)
(* history mentions, its copy exists: no removal takes it, whenever the    *)
(* queue, the bookmark, the record and the history change meanwhile.  The  *)
(* exceptions are a mention that comes between the last look and the       *)
(* removal, and names that a command saves of a record that was replaced.  *)
EvidenceKept ==
  /\ (AllNames(disk) \cup named[record] \cup interrupted[record]) \ stale \subseteq copies
  /\ history \ late \subseteq copies

=============================================================================
