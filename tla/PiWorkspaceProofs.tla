-------------------------- MODULE PiWorkspaceProofs --------------------------
(***************************************************************************)
(* Proofs about PiWorkspace, for any number of calls, sessions and         *)
(* releases: what a release promises, and the files of staged images; and  *)
(* about PiQueueMedia, for any number of copies, records and writes: what  *)
(* is named keeps its copy.                                                *)
(***************************************************************************)
EXTENDS PiWorkspace, PiQueueMedia, SequenceTheorems, TLAPS

-----------------------------------------------------------------------------
(* Staged images.                                                          *)

\* A commit is in flight for complete entries only, and removes its file for one that
\* was dropped; an entry that was never used, or is released, is not in the map; a
\* committed one in the map has its file; and every whole file is spoken for.
EntryInv(e) ==
  /\ flight[e] # "none" => stage[e] = "complete"
  /\ flight[e] = "removing" \/ e \in releasing \/ stage[e] = "unused" => ~Listed(e)
  /\ stage[e] = "unused" => e \notin releasing /\ file[e] # "whole"
  /\ stage[e] = "committed" /\ Listed(e) => file[e] = "whole"
  /\ file[e] = "whole" =>
       \/ flight[e] = "removing"
       \/ stage[e] = "committed" /\ (Listed(e) \/ e \in releasing)
       \/ e \in kept

UploadInv == UploadTypeOK /\ \A e \in Entries : EntryInv(e)

\* A call of the renderer keeps the entries as they should be.
LEMMA UploadCallStep ==
  ASSUME UploadInv, NEW e \in Entries,
         UploadBegin(e) \/ UploadChunk(e) \/ UploadCommit(e) \/ UploadAbort(e)
  PROVE  UploadInv'
<1> USE UploadsAssumption DEF UploadInv, UploadTypeOK, EntryInv, Listed
<1>1. CASE UploadBegin(e) BY <1>1 DEF UploadBegin
<1>2. CASE UploadChunk(e) BY <1>2 DEF UploadChunk
<1>3. CASE UploadCommit(e) BY <1>3 DEF UploadCommit
<1>4. CASE UploadAbort(e) BY <1>4 DEF UploadAbort
<1> QED BY <1>1, <1>2, <1>3, <1>4

\* So does what goes on by itself.
LEMMA CommitInv ==
  ASSUME UploadInv, CommitStep
  PROVE  UploadInv' /\ releasing' \subseteq releasing
<1> USE UploadsAssumption DEF UploadInv, UploadTypeOK, EntryInv, Listed
<1>1. CASE DirectoryEnds BY <1>1 DEF DirectoryEnds
<1>2. ASSUME NEW e \in Entries, CommitAfterDirectory(e) PROVE UploadInv' /\ releasing' = releasing
  BY <1>2 DEF CommitAfterDirectory
<1>3. ASSUME NEW e \in Entries, WriteSucceeds(e) PROVE UploadInv' /\ releasing' = releasing
  BY <1>3 DEF WriteSucceeds
<1>4. ASSUME NEW e \in Entries, WriteFails(e) PROVE UploadInv' /\ releasing' = releasing
  BY <1>4 DEF WriteFails
<1>5. ASSUME NEW e \in Entries, OwnFileRemoved(e) PROVE UploadInv' /\ releasing' = releasing
  BY <1>5 DEF OwnFileRemoved
<1>6. ASSUME NEW e \in Entries, EntryReleased(e) PROVE UploadInv' /\ releasing' \subseteq releasing
  BY <1>6 DEF EntryReleased
<1> QED BY <1>1, <1>2, <1>3, <1>4, <1>5, <1>6 DEF CommitStep

\* And so does the beginning of a release, as the one before is over.
LEMMA UploadReleaseStep ==
  ASSUME UploadInv, UploadReleaseBegin, releasing = {}
  PROVE  UploadInv'
BY UploadsAssumption DEF UploadInv, UploadTypeOK, EntryInv, Listed, UploadReleaseBegin

-----------------------------------------------------------------------------
(* A release of the workspace: the invariant.                              *)

Loading == {"resuming", "history", "facts", "unwinding"}

\* Which calls come to which place; a close that was answered is taken up before
\* anything else happens, so that a session that was closed is not there.
CallInv(c) ==
  /\ pc[c] \in {"branching", "replacing", "childStart", "childHistory", "childFacts"} =>
       KindOf[c] = "branch"
  /\ pc[c] = "deleting" => KindOf[c] = "delete"
  /\ pc[c] = "starting" => KindOf[c] = "create"
  /\ pc[c] = "ledger" => c \in Commands
  /\ pc[c] = "source" => KindOf[c] = "import"
  /\ pc[c] \in {"scanning", "scanned", "joined", "loaded", "resuming"} => KindOf[c] # "create"
  /\ closed[c] # "no" => AwaitsClose(c)
  /\ closed[c] = "ok" => runtime[Target(c)] = "none"

CallsInv == \A c \in Calls : CallInv(c)

\* The table of loads holds just the calls that load, of sessions that are indexed.
LoaderInv ==
  /\ \A c \in Calls : pc[c] \in Loading /\ KindOf[c] # "create" => loader[Target(c)] = c
  /\ \A s \in Sessions : loader[s] # None =>
       /\ Target(loader[s]) = s /\ KindOf[loader[s]] # "create"
       /\ pc[loader[s]] \in Loading /\ s \in bookmarks
  /\ \A c \in Calls : pc[c] = "joined" => loader[Target(c)] # None
  /\ \A c \in Calls : pc[c] = "scanning" => scan = "running"

\* Behind the fence no load begins; and there is a release to return.
ShutInv == Fenced => generation < MaxReleases /\ \A c \in Calls : pc[c] # "scanned"

\* The release waits for all the commands and loads there are.
DrainInv ==
  closure = "draining" =>
    /\ \A c \in Commands : pc[c] \notin {"idle", "done"} => c \in drained.commands
    /\ \A s \in Sessions : loader[s] # None => s \in drained.loads

\* When it has waited, only imports that read their source are left.
LateInv ==
  closure \in {"closingLate", "uploads"} => \A c \in Calls : pc[c] \in {"idle", "source", "done"}

\* What is under way was called since the last release, imports apart.
BornInv == \A c \in Calls :
  pc[c] \notin {"idle", "done"} => born[c] = generation \/ KindOf[c] = "import"

\* The closes of a release, the last of which leave no record.
EndingInv ==
  /\ closure \notin {"closing", "closingLate"} => OwnedClosed
  /\ \A s \in Sessions : ending[s] = "waiting" => runtime[s] = "closing"
  /\ closure = "closingLate" => \A s \in records : ending[s] # "no"
  /\ closure = "uploads" => records = {}
  /\ closure # "uploads" => releasing = {}

\* The child of a branch has no record before the branch gives it one.
ChildInv ==
  \A c \in Calls : KindOf[c] = "branch" /\ pc[c] \notin {"childFacts", "done"} =>
    SessionOf[c] \notin records /\ ending[SessionOf[c]] = "no"

\* Whatever runs has a record that no release is about to drop, a call that will give
\* it one or close it, or is the child of a branch that failed.
OwnerInv ==
  \A s \in Sessions : runtime[s] = "alive" =>
    \/ s \in orphans
    \/ s \in records /\ ending[s] = "no"
    \/ \E c \in Calls : pc[c] = "history" /\ Target(c) = s
    \/ \E c \in Calls : pc[c] = "childHistory" /\ SessionOf[c] = s

\* What runs or has a record was started since the last release, with the exceptions.
StarterInv ==
  \A s \in Sessions : s \in records \/ runtime[s] = "alive" =>
    /\ starter[s] \in Calls
    /\ born[starter[s]] = generation \/ KindOf[starter[s]] = "import" \/ s \in orphans

ReleaseInv ==
  /\ TypeOK /\ CallsInv /\ LoaderInv /\ ShutInv /\ DrainInv /\ LateInv /\ BornInv
  /\ EndingInv /\ ChildInv /\ OwnerInv /\ StarterInv

\* The sessions of the calls are sessions; what a branch makes is nobody else's.
LEMMA Targets ==
  /\ None \notin Calls /\ MaxReleases \in Nat
  /\ KindOf \in [Calls -> {"load", "create", "branch", "import", "delete"}]
  /\ \A c \in Calls : SessionOf[c] \in Sessions /\ Target(c) \in Sessions
  /\ \A c \in Calls : KindOf[c] # "branch" => Target(c) = SessionOf[c]
  /\ \A c, d \in Calls : KindOf[c] = "branch" =>
       Target(d) # SessionOf[c] /\ (SessionOf[d] = SessionOf[c] => d = c)
  /\ Commands \subseteq Calls
  /\ \A c \in Calls : c \in Commands <=> KindOf[c] \in {"create", "branch", "delete"}
BY WorkspaceAssumption DEF Sessions, Target, Commands

\* What is not about images leaves them alone; their steps release nothing anew.
LEMMA UploadsKept ==
  ASSUME UploadInv, UploadCall \/ UploadStep
  PROVE  UploadInv' /\ releasing' \subseteq releasing
<1>1. CASE UploadCall
  <2>1. PICK e \in Entries : UploadBegin(e) \/ UploadChunk(e) \/ UploadCommit(e) \/ UploadAbort(e)
    BY <1>1 DEF UploadCall
  <2>2. UploadInv' BY <2>1, UploadCallStep
  <2>3. releasing' = releasing BY <2>1 DEF UploadBegin, UploadChunk, UploadCommit, UploadAbort
  <2> QED BY <2>2, <2>3
<1>2. CASE UploadStep BY <1>2, CommitInv DEF UploadStep
<1> QED BY <1>1, <1>2

\* Every step of the workspace keeps the entries as they should be.
LEMMA UploadsStep ==
  ASSUME UploadInv, EndingInv, Next
  PROVE  UploadInv'
<1>1. UNCHANGED uploadVars => UploadInv'
  BY DEF UploadInv, uploadVars, UploadTypeOK, EntryInv, Listed
<1>2. CASE UploadCall \/ UploadStep BY <1>2, UploadsKept
<1>3. CASE ReleaseUploads
  BY <1>3, UploadReleaseStep DEF ReleaseUploads, EndingInv
<1>4. ASSUME NEW c \in Calls, Continue(c) \/ Await(c) \/ Begin(c) PROVE UNCHANGED uploadVars
  <2>1. CASE Continue(c) BY <2>1 DEF Continue, AfterScan, Loaded, Unwound, Deleted, Replaced
  <2>2. CASE Await(c)
    BY <2>2 DEF Await, Dispatch, SourceRead, Started, Register, FactsRead, Branched, ChildStarted,
                ChildRead, ChildSaved
  <2> QED BY <1>4, <2>1, <2>2 DEF Begin
<1>5. ASSUME NEW s \in Sessions,
    CloseEnds(s) \/ PiExits(s) \/ RecordClosed(s) PROVE UNCHANGED uploadVars
  BY <1>5 DEF CloseEnds, PiExits, RecordClosed
<1>6. CASE ScanEnds \/ DisposeWorkspace \/ ReleaseStarts \/ DrainStarts \/ CloseLate \/ ReleaseEnds
  <2> UNCHANGED uploadVars
    BY <1>6 DEF ScanEnds, DisposeWorkspace, ReleaseStarts, DrainStarts, CloseLate, ReleaseEnds,
        CloseOwned
  <2> QED BY <1>1
<1> QED BY <1>1, <1>2, <1>3, <1>4, <1>5, <1>6 DEF Next, Progress, Request, ReleaseStep

-----------------------------------------------------------------------------
(* Each part of the invariant is kept by every step.                        *)

\* A step keeps the types.
LEMMA TypeOKStep ==
  ASSUME TypeOK, ShutInv, UploadInv', Next
  PROVE  TypeOK'
<1>a. UploadTypeOK' BY DEF UploadInv
<1> USE <1>a, Targets DEF TypeOK
<1>1. ASSUME NEW c \in Calls, Continue(c) PROVE TypeOK'
  <2>1. CASE AfterScan(c) BY <2>1 DEF AfterScan, releaseVars, Current
  <2>2. CASE Loaded(c) BY <2>2 DEF Loaded, releaseVars, CallCloses, RuntimeClosing
  <2>3. CASE Unwound(c) BY <2>3 DEF Unwound, releaseVars, Finished
  <2>4. CASE Deleted(c) BY <2>4 DEF Deleted, releaseVars
  <2>5. CASE Replaced(c) BY <2>5 DEF Replaced, releaseVars
  <2> QED BY <1>1, <2>1, <2>2, <2>3, <2>4, <2>5 DEF Continue
<1>2. ASSUME NEW c \in Calls, Await(c), Quiet PROVE TypeOK'
  <2>1. CASE Dispatch(c) BY <2>1 DEF Dispatch, releaseVars, LoadWorkspace
  <2>2. CASE SourceRead(c) BY <2>2 DEF SourceRead, releaseVars, LoadWorkspace
  <2>3. CASE Started(c) BY <2>3 DEF Started, releaseVars, Finished
  <2>4. CASE Register(c) BY <2>4 DEF Register, releaseVars, CallCloses, RuntimeClosing
  <2>5. CASE FactsRead(c) BY <2>5 DEF FactsRead, releaseVars, Finished, CallCloses, RuntimeClosing
  <2>6. CASE Branched(c) BY <2>6 DEF Branched, releaseVars, CallCloses, RuntimeClosing
  <2>7. CASE ChildStarted(c)
    <3>1. SessionOf[c] \in Sessions OBVIOUS
    <3>2. runtime' \in [Sessions -> {"none", "alive", "closing", "stuck"}]
      BY <2>7, <3>1 DEF ChildStarted, releaseVars
    <3>3. starter' \in [Sessions -> Calls \cup {None}]
      BY <2>7, <3>1 DEF ChildStarted, releaseVars
    <3>4. pc' \in {[pc EXCEPT ![c] = "childHistory"], [pc EXCEPT ![c] = "done"]}
      BY <2>7 DEF ChildStarted, releaseVars
    <3> QED BY <2>7, <3>2, <3>3, <3>4 DEF ChildStarted, releaseVars
  <2>8. CASE ChildRead(c) BY <2>8 DEF ChildRead, releaseVars
  <2>9. CASE ChildSaved(c) BY <2>9 DEF ChildSaved, releaseVars
  <2> QED BY <1>2, <2>1, <2>2, <2>3, <2>4, <2>5, <2>6, <2>7, <2>8, <2>9 DEF Await
<1>3. ASSUME NEW c \in Calls, Begin(c) PROVE TypeOK'
  BY <1>3 DEF Begin, releaseVars, LoadWorkspace
<1>4. ASSUME NEW s \in Sessions, CloseEnds(s) PROVE TypeOK'
  BY <1>4 DEF CloseEnds, AwaitsClose
<1>5. ASSUME NEW s \in Sessions, PiExits(s) PROVE TypeOK'
  BY <1>5 DEF PiExits, releaseVars, callVars
<1>6. ASSUME NEW s \in Sessions, RecordClosed(s) PROVE TypeOK'
  BY <1>6 DEF RecordClosed, callVars
<1>7. CASE ScanEnds
  <2>1. pc' \in [Calls -> {"idle", "ledger", "scanning", "scanned", "joined", "loaded", "source",
                        "starting", "branching", "replacing", "childStart", "childHistory",
                        "childFacts", "deleting", "resuming", "history", "facts", "unwinding",
                        "done"}]
    BY <1>7 DEF ScanEnds, releaseVars
  <2> QED BY <1>7, <2>1 DEF ScanEnds, releaseVars, Sessions
<1>8. CASE DisposeWorkspace /\ Quiet
  BY <1>8 DEF DisposeWorkspace, callVars, Quiet, Microtask
<1>9. CASE ReleaseStarts
  BY <1>9 DEF ReleaseStarts, callVars, CloseOwned, RuntimeClosing
<1>10. CASE DrainStarts /\ Quiet
  <2>1. drained' \in [commands : SUBSET Calls, loads : SUBSET Sessions]
    BY <1>10 DEF DrainStarts, callVars, Commands
  <2> QED BY <1>10, <2>1 DEF DrainStarts, callVars
<1>11. CASE CloseLate /\ Quiet
  BY <1>11 DEF CloseLate, callVars, CloseOwned, RuntimeClosing, Drained, Quiet, Microtask
<1>12. CASE ReleaseUploads
  BY <1>12 DEF ReleaseUploads, callVars
<1>13. CASE ReleaseEnds
  <2>1. generation' \in 0..MaxReleases
    BY <1>13 DEF ReleaseEnds, ShutInv, Fenced
  <2> QED BY <1>13, <2>1 DEF ReleaseEnds
<1>14. CASE UploadCall \/ UploadStep
  BY <1>14 DEF UploadCall, UploadStep, callVars, releaseVars
<1> QED BY <1>1, <1>2, <1>3, <1>4, <1>5, <1>6, <1>7, <1>8, <1>9, <1>10, <1>11, <1>12, <1>13,
    <1>14 DEF Next, Progress, Request, ReleaseStep

\* Calls come to their places, and a close that was answered is taken up at once.
LEMMA CallsInvStep ==
  ASSUME TypeOK, CallsInv, Next
  PROVE  CallsInv'
<1> USE Targets DEF TypeOK, CallsInv, CallInv, AwaitsClose, Closable
<1>1. ASSUME NEW c \in Calls, Continue(c) PROVE CallsInv'
  <2>1. CASE AfterScan(c) BY <2>1 DEF AfterScan, releaseVars, Current
  <2>2. CASE Loaded(c) BY <2>2 DEF Loaded, releaseVars, CallCloses, RuntimeClosing
  <2>3. CASE Unwound(c) BY <2>3 DEF Unwound, releaseVars, Finished
  <2>4. CASE Deleted(c) BY <2>4 DEF Deleted, releaseVars
  <2>5. CASE Replaced(c) BY <2>5 DEF Replaced, releaseVars
  <2> QED BY <1>1, <2>1, <2>2, <2>3, <2>4, <2>5 DEF Continue
<1>2. ASSUME NEW c \in Calls, Await(c), Quiet PROVE CallsInv'
  <2>1. CASE Dispatch(c) BY <2>1 DEF Dispatch, releaseVars, LoadWorkspace
  <2>2. CASE SourceRead(c) BY <2>2 DEF SourceRead, releaseVars, LoadWorkspace
  <2>3. CASE Started(c)
    <3>1. \A x \in Calls : closed[x] = "no" BY <1>2 DEF Quiet, Microtask
    <3>2. closed' = closed BY <2>3 DEF Started, releaseVars
    <3>3. CASE runtime[Target(c)] = "none" /\ starter' = [starter EXCEPT ![Target(c)] = c]
               /\ pc' \in {[pc EXCEPT ![c] = "unwinding"], [pc EXCEPT ![c] = "history"]}
      BY <2>3, <3>1, <3>2, <3>3 DEF Started, releaseVars
    <3>4. CASE Finished(c, FALSE) /\ UNCHANGED runtime
      BY <2>3, <3>1, <3>2, <3>4 DEF Started, releaseVars, Finished
    <3> QED BY <2>3, <3>3, <3>4 DEF Started, releaseVars
  <2>4. CASE Register(c) BY <2>4 DEF Register, releaseVars, CallCloses, RuntimeClosing
  <2>5. CASE FactsRead(c) BY <2>5 DEF FactsRead, releaseVars, Finished, CallCloses, RuntimeClosing
  <2>6. CASE Branched(c) BY <2>6 DEF Branched, releaseVars, CallCloses, RuntimeClosing
  <2>7. CASE ChildStarted(c) BY <2>7 DEF ChildStarted, releaseVars
  <2>8. CASE ChildRead(c) BY <2>8 DEF ChildRead, releaseVars
  <2>9. CASE ChildSaved(c) BY <2>9 DEF ChildSaved, releaseVars
  <2> QED BY <1>2, <2>1, <2>2, <2>3, <2>4, <2>5, <2>6, <2>7, <2>8, <2>9 DEF Await
<1>3. ASSUME NEW c \in Calls, Begin(c) PROVE CallsInv'
  BY <1>3 DEF Begin, releaseVars, LoadWorkspace
<1>4. ASSUME NEW s \in Sessions, CloseEnds(s) PROVE CallsInv'
  BY <1>4 DEF CloseEnds, AwaitsClose
<1>5. ASSUME NEW s \in Sessions, PiExits(s) PROVE CallsInv'
  BY <1>5 DEF PiExits, releaseVars, callVars
<1>6. ASSUME NEW s \in Sessions, RecordClosed(s) PROVE CallsInv'
  BY <1>6 DEF RecordClosed, callVars
<1>7. CASE ScanEnds
  BY <1>7 DEF ScanEnds, releaseVars
<1>8. CASE DisposeWorkspace /\ Quiet
  BY <1>8 DEF DisposeWorkspace, callVars, Quiet, Microtask
<1>9. CASE ReleaseStarts
  BY <1>9 DEF ReleaseStarts, callVars, CloseOwned, RuntimeClosing
<1>10. CASE DrainStarts /\ Quiet
  BY <1>10 DEF DrainStarts, callVars, Quiet, Microtask
<1>11. CASE CloseLate /\ Quiet
  BY <1>11 DEF CloseLate, callVars, CloseOwned, RuntimeClosing, Drained, Quiet, Microtask
<1>12. CASE ReleaseUploads
  BY <1>12 DEF ReleaseUploads, callVars
<1>13. CASE ReleaseEnds
  BY <1>13 DEF ReleaseEnds
<1>14. CASE UploadCall \/ UploadStep
  BY <1>14 DEF UploadCall, UploadStep, callVars, releaseVars
<1> QED BY <1>1, <1>2, <1>3, <1>4, <1>5, <1>6, <1>7, <1>8, <1>9, <1>10, <1>11, <1>12, <1>13,
    <1>14 DEF Next, Progress, Request, ReleaseStep

\* The table of loads stays true.
LEMMA LoaderInvStep ==
  ASSUME TypeOK, CallsInv, LoaderInv, LateInv, Next
  PROVE  LoaderInv'
<1> USE Targets DEF TypeOK, CallsInv, CallInv, LoaderInv, LateInv, Loading
<1>1. ASSUME NEW c \in Calls, Continue(c) PROVE LoaderInv'
  <2>1. CASE AfterScan(c) BY <2>1 DEF AfterScan, releaseVars, Current
  <2>2. CASE Loaded(c) BY <2>2 DEF Loaded, releaseVars, CallCloses, RuntimeClosing
  <2>3. CASE Unwound(c)
    <3>1. pc[c] = "unwinding" BY <2>3 DEF Unwound, releaseVars
    <3>2. UNCHANGED <<bookmarks, scan>> BY <2>3 DEF Unwound, releaseVars
    <3>3. CASE KindOf[c] = "create"
      <4>1. pc' = [pc EXCEPT ![c] = "done"] /\ loader' = loader BY <2>3, <3>3 DEF Unwound,
          releaseVars, Finished
      <4> QED BY <3>1, <3>2, <3>3, <4>1
    <3>4. CASE KindOf[c] # "create"
      <4>1. /\ pc' = [x \in Calls |-> IF x = c \/ (pc[x] = "joined" /\ Target(x) = Target(c))
                                      THEN "done" ELSE pc[x]]
            /\ loader' = [loader EXCEPT ![Target(c)] = None]
        BY <2>3, <3>4 DEF Unwound, releaseVars, Finished
      <4>2. loader[Target(c)] = c BY <3>1, <3>4
      <4> QED BY <3>1, <3>2, <4>1, <4>2
    <3> QED BY <3>3, <3>4
  <2>4. CASE Deleted(c) BY <2>4 DEF Deleted, releaseVars
  <2>5. CASE Replaced(c) BY <2>5 DEF Replaced, releaseVars
  <2> QED BY <1>1, <2>1, <2>2, <2>3, <2>4, <2>5 DEF Continue
<1>2. ASSUME NEW c \in Calls, Await(c), Quiet PROVE LoaderInv'
  <2>1. CASE Dispatch(c) BY <2>1 DEF Dispatch, releaseVars, LoadWorkspace
  <2>2. CASE SourceRead(c) BY <2>2 DEF SourceRead, releaseVars, LoadWorkspace
  <2>3. CASE Started(c) BY <2>3 DEF Started, releaseVars, Finished
  <2>4. CASE Register(c)
    <3>1. pc' \in {[pc EXCEPT ![c] = "facts"], [pc EXCEPT ![c] = "unwinding"]}
      BY <2>4 DEF Register, releaseVars, CallCloses
    <3>2. pc[c] = "history" /\ UNCHANGED <<bookmarks, scan, loader>> BY <2>4 DEF Register,
        releaseVars
    <3> QED BY <3>1, <3>2
  <2>5. CASE FactsRead(c)
    <3>1. pc[c] = "facts" /\ UNCHANGED <<bookmarks, scan>> BY <2>5 DEF FactsRead, releaseVars
    <3>2. CASE pc' = [pc EXCEPT ![c] = "unwinding"] /\ UNCHANGED loader
      BY <3>1, <3>2
    <3>3. CASE Finished(c, TRUE)
      <4>1. CASE KindOf[c] = "create" BY <3>1, <3>3, <4>1 DEF Finished
      <4>2. CASE KindOf[c] # "create"
        <5>1. /\ pc' = [x \in Calls |-> IF x = c \/ (pc[x] = "joined" /\ Target(x) = Target(c))
                                        THEN "loaded" ELSE pc[x]]
              /\ loader' = [loader EXCEPT ![Target(c)] = None]
          BY <3>3, <4>2 DEF Finished
        <5>2. loader[Target(c)] = c BY <3>1, <4>2
        <5> QED BY <3>1, <5>1, <5>2
      <4> QED BY <4>1, <4>2
    <3> QED BY <2>5, <3>2, <3>3 DEF FactsRead, releaseVars, CallCloses
  <2>6. CASE Branched(c) BY <2>6 DEF Branched, releaseVars, CallCloses, RuntimeClosing
  <2>7. CASE ChildStarted(c) BY <2>7 DEF ChildStarted, releaseVars
  <2>8. CASE ChildRead(c) BY <2>8 DEF ChildRead, releaseVars
  <2>9. CASE ChildSaved(c) BY <2>9 DEF ChildSaved, releaseVars
  <2> QED BY <1>2, <2>1, <2>2, <2>3, <2>4, <2>5, <2>6, <2>7, <2>8, <2>9 DEF Await
<1>3. ASSUME NEW c \in Calls, Begin(c) PROVE LoaderInv'
  BY <1>3 DEF Begin, releaseVars, LoadWorkspace
<1>4. ASSUME NEW s \in Sessions, CloseEnds(s) PROVE LoaderInv'
  BY <1>4 DEF CloseEnds, AwaitsClose
<1>5. ASSUME NEW s \in Sessions, PiExits(s) PROVE LoaderInv'
  BY <1>5 DEF PiExits, releaseVars, callVars
<1>6. ASSUME NEW s \in Sessions, RecordClosed(s) PROVE LoaderInv'
  BY <1>6 DEF RecordClosed, callVars
<1>7. CASE ScanEnds
  BY <1>7 DEF ScanEnds, releaseVars
<1>8. CASE DisposeWorkspace /\ Quiet
  BY <1>8 DEF DisposeWorkspace, callVars, Quiet, Microtask
<1>9. CASE ReleaseStarts
  BY <1>9 DEF ReleaseStarts, callVars, CloseOwned, RuntimeClosing
<1>10. CASE DrainStarts /\ Quiet
  BY <1>10 DEF DrainStarts, callVars, Quiet, Microtask
<1>11. CASE CloseLate /\ Quiet
  BY <1>11 DEF CloseLate, callVars, CloseOwned, RuntimeClosing, Drained, Quiet, Microtask
<1>12. CASE ReleaseUploads
  BY <1>12 DEF ReleaseUploads, callVars
<1>13. CASE ReleaseEnds
  BY <1>13 DEF ReleaseEnds
<1>14. CASE UploadCall \/ UploadStep
  BY <1>14 DEF UploadCall, UploadStep, callVars, releaseVars
<1> QED BY <1>1, <1>2, <1>3, <1>4, <1>5, <1>6, <1>7, <1>8, <1>9, <1>10, <1>11, <1>12, <1>13,
    <1>14 DEF Next, Progress, Request, ReleaseStep

\* Nothing gets past the fence.
LEMMA ShutInvStep ==
  ASSUME TypeOK, ShutInv, LoaderInv, Next
  PROVE  ShutInv'
<1> USE Targets DEF TypeOK, ShutInv, Fenced
<1>1. ASSUME NEW c \in Calls, Continue(c) PROVE ShutInv'
  <2>1. CASE AfterScan(c) BY <2>1 DEF AfterScan, releaseVars, Current
  <2>2. CASE Loaded(c) BY <2>2 DEF Loaded, releaseVars, CallCloses, RuntimeClosing
  <2>3. CASE Unwound(c) BY <2>3 DEF Unwound, releaseVars, Finished
  <2>4. CASE Deleted(c) BY <2>4 DEF Deleted, releaseVars
  <2>5. CASE Replaced(c) BY <2>5 DEF Replaced, releaseVars
  <2> QED BY <1>1, <2>1, <2>2, <2>3, <2>4, <2>5 DEF Continue
<1>2. ASSUME NEW c \in Calls, Await(c), Quiet PROVE ShutInv'
  <2>1. CASE Dispatch(c) BY <2>1 DEF Dispatch, releaseVars, LoadWorkspace
  <2>2. CASE SourceRead(c) BY <2>2 DEF SourceRead, releaseVars, LoadWorkspace
  <2>3. CASE Started(c) BY <2>3 DEF Started, releaseVars, Finished
  <2>4. CASE Register(c) BY <2>4 DEF Register, releaseVars, CallCloses, RuntimeClosing
  <2>5. CASE FactsRead(c) BY <2>5 DEF FactsRead, releaseVars, Finished, CallCloses, RuntimeClosing
  <2>6. CASE Branched(c) BY <2>6 DEF Branched, releaseVars, CallCloses, RuntimeClosing
  <2>7. CASE ChildStarted(c) BY <2>7 DEF ChildStarted, releaseVars
  <2>8. CASE ChildRead(c) BY <2>8 DEF ChildRead, releaseVars
  <2>9. CASE ChildSaved(c) BY <2>9 DEF ChildSaved, releaseVars
  <2> QED BY <1>2, <2>1, <2>2, <2>3, <2>4, <2>5, <2>6, <2>7, <2>8, <2>9 DEF Await
<1>3. ASSUME NEW c \in Calls, Begin(c) PROVE ShutInv'
  BY <1>3 DEF Begin, releaseVars, LoadWorkspace
<1>4. ASSUME NEW s \in Sessions, CloseEnds(s) PROVE ShutInv'
  BY <1>4 DEF CloseEnds, AwaitsClose
<1>5. ASSUME NEW s \in Sessions, PiExits(s) PROVE ShutInv'
  BY <1>5 DEF PiExits, releaseVars, callVars
<1>6. ASSUME NEW s \in Sessions, RecordClosed(s) PROVE ShutInv'
  BY <1>6 DEF RecordClosed, callVars
<1>7. CASE ScanEnds
  BY <1>7 DEF ScanEnds, releaseVars
<1>8. CASE DisposeWorkspace /\ Quiet
  BY <1>8 DEF DisposeWorkspace, callVars, Quiet, Microtask
<1>9. CASE ReleaseStarts
  BY <1>9 DEF ReleaseStarts, callVars, CloseOwned, RuntimeClosing
<1>10. CASE DrainStarts /\ Quiet
  BY <1>10 DEF DrainStarts, callVars, Quiet, Microtask
<1>11. CASE CloseLate /\ Quiet
  BY <1>11 DEF CloseLate, callVars, CloseOwned, RuntimeClosing, Drained, Quiet, Microtask
<1>12. CASE ReleaseUploads
  BY <1>12 DEF ReleaseUploads, callVars
<1>13. CASE ReleaseEnds
  BY <1>13 DEF ReleaseEnds
<1>14. CASE UploadCall \/ UploadStep
  BY <1>14 DEF UploadCall, UploadStep, callVars, releaseVars
<1> QED BY <1>1, <1>2, <1>3, <1>4, <1>5, <1>6, <1>7, <1>8, <1>9, <1>10, <1>11, <1>12, <1>13,
    <1>14 DEF Next, Progress, Request, ReleaseStep

\* Nothing is added to what the release waits for.
LEMMA DrainInvStep ==
  ASSUME TypeOK, CallsInv, LoaderInv, ShutInv, DrainInv, Next
  PROVE  DrainInv'
<1> USE Targets DEF TypeOK, CallsInv, CallInv, ShutInv, DrainInv, Fenced
<1>1. ASSUME NEW c \in Calls, Continue(c) PROVE DrainInv'
  <2>1. CASE AfterScan(c) BY <2>1 DEF AfterScan, releaseVars, Current
  <2>2. CASE Loaded(c) BY <2>2 DEF Loaded, releaseVars, CallCloses, RuntimeClosing
  <2>3. CASE Unwound(c) BY <2>3 DEF Unwound, releaseVars, Finished
  <2>4. CASE Deleted(c) BY <2>4 DEF Deleted, releaseVars
  <2>5. CASE Replaced(c) BY <2>5 DEF Replaced, releaseVars
  <2> QED BY <1>1, <2>1, <2>2, <2>3, <2>4, <2>5 DEF Continue
<1>2. ASSUME NEW c \in Calls, Await(c), Quiet PROVE DrainInv'
  <2>1. CASE Dispatch(c) BY <2>1 DEF Dispatch, releaseVars, LoadWorkspace
  <2>2. CASE SourceRead(c) BY <2>2 DEF SourceRead, releaseVars, LoadWorkspace
  <2>3. CASE Started(c) BY <2>3 DEF Started, releaseVars, Finished
  <2>4. CASE Register(c) BY <2>4 DEF Register, releaseVars, CallCloses, RuntimeClosing
  <2>5. CASE FactsRead(c) BY <2>5 DEF FactsRead, releaseVars, Finished, CallCloses, RuntimeClosing
  <2>6. CASE Branched(c) BY <2>6 DEF Branched, releaseVars, CallCloses, RuntimeClosing
  <2>7. CASE ChildStarted(c) BY <2>7 DEF ChildStarted, releaseVars
  <2>8. CASE ChildRead(c) BY <2>8 DEF ChildRead, releaseVars
  <2>9. CASE ChildSaved(c) BY <2>9 DEF ChildSaved, releaseVars
  <2> QED BY <1>2, <2>1, <2>2, <2>3, <2>4, <2>5, <2>6, <2>7, <2>8, <2>9 DEF Await
<1>3. ASSUME NEW c \in Calls, Begin(c) PROVE DrainInv'
  BY <1>3 DEF Begin, releaseVars, LoadWorkspace
<1>4. ASSUME NEW s \in Sessions, CloseEnds(s) PROVE DrainInv'
  BY <1>4 DEF CloseEnds, AwaitsClose
<1>5. ASSUME NEW s \in Sessions, PiExits(s) PROVE DrainInv'
  BY <1>5 DEF PiExits, releaseVars, callVars
<1>6. ASSUME NEW s \in Sessions, RecordClosed(s) PROVE DrainInv'
  BY <1>6 DEF RecordClosed, callVars
<1>7. CASE ScanEnds
  BY <1>7 DEF ScanEnds, releaseVars
<1>8. CASE DisposeWorkspace /\ Quiet
  BY <1>8 DEF DisposeWorkspace, callVars, Quiet, Microtask
<1>9. CASE ReleaseStarts
  BY <1>9 DEF ReleaseStarts, callVars, CloseOwned, RuntimeClosing
<1>10. CASE DrainStarts /\ Quiet
  <2>1. drained' = [commands |-> {c \in Commands : pc[c] \notin {"idle", "done"}},
                    loads |-> {s \in bookmarks : loader[s] # None}]
    BY <1>10 DEF DrainStarts, callVars
  <2>2. \A s \in Sessions : loader[s] # None => s \in bookmarks BY DEF LoaderInv
  <2>3. pc' = pc /\ loader' = loader BY <1>10 DEF DrainStarts, callVars
  <2> QED BY <2>1, <2>2, <2>3
<1>11. CASE CloseLate /\ Quiet
  BY <1>11 DEF CloseLate, callVars, CloseOwned, RuntimeClosing, Drained, Quiet, Microtask
<1>12. CASE ReleaseUploads
  BY <1>12 DEF ReleaseUploads, callVars
<1>13. CASE ReleaseEnds
  BY <1>13 DEF ReleaseEnds
<1>14. CASE UploadCall \/ UploadStep
  BY <1>14 DEF UploadCall, UploadStep, callVars, releaseVars
<1> QED BY <1>1, <1>2, <1>3, <1>4, <1>5, <1>6, <1>7, <1>8, <1>9, <1>10, <1>11, <1>12, <1>13,
    <1>14 DEF Next, Progress, Request, ReleaseStep

\* Nothing is left when the release has waited, but imports.
LEMMA LateInvStep ==
  ASSUME TypeOK, CallsInv, LoaderInv, ShutInv, DrainInv, LateInv, Next
  PROVE  LateInv'
<1> USE Targets DEF TypeOK, CallsInv, CallInv, ShutInv, LateInv, Fenced
<1>1. ASSUME NEW c \in Calls, Continue(c) PROVE LateInv'
  <2>1. CASE AfterScan(c) BY <2>1 DEF AfterScan, releaseVars, Current
  <2>2. CASE Loaded(c) BY <2>2 DEF Loaded, releaseVars, CallCloses, RuntimeClosing
  <2>3. CASE Unwound(c) BY <2>3 DEF Unwound, releaseVars, Finished
  <2>4. CASE Deleted(c) BY <2>4 DEF Deleted, releaseVars
  <2>5. CASE Replaced(c) BY <2>5 DEF Replaced, releaseVars
  <2> QED BY <1>1, <2>1, <2>2, <2>3, <2>4, <2>5 DEF Continue
<1>2. ASSUME NEW c \in Calls, Await(c), Quiet PROVE LateInv'
  <2>1. CASE Dispatch(c) BY <2>1 DEF Dispatch, releaseVars, LoadWorkspace
  <2>2. CASE SourceRead(c) BY <2>2 DEF SourceRead, releaseVars, LoadWorkspace
  <2>3. CASE Started(c) BY <2>3 DEF Started, releaseVars, Finished
  <2>4. CASE Register(c) BY <2>4 DEF Register, releaseVars, CallCloses, RuntimeClosing
  <2>5. CASE FactsRead(c) BY <2>5 DEF FactsRead, releaseVars, Finished, CallCloses, RuntimeClosing
  <2>6. CASE Branched(c) BY <2>6 DEF Branched, releaseVars, CallCloses, RuntimeClosing
  <2>7. CASE ChildStarted(c) BY <2>7 DEF ChildStarted, releaseVars
  <2>8. CASE ChildRead(c) BY <2>8 DEF ChildRead, releaseVars
  <2>9. CASE ChildSaved(c) BY <2>9 DEF ChildSaved, releaseVars
  <2> QED BY <1>2, <2>1, <2>2, <2>3, <2>4, <2>5, <2>6, <2>7, <2>8, <2>9 DEF Await
<1>3. ASSUME NEW c \in Calls, Begin(c) PROVE LateInv'
  BY <1>3 DEF Begin, releaseVars, LoadWorkspace
<1>4. ASSUME NEW s \in Sessions, CloseEnds(s) PROVE LateInv'
  BY <1>4 DEF CloseEnds, AwaitsClose
<1>5. ASSUME NEW s \in Sessions, PiExits(s) PROVE LateInv'
  BY <1>5 DEF PiExits, releaseVars, callVars
<1>6. ASSUME NEW s \in Sessions, RecordClosed(s) PROVE LateInv'
  BY <1>6 DEF RecordClosed, callVars
<1>7. CASE ScanEnds
  BY <1>7 DEF ScanEnds, releaseVars
<1>8. CASE DisposeWorkspace /\ Quiet
  BY <1>8 DEF DisposeWorkspace, callVars, Quiet, Microtask
<1>9. CASE ReleaseStarts
  BY <1>9 DEF ReleaseStarts, callVars, CloseOwned, RuntimeClosing
<1>10. CASE DrainStarts /\ Quiet
  BY <1>10 DEF DrainStarts, callVars, Quiet, Microtask
<1>11. CASE CloseLate /\ Quiet
  <2>1. closure = "draining" /\ pc' = pc BY <1>11 DEF CloseLate, CloseOwned, callVars
  <2>2. \A c \in Commands : pc[c] \in {"idle", "done"}
    BY <1>11, <2>1 DEF DrainInv, CloseLate, Drained
  <2>3. \A s \in Sessions : loader[s] = None BY <1>11, <2>1 DEF DrainInv, CloseLate, Drained
  <2>4. \A c \in Calls : pc[c] \notin {"scanned", "loaded"} BY <1>11 DEF Quiet, Microtask
  <2>5. ASSUME NEW c \in Calls, c \notin Commands PROVE pc[c] \in {"idle", "source", "done"}
    <3>1. pc[c] \notin {"scanning", "joined"} BY <1>11, <2>3 DEF LoaderInv, CloseLate, Drained
    <3>2. pc[c] \notin Loading BY <2>3, <2>5 DEF LoaderInv
    <3> QED BY <2>4, <2>5, <3>1, <3>2 DEF Loading
  <2> QED BY <2>1, <2>2, <2>5
<1>12. CASE ReleaseUploads
  BY <1>12 DEF ReleaseUploads, callVars
<1>13. CASE ReleaseEnds
  BY <1>13 DEF ReleaseEnds
<1>14. CASE UploadCall \/ UploadStep
  BY <1>14 DEF UploadCall, UploadStep, callVars, releaseVars
<1> QED BY <1>1, <1>2, <1>3, <1>4, <1>5, <1>6, <1>7, <1>8, <1>9, <1>10, <1>11, <1>12, <1>13,
    <1>14 DEF Next, Progress, Request, ReleaseStep

\* What is under way was called since the last release.
LEMMA BornInvStep ==
  ASSUME TypeOK, CallsInv, LateInv, BornInv, Next
  PROVE  BornInv'
<1> USE Targets DEF TypeOK, CallsInv, CallInv, LateInv, BornInv
<1>1. ASSUME NEW c \in Calls, Continue(c) PROVE BornInv'
  <2>1. CASE AfterScan(c) BY <2>1 DEF AfterScan, releaseVars, Current
  <2>2. CASE Loaded(c) BY <2>2 DEF Loaded, releaseVars, CallCloses, RuntimeClosing
  <2>3. CASE Unwound(c) BY <2>3 DEF Unwound, releaseVars, Finished
  <2>4. CASE Deleted(c) BY <2>4 DEF Deleted, releaseVars
  <2>5. CASE Replaced(c) BY <2>5 DEF Replaced, releaseVars
  <2> QED BY <1>1, <2>1, <2>2, <2>3, <2>4, <2>5 DEF Continue
<1>2. ASSUME NEW c \in Calls, Await(c), Quiet PROVE BornInv'
  <2>1. CASE Dispatch(c) BY <2>1 DEF Dispatch, releaseVars, LoadWorkspace
  <2>2. CASE SourceRead(c) BY <2>2 DEF SourceRead, releaseVars, LoadWorkspace
  <2>3. CASE Started(c) BY <2>3 DEF Started, releaseVars, Finished
  <2>4. CASE Register(c) BY <2>4 DEF Register, releaseVars, CallCloses, RuntimeClosing
  <2>5. CASE FactsRead(c) BY <2>5 DEF FactsRead, releaseVars, Finished, CallCloses, RuntimeClosing
  <2>6. CASE Branched(c) BY <2>6 DEF Branched, releaseVars, CallCloses, RuntimeClosing
  <2>7. CASE ChildStarted(c) BY <2>7 DEF ChildStarted, releaseVars
  <2>8. CASE ChildRead(c) BY <2>8 DEF ChildRead, releaseVars
  <2>9. CASE ChildSaved(c) BY <2>9 DEF ChildSaved, releaseVars
  <2> QED BY <1>2, <2>1, <2>2, <2>3, <2>4, <2>5, <2>6, <2>7, <2>8, <2>9 DEF Await
<1>3. ASSUME NEW c \in Calls, Begin(c) PROVE BornInv'
  BY <1>3 DEF Begin, releaseVars, LoadWorkspace
<1>4. ASSUME NEW s \in Sessions, CloseEnds(s) PROVE BornInv'
  BY <1>4 DEF CloseEnds, AwaitsClose
<1>5. ASSUME NEW s \in Sessions, PiExits(s) PROVE BornInv'
  BY <1>5 DEF PiExits, releaseVars, callVars
<1>6. ASSUME NEW s \in Sessions, RecordClosed(s) PROVE BornInv'
  BY <1>6 DEF RecordClosed, callVars
<1>7. CASE ScanEnds
  BY <1>7 DEF ScanEnds, releaseVars
<1>8. CASE DisposeWorkspace /\ Quiet
  BY <1>8 DEF DisposeWorkspace, callVars, Quiet, Microtask
<1>9. CASE ReleaseStarts
  BY <1>9 DEF ReleaseStarts, callVars, CloseOwned, RuntimeClosing
<1>10. CASE DrainStarts /\ Quiet
  BY <1>10 DEF DrainStarts, callVars, Quiet, Microtask
<1>11. CASE CloseLate /\ Quiet
  BY <1>11 DEF CloseLate, callVars, CloseOwned, RuntimeClosing, Drained, Quiet, Microtask
<1>12. CASE ReleaseUploads
  BY <1>12 DEF ReleaseUploads, callVars
<1>13. CASE ReleaseEnds
  BY <1>13 DEF ReleaseEnds
<1>14. CASE UploadCall \/ UploadStep
  BY <1>14 DEF UploadCall, UploadStep, callVars, releaseVars
<1> QED BY <1>1, <1>2, <1>3, <1>4, <1>5, <1>6, <1>7, <1>8, <1>9, <1>10, <1>11, <1>12, <1>13,
    <1>14 DEF Next, Progress, Request, ReleaseStep

\* The closes of a release are accounted for.
LEMMA EndingInvStep ==
  ASSUME TypeOK, UploadInv, CallsInv, LateInv, EndingInv, Next
  PROVE  EndingInv'
<1> USE Targets DEF TypeOK, LateInv, EndingInv, OwnedClosed, uploadVars
<1>1. ASSUME NEW c \in Calls, Continue(c) PROVE EndingInv'
  <2>1. CASE AfterScan(c) BY <2>1 DEF AfterScan, releaseVars, Current
  <2>2. CASE Loaded(c) BY <2>2 DEF Loaded, releaseVars, CallCloses, RuntimeClosing
  <2>3. CASE Unwound(c) BY <2>3 DEF Unwound, releaseVars, Finished
  <2>4. CASE Deleted(c) BY <2>4 DEF Deleted, releaseVars
  <2>5. CASE Replaced(c) BY <2>5 DEF Replaced, releaseVars
  <2> QED BY <1>1, <2>1, <2>2, <2>3, <2>4, <2>5 DEF Continue
<1>2. ASSUME NEW c \in Calls, Await(c), Quiet PROVE EndingInv'
  <2>1. CASE Dispatch(c) BY <2>1 DEF Dispatch, releaseVars, LoadWorkspace
  <2>2. CASE SourceRead(c) BY <2>2 DEF SourceRead, releaseVars, LoadWorkspace
  <2>3. CASE Started(c) BY <2>3 DEF Started, releaseVars, Finished
  <2>4. CASE Register(c) BY <2>4 DEF Register, releaseVars, CallCloses, RuntimeClosing
  <2>5. CASE FactsRead(c) BY <2>5 DEF FactsRead, releaseVars, Finished, CallCloses, RuntimeClosing
  <2>6. CASE Branched(c) BY <2>6 DEF Branched, releaseVars, CallCloses, RuntimeClosing
  <2>7. CASE ChildStarted(c) BY <2>7 DEF ChildStarted, releaseVars
  <2>8. CASE ChildRead(c) BY <2>8 DEF ChildRead, releaseVars
  <2>9. CASE ChildSaved(c) BY <2>9 DEF ChildSaved, releaseVars
  <2> QED BY <1>2, <2>1, <2>2, <2>3, <2>4, <2>5, <2>6, <2>7, <2>8, <2>9 DEF Await
<1>3. ASSUME NEW c \in Calls, Begin(c) PROVE EndingInv'
  BY <1>3 DEF Begin, releaseVars, LoadWorkspace
<1>4. ASSUME NEW s \in Sessions, CloseEnds(s) PROVE EndingInv'
  BY <1>4 DEF CloseEnds, AwaitsClose
<1>5. ASSUME NEW s \in Sessions, PiExits(s) PROVE EndingInv'
  BY <1>5 DEF PiExits, releaseVars, callVars
<1>6. ASSUME NEW s \in Sessions, RecordClosed(s) PROVE EndingInv'
  BY <1>6 DEF RecordClosed, callVars
<1>7. CASE ScanEnds
  BY <1>7 DEF ScanEnds, releaseVars
<1>8. CASE DisposeWorkspace /\ Quiet
  BY <1>8 DEF DisposeWorkspace, callVars, Quiet, Microtask
<1>9. CASE ReleaseStarts
  <2>1. \A s \in Sessions : runtime'[s] = IF s \in records /\ runtime[s] \in {"alive",
      "stuck"} THEN "closing"
                                         ELSE runtime[s]
    BY <1>9 DEF ReleaseStarts, callVars, CloseOwned, RuntimeClosing, Closable
  <2>2. \A s \in Sessions : ending'[s] = IF s \notin records THEN "no"
                                        ELSE IF runtime[s] = "none" THEN "ended" ELSE "waiting"
    BY <1>9 DEF ReleaseStarts, callVars, CloseOwned
  <2>3. closure' = "closing" /\ records' = records /\ releasing' = releasing /\ releasing = {}
    BY <1>9 DEF ReleaseStarts, callVars, CloseOwned
  <2> QED BY <2>1, <2>2, <2>3
<1>10. CASE DrainStarts /\ Quiet
  BY <1>10 DEF DrainStarts, callVars, Quiet, Microtask
<1>11. CASE CloseLate /\ Quiet
  <2>1. \A s \in Sessions : runtime'[s] = IF s \in records /\ runtime[s] \in {"alive",
      "stuck"} THEN "closing"
                                         ELSE runtime[s]
    BY <1>11 DEF CloseLate, callVars, CloseOwned, RuntimeClosing, Closable
  <2>2. \A s \in Sessions : ending'[s] = IF s \notin records THEN "no"
                                        ELSE IF runtime[s] = "none" THEN "ended" ELSE "waiting"
    BY <1>11 DEF CloseLate, callVars, CloseOwned
  <2>3. closure' = "closingLate" /\ records' = records /\ releasing' = releasing /\ releasing = {}
    BY <1>11 DEF CloseLate, callVars, CloseOwned
  <2> QED BY <2>1, <2>2, <2>3
<1>12. CASE ReleaseUploads
  BY <1>12 DEF ReleaseUploads, UploadReleaseBegin, callVars
<1>13. CASE ReleaseEnds
  BY <1>13 DEF ReleaseEnds
<1>14. CASE UploadCall \/ UploadStep
  BY <1>14, UploadsKept DEF UploadCall, UploadStep, callVars, releaseVars
<1> QED BY <1>1, <1>2, <1>3, <1>4, <1>5, <1>6, <1>7, <1>8, <1>9, <1>10, <1>11, <1>12, <1>13,
    <1>14 DEF Next, Progress, Request, ReleaseStep

\* The child of a branch stays new.
LEMMA ChildInvStep ==
  ASSUME TypeOK, CallsInv, ChildInv, Next
  PROVE  ChildInv'
<1> USE Targets DEF TypeOK, CallsInv, CallInv, ChildInv
<1>1. ASSUME NEW c \in Calls, Continue(c) PROVE ChildInv'
  <2>1. CASE AfterScan(c) BY <2>1 DEF AfterScan, releaseVars, Current
  <2>2. CASE Loaded(c) BY <2>2 DEF Loaded, releaseVars, CallCloses, RuntimeClosing
  <2>3. CASE Unwound(c) BY <2>3 DEF Unwound, releaseVars, Finished
  <2>4. CASE Deleted(c) BY <2>4 DEF Deleted, releaseVars
  <2>5. CASE Replaced(c) BY <2>5 DEF Replaced, releaseVars
  <2> QED BY <1>1, <2>1, <2>2, <2>3, <2>4, <2>5 DEF Continue
<1>2. ASSUME NEW c \in Calls, Await(c), Quiet PROVE ChildInv'
  <2>1. CASE Dispatch(c) BY <2>1 DEF Dispatch, releaseVars, LoadWorkspace
  <2>2. CASE SourceRead(c) BY <2>2 DEF SourceRead, releaseVars, LoadWorkspace
  <2>3. CASE Started(c) BY <2>3 DEF Started, releaseVars, Finished
  <2>4. CASE Register(c) BY <2>4 DEF Register, releaseVars, CallCloses, RuntimeClosing
  <2>5. CASE FactsRead(c) BY <2>5 DEF FactsRead, releaseVars, Finished, CallCloses, RuntimeClosing
  <2>6. CASE Branched(c) BY <2>6 DEF Branched, releaseVars, CallCloses, RuntimeClosing
  <2>7. CASE ChildStarted(c) BY <2>7 DEF ChildStarted, releaseVars
  <2>8. CASE ChildRead(c) BY <2>8 DEF ChildRead, releaseVars
  <2>9. CASE ChildSaved(c) BY <2>9 DEF ChildSaved, releaseVars
  <2> QED BY <1>2, <2>1, <2>2, <2>3, <2>4, <2>5, <2>6, <2>7, <2>8, <2>9 DEF Await
<1>3. ASSUME NEW c \in Calls, Begin(c) PROVE ChildInv'
  BY <1>3 DEF Begin, releaseVars, LoadWorkspace
<1>4. ASSUME NEW s \in Sessions, CloseEnds(s) PROVE ChildInv'
  BY <1>4 DEF CloseEnds, AwaitsClose
<1>5. ASSUME NEW s \in Sessions, PiExits(s) PROVE ChildInv'
  BY <1>5 DEF PiExits, releaseVars, callVars
<1>6. ASSUME NEW s \in Sessions, RecordClosed(s) PROVE ChildInv'
  BY <1>6 DEF RecordClosed, callVars
<1>7. CASE ScanEnds
  BY <1>7 DEF ScanEnds, releaseVars
<1>8. CASE DisposeWorkspace /\ Quiet
  BY <1>8 DEF DisposeWorkspace, callVars, Quiet, Microtask
<1>9. CASE ReleaseStarts
  <2>1. \A s \in Sessions : s \notin records => ending'[s] = "no"
    BY <1>9 DEF ReleaseStarts, callVars, CloseOwned
  <2> QED BY <1>9, <2>1 DEF ReleaseStarts, CloseOwned, callVars
<1>10. CASE DrainStarts /\ Quiet
  BY <1>10 DEF DrainStarts, callVars, Quiet, Microtask
<1>11. CASE CloseLate /\ Quiet
  <2>1. \A s \in Sessions : s \notin records => ending'[s] = "no"
    BY <1>11 DEF CloseLate, callVars, CloseOwned
  <2> QED BY <1>11, <2>1 DEF CloseLate, CloseOwned, callVars
<1>12. CASE ReleaseUploads
  BY <1>12 DEF ReleaseUploads, callVars
<1>13. CASE ReleaseEnds
  BY <1>13 DEF ReleaseEnds
<1>14. CASE UploadCall \/ UploadStep
  BY <1>14 DEF UploadCall, UploadStep, callVars, releaseVars
<1> QED BY <1>1, <1>2, <1>3, <1>4, <1>5, <1>6, <1>7, <1>8, <1>9, <1>10, <1>11, <1>12, <1>13,
    <1>14 DEF Next, Progress, Request, ReleaseStep

\* Whatever runs has an owner, but for the exceptions.
LEMMA OwnerInvStep ==
  ASSUME TypeOK, CallsInv, EndingInv, ChildInv, OwnerInv, Next
  PROVE  OwnerInv'
<1> USE Targets DEF TypeOK, CallsInv, CallInv, OwnerInv
<1>1. ASSUME NEW c \in Calls, Continue(c) PROVE OwnerInv'
  <2>1. CASE AfterScan(c) BY <2>1 DEF AfterScan, releaseVars, Current
  <2>2. CASE Loaded(c) BY <2>2 DEF Loaded, releaseVars, CallCloses, RuntimeClosing
  <2>3. CASE Unwound(c) BY <2>3 DEF Unwound, releaseVars, Finished
  <2>4. CASE Deleted(c) BY <2>4 DEF Deleted, releaseVars
  <2>5. CASE Replaced(c) BY <2>5 DEF Replaced, releaseVars
  <2> QED BY <1>1, <2>1, <2>2, <2>3, <2>4, <2>5 DEF Continue
<1>2. ASSUME NEW c \in Calls, Await(c), Quiet PROVE OwnerInv'
  <2>1. CASE Dispatch(c) BY <2>1 DEF Dispatch, releaseVars, LoadWorkspace
  <2>2. CASE SourceRead(c) BY <2>2 DEF SourceRead, releaseVars, LoadWorkspace
  <2>3. CASE Started(c) BY <2>3 DEF Started, releaseVars, Finished
  <2>4. CASE Register(c)
    <3>1. CASE records' = records \cup {Target(c)} /\ UNCHANGED <<runtime, closed>> /\ ~Fenced
               /\ pc' = [pc EXCEPT ![c] = "facts"]
      <4>1. ending[Target(c)] = "no" BY <3>1 DEF EndingInv, OwnedClosed, Fenced
      <4>2. ending' = ending /\ orphans' = orphans /\ pc[c] = "history" BY <2>4 DEF Register,
          releaseVars
      <4> QED BY <3>1, <4>1, <4>2
    <3>2. CASE CallCloses(c, Target(c), "unwinding") /\ UNCHANGED records
      <4>1. ending' = ending /\ orphans' = orphans BY <2>4 DEF Register, releaseVars
      <4>2. runtime'[Target(c)] # "alive"
        BY <3>2 DEF CallCloses, RuntimeClosing, Closable
      <4>3. \A s \in Sessions : runtime'[s] = "alive" => runtime[s] = "alive" /\ s # Target(c)
        BY <3>2, <4>2 DEF CallCloses, RuntimeClosing
      <4>4. pc' = [pc EXCEPT ![c] = "unwinding"] BY <3>2 DEF CallCloses
      <4>5. pc[c] = "history" BY <2>4 DEF Register, releaseVars
      <4> QED BY <3>2, <4>1, <4>3, <4>4, <4>5
    <3> QED BY <2>4, <3>1, <3>2 DEF Register, releaseVars
  <2>5. CASE FactsRead(c) BY <2>5 DEF FactsRead, releaseVars, Finished, CallCloses, RuntimeClosing
  <2>6. CASE Branched(c) BY <2>6 DEF Branched, releaseVars, CallCloses, RuntimeClosing
  <2>7. CASE ChildStarted(c) BY <2>7 DEF ChildStarted, releaseVars
  <2>8. CASE ChildRead(c)
    <3>1. ending' = ending /\ runtime' = runtime /\ pc[c] = "childHistory" BY <2>8 DEF ChildRead,
        releaseVars
    <3>2. CASE records' = records \cup {SessionOf[c]} /\ pc' = [pc EXCEPT ![c] = "childFacts"]
               /\ UNCHANGED orphans
      <4>1. ending[SessionOf[c]] = "no" BY <3>1 DEF ChildInv
      <4> QED BY <3>1, <3>2, <4>1
    <3>3. CASE orphans' = orphans \cup {SessionOf[c]} /\ pc' = [pc EXCEPT ![c] = "done"]
               /\ UNCHANGED records
      BY <3>1, <3>3
    <3> QED BY <2>8, <3>2, <3>3 DEF ChildRead, releaseVars
  <2>9. CASE ChildSaved(c) BY <2>9 DEF ChildSaved, releaseVars
  <2> QED BY <1>2, <2>1, <2>2, <2>3, <2>4, <2>5, <2>6, <2>7, <2>8, <2>9 DEF Await
<1>3. ASSUME NEW c \in Calls, Begin(c) PROVE OwnerInv'
  BY <1>3 DEF Begin, releaseVars, LoadWorkspace
<1>4. ASSUME NEW s \in Sessions, CloseEnds(s) PROVE OwnerInv'
  BY <1>4 DEF CloseEnds, AwaitsClose
<1>5. ASSUME NEW s \in Sessions, PiExits(s) PROVE OwnerInv'
  BY <1>5 DEF PiExits, releaseVars, callVars
<1>6. ASSUME NEW s \in Sessions, RecordClosed(s) PROVE OwnerInv'
  BY <1>6 DEF RecordClosed, callVars
<1>7. CASE ScanEnds
  BY <1>7 DEF ScanEnds, releaseVars
<1>8. CASE DisposeWorkspace /\ Quiet
  BY <1>8 DEF DisposeWorkspace, callVars, Quiet, Microtask
<1>9. CASE ReleaseStarts
  <2>1. \A s \in Sessions : runtime'[s] = IF s \in records /\ runtime[s] \in {"alive",
      "stuck"} THEN "closing"
                                         ELSE runtime[s]
    BY <1>9 DEF ReleaseStarts, callVars, CloseOwned, RuntimeClosing, Closable
  <2>2. \A s \in Sessions : ending'[s] = IF s \notin records THEN "no"
                                        ELSE IF runtime[s] = "none" THEN "ended" ELSE "waiting"
    BY <1>9 DEF ReleaseStarts, callVars, CloseOwned
  <2>3. pc' = pc /\ orphans' = orphans BY <1>9 DEF ReleaseStarts, CloseOwned, callVars
  <2> QED BY <2>1, <2>2, <2>3
<1>10. CASE DrainStarts /\ Quiet
  BY <1>10 DEF DrainStarts, callVars, Quiet, Microtask
<1>11. CASE CloseLate /\ Quiet
  <2>1. \A s \in Sessions : runtime'[s] = IF s \in records /\ runtime[s] \in {"alive",
      "stuck"} THEN "closing"
                                         ELSE runtime[s]
    BY <1>11 DEF CloseLate, callVars, CloseOwned, RuntimeClosing, Closable
  <2>2. \A s \in Sessions : ending'[s] = IF s \notin records THEN "no"
                                        ELSE IF runtime[s] = "none" THEN "ended" ELSE "waiting"
    BY <1>11 DEF CloseLate, callVars, CloseOwned
  <2>3. pc' = pc /\ orphans' = orphans BY <1>11 DEF CloseLate, CloseOwned, callVars
  <2> QED BY <2>1, <2>2, <2>3
<1>12. CASE ReleaseUploads
  BY <1>12 DEF ReleaseUploads, callVars
<1>13. CASE ReleaseEnds
  BY <1>13 DEF ReleaseEnds
<1>14. CASE UploadCall \/ UploadStep
  BY <1>14 DEF UploadCall, UploadStep, callVars, releaseVars
<1> QED BY <1>1, <1>2, <1>3, <1>4, <1>5, <1>6, <1>7, <1>8, <1>9, <1>10, <1>11, <1>12, <1>13,
    <1>14 DEF Next, Progress, Request, ReleaseStep

\* What runs or has a record was started since the last release, but for the exceptions.
LEMMA StarterInvStep ==
  ASSUME TypeOK, CallsInv, LateInv, BornInv, EndingInv, OwnerInv, StarterInv, Next
  PROVE  StarterInv'
<1> USE Targets DEF TypeOK, BornInv, StarterInv
<1>1. ASSUME NEW c \in Calls, Continue(c) PROVE StarterInv'
  <2>1. CASE AfterScan(c) BY <2>1 DEF AfterScan, releaseVars, Current
  <2>2. CASE Loaded(c) BY <2>2 DEF Loaded, releaseVars, CallCloses, RuntimeClosing
  <2>3. CASE Unwound(c) BY <2>3 DEF Unwound, releaseVars, Finished
  <2>4. CASE Deleted(c) BY <2>4 DEF Deleted, releaseVars
  <2>5. CASE Replaced(c) BY <2>5 DEF Replaced, releaseVars
  <2> QED BY <1>1, <2>1, <2>2, <2>3, <2>4, <2>5 DEF Continue
<1>2. ASSUME NEW c \in Calls, Await(c), Quiet PROVE StarterInv'
  <2>1. CASE Dispatch(c) BY <2>1 DEF Dispatch, releaseVars, LoadWorkspace
  <2>2. CASE SourceRead(c) BY <2>2 DEF SourceRead, releaseVars, LoadWorkspace
  <2>3. CASE Started(c) BY <2>3 DEF Started, releaseVars, Finished
  <2>4. CASE Register(c) BY <2>4 DEF Register, releaseVars, CallCloses, RuntimeClosing
  <2>5. CASE FactsRead(c) BY <2>5 DEF FactsRead, releaseVars, Finished, CallCloses, RuntimeClosing
  <2>6. CASE Branched(c) BY <2>6 DEF Branched, releaseVars, CallCloses, RuntimeClosing
  <2>7. CASE ChildStarted(c) BY <2>7 DEF ChildStarted, releaseVars
  <2>8. CASE ChildRead(c) BY <2>8 DEF ChildRead, releaseVars
  <2>9. CASE ChildSaved(c) BY <2>9 DEF ChildSaved, releaseVars
  <2> QED BY <1>2, <2>1, <2>2, <2>3, <2>4, <2>5, <2>6, <2>7, <2>8, <2>9 DEF Await
<1>3. ASSUME NEW c \in Calls, Begin(c) PROVE StarterInv'
  BY <1>3 DEF Begin, releaseVars, LoadWorkspace
<1>4. ASSUME NEW s \in Sessions, CloseEnds(s) PROVE StarterInv'
  BY <1>4 DEF CloseEnds, AwaitsClose
<1>5. ASSUME NEW s \in Sessions, PiExits(s) PROVE StarterInv'
  BY <1>5 DEF PiExits, releaseVars, callVars
<1>6. ASSUME NEW s \in Sessions, RecordClosed(s) PROVE StarterInv'
  BY <1>6 DEF RecordClosed, callVars
<1>7. CASE ScanEnds
  BY <1>7 DEF ScanEnds, releaseVars
<1>8. CASE DisposeWorkspace /\ Quiet
  BY <1>8 DEF DisposeWorkspace, callVars, Quiet, Microtask
<1>9. CASE ReleaseStarts
  BY <1>9 DEF ReleaseStarts, callVars, CloseOwned, RuntimeClosing
<1>10. CASE DrainStarts /\ Quiet
  BY <1>10 DEF DrainStarts, callVars, Quiet, Microtask
<1>11. CASE CloseLate /\ Quiet
  BY <1>11 DEF CloseLate, callVars, CloseOwned, RuntimeClosing, Drained, Quiet, Microtask
<1>12. CASE ReleaseUploads
  BY <1>12 DEF ReleaseUploads, callVars
<1>13. CASE ReleaseEnds
  <2>1. records = {} /\ \A c \in Calls : pc[c] \in {"idle", "source", "done"}
    BY <1>13 DEF ReleaseEnds, EndingInv, LateInv
  <2>2. \A s \in Sessions : runtime[s] = "alive" => s \in orphans BY <2>1 DEF OwnerInv
  <2>3. UNCHANGED <<records, runtime, orphans, starter>> BY <1>13 DEF ReleaseEnds
  <2>4. born' = born BY <1>13 DEF ReleaseEnds
  <2> QED BY <2>1, <2>2, <2>3, <2>4
<1>14. CASE UploadCall \/ UploadStep
  BY <1>14 DEF UploadCall, UploadStep, callVars, releaseVars
<1> QED BY <1>1, <1>2, <1>3, <1>4, <1>5, <1>6, <1>7, <1>8, <1>9, <1>10, <1>11, <1>12, <1>13,
    <1>14 DEF Next, Progress, Request, ReleaseStep

-----------------------------------------------------------------------------
(* What a release promises, and what becomes of the files.                 *)

\* Nothing has begun: the parts of the invariant hold.
LEMMA ReleaseInit ==
  ASSUME Init
  PROVE  UploadInv /\ ReleaseInv
<1> USE Targets DEF Init
<1>1. UploadInv BY UploadsAssumption DEF UploadInit, UploadInv, UploadTypeOK, EntryInv, Listed
<1>2. TypeOK BY <1>1 DEF TypeOK, UploadInv
<1>3. CallsInv BY DEF CallsInv, CallInv
<1>4. LoaderInv BY DEF LoaderInv, Loading
<1>5. ShutInv /\ DrainInv /\ LateInv /\ BornInv BY DEF ShutInv, DrainInv, LateInv, BornInv, Fenced
<1>6. EndingInv BY DEF EndingInv, OwnedClosed, UploadInit
<1>7. ChildInv /\ OwnerInv /\ StarterInv BY DEF ChildInv, OwnerInv, StarterInv
<1> QED BY <1>1, <1>2, <1>3, <1>4, <1>5, <1>6, <1>7 DEF ReleaseInv

\* The parts together are kept by every step, and by a stutter.
LEMMA ReleaseStepKeeps ==
  ASSUME UploadInv, ReleaseInv, [Next]_vars
  PROVE  UploadInv' /\ ReleaseInv'
<1>1. CASE Next
  <2> USE <1>1 DEF ReleaseInv
  <2>1. UploadInv' BY UploadsStep
  <2>2. TypeOK' BY <2>1, TypeOKStep
  <2>3. CallsInv' BY CallsInvStep
  <2>4. LoaderInv' BY LoaderInvStep
  <2>5. ShutInv' BY ShutInvStep
  <2>6. DrainInv' BY DrainInvStep
  <2>7. LateInv' BY LateInvStep
  <2>8. BornInv' BY BornInvStep
  <2>9. EndingInv' BY EndingInvStep
  <2>10. ChildInv' BY ChildInvStep
  <2>11. OwnerInv' BY OwnerInvStep
  <2>12. StarterInv' BY StarterInvStep
  <2> QED BY <2>1, <2>2, <2>3, <2>4, <2>5, <2>6, <2>7, <2>8, <2>9, <2>10, <2>11, <2>12
<1>2. CASE UNCHANGED vars
  <2> USE <1>2 DEF vars, uploadVars
  <2>1. UploadInv' BY DEF UploadInv, UploadTypeOK, EntryInv, Listed
  <2>2. TypeOK' BY DEF ReleaseInv, TypeOK, UploadTypeOK
  <2>3. CallsInv' BY DEF ReleaseInv, CallsInv, CallInv, AwaitsClose
  <2>4. LoaderInv' /\ ShutInv' /\ DrainInv' /\ LateInv' /\ BornInv'
    BY DEF ReleaseInv, LoaderInv, ShutInv, DrainInv, LateInv, BornInv, Fenced
  <2>5. EndingInv' /\ ChildInv' /\ OwnerInv' /\ StarterInv'
    BY DEF ReleaseInv, EndingInv, OwnedClosed, ChildInv, OwnerInv, StarterInv
  <2> QED BY <2>1, <2>2, <2>3, <2>4, <2>5 DEF ReleaseInv
<1> QED BY <1>1, <1>2

\* In every state the staged images and the sessions of a workspace are as the parts of
\* the invariant say, whatever calls run beside a release (disposeWorkspace).
THEOREM ReleaseInvariant == Spec => [](UploadInv /\ ReleaseInv)
<1>1. Init => UploadInv /\ ReleaseInv BY ReleaseInit
<1>2. UploadInv /\ ReleaseInv /\ [Next]_vars => (UploadInv /\ ReleaseInv)' BY ReleaseStepKeeps
<1> QED BY <1>1, <1>2, PTL DEF Spec

\* When no release is under way, what runs or has a record belongs to a call made since
\* the last one, or is of an import or of a branch that failed: a release of the
\* workspace is final for all that it fences and waits for.
THEOREM ReleasedForGood == Spec => []ReleaseIsFinal
<1>1. ReleaseInv => ReleaseIsFinal BY DEF ReleaseInv, StarterInv, ReleaseIsFinal
<1> QED BY <1>1, ReleaseInvariant, PTL

\* A ref that was given out has its file, and every whole file belongs to somebody or
\* was reported: neither an abort nor a release leaves one behind.
THEOREM ImagesOwned == Spec => []FilesOwned
<1>1. UploadInv => FilesOwned BY DEF UploadInv, EntryInv, FilesOwned
<1> QED BY <1>1, ReleaseInvariant, PTL

-----------------------------------------------------------------------------
(* Queued images: the invariant.                                           *)

JobRecords ==
  [at : {"catalog", "copy", "confirm", "save", "look", "list", "scan", "next", "unlink"},
   revision : 0..MaxChanges, todo : SUBSET Copies, refs : SUBSET Copies, same : BOOLEAN,
   kept : SUBSET Copies, candidates : SUBSET Copies, before : SUBSET Copies]
Contents == [at : {"none", "write", "written"}, names : Names]
Loads == [on : BOOLEAN, names : Names]
Writes == [of : Records, job : BOOLEAN]

\* The types, with the fields that the type invariant leaves out.
FieldsInv ==
  /\ MediaTypeOK
  /\ job \in JobRecords /\ content \in Contents /\ loading \in Loads

\* The writes and the refreshes are of records there have been; a record to come names
\* nothing; and a session is not loaded while its Pi runs.
PastInv ==
  /\ \A i \in 1..Len(writes) : writes[i].of \in 1..record
  /\ \A i \in 1..Len(chain) : chain[i] \in 1..record
  /\ \A r \in Records : r > record => named[r] = {} /\ interrupted[r] = {}
  /\ alive => ~loading.on
  /\ loading.on => record < MaxRecords
  /\ chain = <<>> => job.at = "catalog"

\* The write at the head, and it alone, sets the disk apart from the memory.
WriteInv ==
  /\ content.at = "none" <=> writes = <<>>
  /\ content.at = "written" => disk = content.names
  /\ content.at # "written" => disk = bookmark

\* One write at most is that of a refresh, which waits for it.  Until a refresh names
\* other copies, whatever is written of the record is what it names.
SaveInv ==
  /\ \A i \in 1..Len(writes) : writes[i].job => job.at = "save"
  /\ \A i, j \in 1..Len(writes) : writes[i].job /\ writes[j].job => i = j
  /\ job.at # "save" /\ writes # <<>> /\ Head(writes).of = record =>
       content.names = [queued |-> named[record], interrupted |-> interrupted[record]]

\* What names a copy: the record, the bookmark on the disk and in memory, a load that
\* has read the bookmark, and a write of the record that is under way.
Named(c) ==
  \/ c \in AllNames(disk) \/ c \in AllNames(bookmark)
  \/ c \in named[record] \/ c \in interrupted[record]
  \/ loading.on /\ c \in AllNames(loading.names)
  \/ writes # <<>> /\ Head(writes).of = record /\ c \in AllNames(content.names)

KeptInv ==
  /\ \A c \in Copies : Named(c) /\ c \notin stale => c \in copies
  /\ \A c \in history : c \notin late => c \in copies
  /\ job.refs \subseteq copies
  /\ job.at # "copy" => job.refs = {}

\* The removal is on its way in the refresh of the record there is, and nothing has
\* happened since it saved.
Removing == chain # <<>> /\ Head(chain) = record /\ job.same

\* While copies are sought that nothing mentions, there is no run to mention one.
QuietInv ==
  job.same =>
    /\ job.at \in {"list", "scan", "next", "unlink"} => ~running
    /\ job.at \in {"next", "unlink"} => job.candidates \cap history = {}

\* The first look finds what the disk names in memory too.
LookInv ==
  Removing /\ job.at = "look" => \A c \in AllNames(disk) :
    c \in stale \cup AllNames(bookmark) \cup named[record] \cup interrupted[record]

\* What is named is kept, or is no candidate.
AimInv ==
  Removing => \A c \in Copies : Named(c) /\ c \notin stale =>
    /\ job.at = "list" => c \in job.kept
    /\ job.at \in {"scan", "next", "unlink"} => c \notin job.candidates

\* And nothing that is named, or was mentioned before the last look, is removed.
UnlinkInv ==
  job.at = "unlink" => \A c \in job.todo :
    /\ Named(c) => c \in stale
    /\ c \in history => c \in late

MediaInv ==
  /\ FieldsInv /\ PastInv /\ WriteInv /\ SaveInv /\ KeptInv
  /\ QuietInv /\ LookInv /\ AimInv /\ UnlinkInv

-----------------------------------------------------------------------------
(* What the helpers of the model do.                                       *)

\* Nothing is of every type.
LEMMA Nothings ==
  /\ NoNames \in Names /\ NoContent \in Contents /\ NoJob \in JobRecords
  /\ NoNames.queued = {} /\ NoNames.interrupted = {}
  /\ NoContent.at = "none" /\ NoContent.names = NoNames
  /\ NoJob.at = "catalog" /\ NoJob.refs = {} /\ ~NoJob.same /\ NoJob.todo = {}
BY MediaAssumption DEF NoNames, NoContent, NoJob, Names, Contents, JobRecords

\* A sequence with one more member has the members it had, and that one at its end.
LEMMA Appended ==
  ASSUME NEW S, NEW seq \in Seq(S), NEW e \in S
  PROVE  /\ Append(seq, e) \in Seq(S) /\ Append(seq, e) # <<>>
         /\ Len(seq) \in Nat /\ Len(Append(seq, e)) = Len(seq) + 1
         /\ \A i \in 1..Len(seq) + 1 : Append(seq, e)[i] = IF i = Len(seq) + 1 THEN e ELSE seq[i]
         /\ Head(Append(seq, e)) = IF seq = <<>> THEN e ELSE Head(seq)
BY AppendProperties, EmptySeq

\* A sequence without its head has its other members, one place further to the front.
LEMMA Shortened ==
  ASSUME NEW S, NEW seq \in Seq(S), seq # <<>>
  PROVE  /\ Head(seq) \in S /\ Head(seq) = seq[1] /\ 1 \in 1..Len(seq)
         /\ Tail(seq) \in Seq(S)
         /\ Len(seq) \in Nat /\ Len(Tail(seq)) = Len(seq) - 1
         /\ \A i \in 1..Len(Tail(seq)) : i + 1 \in 1..Len(seq) /\ Tail(seq)[i] = seq[i + 1]
BY HeadTailProperties, EmptySeq

\* The chain of refreshes grows at its end, by a refresh of the record there is.
LEMMA ChainGrows ==
  ASSUME FieldsInv, PastInv
  PROVE  /\ Refreshed \in Seq(Records)
         /\ \A i \in 1..Len(Refreshed) : Refreshed[i] \in 1..record
         /\ chain # <<>> => Refreshed # <<>> /\ Head(Refreshed) = Head(chain)
<1> USE DEF FieldsInv, MediaTypeOK, PastInv, Refreshed
<1>1. CASE record = 0 BY <1>1
<1>2. CASE record # 0
  <2>1. record \in 1..record BY <1>2, MediaAssumption DEF Records
  <2> QED BY <1>2, <2>1, Appended
<1> QED BY <1>1, <1>2

\* The next refresh of the chain begins anew.
LEMMA ChainShrinks ==
  ASSUME FieldsInv, PastInv, chain # <<>>, NextJob
  PROVE  /\ chain' \in Seq(Records) /\ job' = NoJob
         /\ \A i \in 1..Len(chain') : chain'[i] \in 1..record
BY Shortened DEF FieldsInv, MediaTypeOK, PastInv, NextJob

\* The first of the writes that wait reads what its record names.
LEMMA WaitingReads ==
  ASSUME FieldsInv, NEW next \in Seq(Writes), NEW queued \in [Records -> SUBSET Copies],
         Waiting(next, queued)
  PROVE  /\ writes' = next /\ content' \in Contents
         /\ next = <<>> => content'.at = "none" /\ content'.names = NoNames
         /\ next # <<>> => /\ content'.at = "write"
                          /\ content'.names = [queued |-> queued[Head(next).of],
                                              interrupted |-> interrupted[Head(next).of]]
<1>1. CASE next = <<>> BY <1>1, Nothings DEF Waiting
<1>2. CASE next # <<>>
  <2>0. Head(next) \in Writes BY <1>2, Shortened
  <2>1. Head(next).of \in Records BY <2>0 DEF Writes
  <2>2. content' = [at |-> "write", names |-> [queued |-> queued[Head(next).of],
                                             interrupted |-> interrupted[Head(next).of]]]
    BY <1>2 DEF Waiting
  <2>3. queued[Head(next).of] \in SUBSET Copies /\ interrupted[Head(next).of] \in SUBSET Copies
    BY <2>1 DEF FieldsInv, MediaTypeOK
  <2>4. content'.names \in Names BY <2>2, <2>3 DEF Names
  <2> QED BY <1>2, <2>2, <2>4 DEF Waiting, Contents
<1> QED BY <1>1, <1>2

\* A write goes to the end of those that wait, and reads at once if there are none.
LEMMA EnqueuedWaits ==
  ASSUME FieldsInv, NEW write \in Writes, NEW queued \in [Records -> SUBSET Copies],
         Enqueued(write, queued)
  PROVE  /\ writes' = Append(writes, write) /\ writes' \in Seq(Writes) /\ content' \in Contents
         /\ writes # <<>> => content' = content
         /\ writes = <<>> => /\ content'.at = "write"
                            /\ content'.names = [queued |-> queued[write.of],
                                                interrupted |-> interrupted[write.of]]
<1>0. writes \in Seq(Writes) BY DEF FieldsInv, MediaTypeOK, Writes
<1>1. CASE writes = <<>>
  <2>1. <<write>> = Append(writes, write) /\ <<write>> \in Seq(Writes) /\ Head(<<write>>) = write
    BY <1>1
  <2> QED BY <1>1, <2>1, WaitingReads DEF Enqueued
<1>2. CASE writes # <<>> BY <1>0, <1>2, Appended DEF Enqueued, FieldsInv
<1> QED BY <1>1, <1>2

\* A write w was added to those that wait, and reads at once if there are none; and the
\* first of them was taken away, so that the next one reads.
Added(w, queued) ==
  /\ writes' \in Seq(Writes) /\ writes' # <<>> /\ Len(writes) \in Nat
  /\ Len(writes') = Len(writes) + 1
  /\ \A i \in 1..Len(writes) + 1 : writes'[i] = IF i = Len(writes) + 1 THEN w ELSE writes[i]
  /\ Head(writes') = IF writes = <<>> THEN w ELSE Head(writes)
  /\ content' \in Contents
  /\ writes # <<>> => content' = content
  /\ writes = <<>> => /\ content'.at = "write"
                     /\ content'.names = [queued |-> queued[w.of],
                         interrupted |-> interrupted[w.of]]

Taken ==
  /\ writes # <<>> /\ 1 \in 1..Len(writes) /\ Head(writes) = writes[1]
  /\ writes' \in Seq(Writes) /\ Len(writes) \in Nat /\ Len(writes') = Len(writes) - 1
  /\ \A i \in 1..Len(writes') : i + 1 \in 1..Len(writes) /\ writes'[i] = writes[i + 1]
  /\ content' \in Contents
  /\ writes' = <<>> => content'.at = "none" /\ content'.names = NoNames
  /\ writes' # <<>> => /\ 1 \in 1..Len(writes') /\ Head(writes') = writes'[1]
                      /\ content'.at = "write"
                      /\ content'.names = [queued |-> named[Head(writes').of],
                                          interrupted |-> interrupted[Head(writes').of]]

\* A write that is enqueued was added.
LEMMA Adding ==
  ASSUME FieldsInv, NEW w \in Writes, NEW queued \in [Records -> SUBSET Copies], Enqueued(w, queued)
  PROVE  Added(w, queued)
<1>1. writes \in Seq(Writes) BY DEF FieldsInv, MediaTypeOK, Writes
<1> QED BY <1>1, EnqueuedWaits, Appended DEF Added

\* A write that has ended was taken away.
LEMMA Taking ==
  ASSUME FieldsInv, writes # <<>>, Waiting(Tail(writes), named)
  PROVE  Taken
<1>1. writes \in Seq(Writes) BY DEF FieldsInv, MediaTypeOK, Writes
<1>2. named \in [Records -> SUBSET Copies] BY DEF FieldsInv, MediaTypeOK
<1>3. Tail(writes) \in Seq(Writes) BY <1>1, Shortened
<1>4. /\ writes' = Tail(writes) /\ content' \in Contents
      /\ writes' = <<>> => content'.at = "none" /\ content'.names = NoNames
      /\ writes' # <<>> => /\ content'.at = "write"
                          /\ content'.names = [queued |-> named[Head(writes').of],
                                              interrupted |-> interrupted[Head(writes').of]]
  BY <1>2, <1>3, WaitingReads
<1>5. writes' # <<>> => 1 \in 1..Len(writes') /\ Head(writes') = writes'[1]
  BY <1>3, <1>4, Shortened
<1>6. /\ Head(writes) = writes[1] /\ 1 \in 1..Len(writes)
      /\ Len(writes) \in Nat /\ Len(writes') = Len(writes) - 1
      /\ \A i \in 1..Len(writes') : i + 1 \in 1..Len(writes) /\ writes'[i] = writes[i + 1]
  BY <1>1, <1>4, Shortened
<1> QED BY <1>3, <1>4, <1>5, <1>6 DEF Taken

\* A save of a record adds a write.
LEMMA PersistDoes ==
  ASSUME FieldsInv, NEW r \in Records, Persist(r)
  PROVE  /\ r \in 1..record /\ Added([of |-> r, job |-> FALSE], named)
         /\ UNCHANGED <<piVars, memoryVars, bookmark, disk, stale, fileVars, chain, job>>
<1>1. [of |-> r, job |-> FALSE] \in Writes BY DEF Writes
<1>2. named \in [Records -> SUBSET Copies] BY DEF FieldsInv, MediaTypeOK
<1> QED BY <1>1, <1>2, Adding DEF Persist

\* A refresh that confirms saves the record there is, or ends.
LEMMA ConfirmDoes ==
  ASSUME FieldsInv, PastInv, Confirm
  PROVE  /\ job.at = "copy"
         /\ UNCHANGED <<piVars, record, interrupted, loading, bookmark, disk, stale, fileVars>>
         /\ \/ /\ chain # <<>> /\ Head(chain) = record /\ chain' = chain /\ record \in 1..record
               /\ named' = [named EXCEPT ![record] = job.refs \cap queue]
               /\ named' \in [Records -> SUBSET Copies]
               /\ Added([of |-> record, job |-> TRUE], named')
               /\ job' = [job EXCEPT !.at = "save", !.refs = {}]
            \/ /\ chain' \in Seq(Records) /\ job' = NoJob
               /\ \A i \in 1..Len(chain') : chain'[i] \in 1..record
               /\ UNCHANGED <<named, writes, content>>
<1>1. CASE Head(chain) = record
  <2>1. chain # <<>> BY DEF Confirm, JobAt
  <2>2. chain \in Seq(Records) BY DEF FieldsInv, MediaTypeOK
  <2>3. record \in 1..record BY <1>1, <2>1, <2>2, Shortened DEF PastInv
  <2>4. record \in Records BY DEF FieldsInv, MediaTypeOK
  <2>5. [of |-> record, job |-> TRUE] \in Writes BY <2>4 DEF Writes
  <2>6. named' = [named EXCEPT ![record] = job.refs \cap queue] BY <1>1 DEF Confirm
  <2>7. named' \in [Records -> SUBSET Copies] BY <2>4, <2>6 DEF FieldsInv, MediaTypeOK
  <2>8. Enqueued([of |-> record, job |-> TRUE], named') BY <1>1 DEF Confirm
  <2>9. Added([of |-> record, job |-> TRUE], named') BY <2>5, <2>7, <2>8, Adding
  <2> QED BY <1>1, <2>1, <2>3, <2>6, <2>7, <2>9 DEF Confirm, JobAt
<1>2. CASE Head(chain) # record
  <2>1. chain # <<>> /\ NextJob BY <1>2 DEF Confirm, JobAt
  <2> QED BY <1>2, <2>1, ChainShrinks DEF Confirm, JobAt
<1> QED BY <1>1, <1>2

\* A write that has ended leaves memory and disk the same.
LEMMA RecordedDoes ==
  ASSUME FieldsInv, WriteInv, SaveInv, Recorded
  PROVE  /\ content.at = "written" /\ bookmark' = content.names /\ Taken
         /\ job' = IF Head(writes).job THEN [job EXCEPT !.at = "look", !.same = TRUE]
                   ELSE [job EXCEPT !.same = FALSE]
         /\ \/ job.at = "save" /\ job'.at = "look"
            \/ job'.at = job.at /\ ~job'.same
         /\ job'.refs = job.refs /\ job'.todo = job.todo
         /\ UNCHANGED <<piVars, memoryVars, disk, stale, fileVars, chain>>
<1>1. writes # <<>> BY DEF WriteInv, Recorded
<1>2. Taken BY <1>1, Taking DEF Recorded
<1>3. Head(writes).job => job.at = "save" BY <1>2 DEF Taken, SaveInv
<1>4. job' = IF Head(writes).job THEN [job EXCEPT !.at = "look", !.same = TRUE]
             ELSE [job EXCEPT !.same = FALSE]
  BY DEF Recorded
<1> QED BY <1>2, <1>3, <1>4 DEF Recorded, FieldsInv, JobRecords

\* A write that fails leaves both as they were.
LEMMA RejectedDoes ==
  ASSUME FieldsInv, WriteInv, PastInv, SaveInv, WriteRejected
  PROVE  /\ content.at = "write" /\ Taken
         /\ UNCHANGED <<piVars, memoryVars, bookmark, disk, stale, fileVars>>
         /\ \/ ~Head(writes).job /\ UNCHANGED <<chain, job>>
            \/ /\ Head(writes).job /\ job' = NoJob /\ chain' \in Seq(Records)
               /\ \A i \in 1..Len(chain') : chain'[i] \in 1..record
<1>1. writes # <<>> /\ Taken BY Taking DEF WriteInv, WriteRejected
<1>2. CASE Head(writes).job
  <2>1. chain # <<>> BY <1>1, <1>2 DEF Taken, SaveInv, PastInv
  <2> QED BY <1>1, <1>2, <2>1, ChainShrinks DEF WriteRejected
<1>3. CASE ~Head(writes).job BY <1>1, <1>3 DEF WriteRejected
<1> QED BY <1>2, <1>3

\* A refresh that ends without having saved.
LEMMA EndsDoes ==
  ASSUME FieldsInv, PastInv, Changed \/ JobFails
  PROVE  /\ job.at # "save" /\ job' = NoJob /\ chain' \in Seq(Records)
         /\ \A i \in 1..Len(chain') : chain'[i] \in 1..record
         /\ UNCHANGED <<piVars, memoryVars, writeVars, fileVars>>
<1>1. chain # <<>> BY DEF Changed, JobFails, JobAt
<1>2. CASE NextJob BY <1>1, <1>2, ChainShrinks DEF Changed, JobFails, JobAt
<1>3. CASE job' = NoJob /\ UNCHANGED chain
  BY <1>3 DEF Changed, JobFails, JobAt, FieldsInv, MediaTypeOK, PastInv, NextJob
<1> QED BY <1>2, <1>3 DEF Changed, JobFails

-----------------------------------------------------------------------------
(* Each part is kept by every step.                                        *)

\* The types are kept.
LEMMA FieldsInvStep ==
  ASSUME FieldsInv, PastInv, WriteInv, SaveInv, MediaStep
  PROVE  FieldsInv'
<1> USE MediaAssumption DEF FieldsInv, MediaTypeOK, JobRecords
<1>1. CASE QueueChanges
  <2>1. chain' \in Seq(Records) BY <1>1, ChainGrows DEF QueueChanges
  <2>2. revision' \in 0..MaxChanges BY <1>1 DEF QueueChanges
  <2>3. job' \in JobRecords BY <1>1 DEF QueueChanges, Noticed
  <2>4. queue' \subseteq Copies /\ running' \in BOOLEAN BY <1>1 DEF QueueChanges
  <2>5. UNCHANGED <<alive, history, memoryVars, writeVars, fileVars>> BY <1>1 DEF QueueChanges
  <2> QED BY <2>1, <2>2, <2>3, <2>4, <2>5 DEF memoryVars, writeVars, fileVars
<1>2. CASE RunStarts
  BY <1>2 DEF RunStarts, Noticed, memoryVars, writeVars, fileVars
<1>3. CASE RunEnds
  BY <1>3 DEF RunEnds, Noticed, memoryVars, writeVars, fileVars
<1>4. CASE MediaPiExits
  BY <1>4 DEF MediaPiExits, memoryVars, writeVars, fileVars
<1>5. CASE LoadBegins
  BY <1>5 DEF LoadBegins, piVars, writeVars, fileVars, Loads
<1>6. CASE LoadEnds
  <2>1. record' \in Records /\ record' = record + 1 BY <1>6 DEF LoadEnds, PastInv, Records
  <2>2. chain' \in Seq(Records) BY <1>6, <2>1, Appended DEF LoadEnds
  <2>3. loading' \in Loads BY <1>6, Nothings DEF LoadEnds, Loads
  <2>4. AllNames(loading.names) \subseteq Copies BY DEF AllNames, Names
  <2>5. interrupted' \in [Records -> SUBSET Copies] BY <1>6, <2>1, <2>4 DEF LoadEnds
  <2> QED BY <1>6, <2>1, <2>2, <2>3, <2>5 DEF LoadEnds, writeVars, fileVars, Loads
<1>7. CASE MediaCrash
  <2>1. chain' \in Seq(Records) /\ writes' \in Seq([of : Records,
      job : BOOLEAN]) BY <1>7 DEF MediaCrash
  <2>2. job' \in JobRecords /\ content' \in Contents BY <1>7, Nothings DEF MediaCrash
  <2>3. loading' \in Loads BY <1>7, Nothings DEF MediaCrash, Loads
  <2> QED BY <1>7, <2>1, <2>2, <2>3 DEF MediaCrash, Contents, Loads
<1>8. ASSUME NEW r \in Records, Persist(r) PROVE FieldsInv'
  <2>1. Added([of |-> r, job |-> FALSE], named)
        /\ UNCHANGED <<piVars, memoryVars, bookmark, disk, stale, fileVars, chain, job>>
    BY <1>8, PersistDoes
  <2> QED BY <2>1 DEF Added, Writes, Contents, piVars, memoryVars, fileVars
<1>9. CASE Renamed
  <2>1. content' \in Contents BY <1>9 DEF Renamed, Contents
  <2>2. content.names \in Names BY DEF Contents
  <2>3. AllNames(content.names) \subseteq Copies BY <2>2 DEF AllNames, Names
  <2>4. disk' \in Names /\ stale' \subseteq Copies BY <1>9, <2>2, <2>3 DEF Renamed
  <2> QED BY <1>9, <2>1, <2>4 DEF Renamed, Contents, piVars, memoryVars, fileVars
<1>10. CASE Recorded
  <2>1. Taken /\ bookmark' = content.names /\ UNCHANGED <<piVars, memoryVars, disk, stale,
      fileVars, chain>>
    BY <1>10, RecordedDoes
  <2>2. job' \in JobRecords BY <1>10, RecordedDoes
  <2> QED BY <2>1, <2>2 DEF Taken, Writes, Contents, piVars, memoryVars, fileVars
<1>11. CASE WriteRejected
  <2>1. Taken /\ UNCHANGED <<piVars, memoryVars, bookmark, disk, stale, fileVars>>
    BY <1>11, RejectedDoes
  <2>2. job' \in JobRecords /\ chain' \in Seq(Records) BY <1>11, RejectedDoes, Nothings
  <2> QED BY <2>1, <2>2 DEF Taken, Writes, Contents, piVars, memoryVars, fileVars
<1>12. CASE Catalog
  BY <1>12, Nothings DEF Catalog, JobAt, piVars, memoryVars, writeVars, fileVars
<1>13. CASE Changed \/ JobFails
  BY <1>13, EndsDoes, Nothings DEF piVars, memoryVars, writeVars, fileVars
<1>14. CASE Confirm
  <2>1. UNCHANGED <<piVars, record, interrupted, loading, bookmark, disk, stale, fileVars>>
    BY <1>14, ConfirmDoes
  <2>2. chain' \in Seq(Records) /\ job' \in JobRecords /\ named' \in [Records -> SUBSET Copies]
    BY <1>14, ConfirmDoes, Nothings
  <2>3. writes' \in Seq(Writes) /\ content' \in Contents
    BY <1>14, ConfirmDoes DEF Added, Writes
  <2> QED BY <2>1, <2>2, <2>3 DEF Writes, Contents, piVars, fileVars
<1>15. CASE Retain
  <2>1. AllNames(bookmark) \subseteq Copies BY DEF AllNames, Names
  <2>2. job' \in JobRecords BY <1>15, <2>1 DEF Retain
  <2> QED BY <1>15, <2>2 DEF Retain, piVars, memoryVars, writeVars, fileVars
<1>16. CASE List
  BY <1>16 DEF List, JobAt, piVars, memoryVars, writeVars, fileVars
<1>17. CASE Scan
  BY <1>17 DEF Scan, JobAt, piVars, memoryVars, writeVars, fileVars
<1>18. CASE Unlink
  BY <1>18 DEF Unlink, JobAt, piVars, memoryVars, writeVars
<1>19. CASE PreviewCopies
  BY <1>19 DEF PreviewCopies, piVars, memoryVars, writeVars
<1>20. ASSUME NEW c \in Copies, Mention(c) PROVE FieldsInv'
  BY <1>20 DEF Mention, memoryVars, writeVars
<1>21. ASSUME NEW c \in Copies, Copy(c) PROVE FieldsInv'
  BY <1>21 DEF Copy, JobAt, piVars, memoryVars, writeVars
<1>22. ASSUME NEW c \in Copies, Look(c) PROVE FieldsInv'
  BY <1>22 DEF Look, JobAt, Unreferenced, piVars, memoryVars, writeVars, fileVars
<1>23. ASSUME NEW c \in Copies, PreviewReads(c) PROVE FieldsInv'
  BY <1>23 DEF PreviewReads, piVars, memoryVars, writeVars
<1> QED BY <1>1, <1>2, <1>3, <1>4, <1>5, <1>6, <1>7, <1>8, <1>9, <1>10, <1>11, <1>12, <1>13,
    <1>14, <1>15, <1>16, <1>17, <1>18, <1>19, <1>20, <1>21, <1>22, <1>23 DEF MediaStep

\* Nothing is of a record to come.
LEMMA PastInvStep ==
  ASSUME FieldsInv, FieldsInv', PastInv, WriteInv, SaveInv, MediaStep
  PROVE  PastInv'
<1> USE MediaAssumption DEF FieldsInv, MediaTypeOK, PastInv
<1>1. CASE QueueChanges
  BY <1>1, ChainGrows DEF QueueChanges, Noticed, memoryVars, writeVars, fileVars
<1>2. CASE RunStarts
  BY <1>2 DEF RunStarts, Noticed, memoryVars, writeVars, fileVars
<1>3. CASE RunEnds
  BY <1>3 DEF RunEnds, Noticed, memoryVars, writeVars, fileVars
<1>4. CASE MediaPiExits
  BY <1>4 DEF MediaPiExits, memoryVars, writeVars, fileVars
<1>5. CASE LoadBegins
  BY <1>5 DEF LoadBegins, piVars, writeVars, fileVars
<1>6. CASE LoadEnds
  <2>1. record' = record + 1 /\ record \in Nat /\ record' \in Records
    BY <1>6 DEF LoadEnds, Records
  <2>2. /\ Len(chain) \in Nat /\ Len(chain') = Len(chain) + 1 /\ chain' # <<>>
        /\ \A i \in 1..Len(chain) + 1 : chain'[i] = IF i = Len(chain) + 1 THEN record' ELSE chain[i]
    BY <1>6, <2>1, Appended DEF LoadEnds
  <2>3. UNCHANGED <<writes, named>> /\ ~loading'.on
    BY <1>6 DEF LoadEnds, writeVars
  <2>4. \A r \in Records : r > record' => interrupted'[r] = interrupted[r] /\ r > record
    BY <1>6, <2>1 DEF LoadEnds, Records
  <2>5. \A n \in 1..record : n \in 1..record' BY <2>1
  <2>6. \A i \in 1..Len(writes') : writes'[i].of \in 1..record' BY <2>3, <2>5
  <2>7. \A i \in 1..Len(chain') : chain'[i] \in 1..record'
    <3>1. record' \in 1..record' BY <2>1
    <3>2. ASSUME NEW i \in 1..Len(chain'), i # Len(chain) + 1 PROVE chain'[i] \in 1..record'
      <4>1. i \in 1..Len(chain) BY <2>2, <3>2
      <4> QED BY <2>2, <2>5, <4>1
    <3>3. Len(chain) + 1 \in 1..Len(chain) + 1 BY <2>2
    <3> QED BY <2>2, <3>1, <3>2, <3>3
  <2>8. \A r \in Records : r > record' => named'[r] = {} /\ interrupted'[r] = {}
    BY <2>3, <2>4
  <2> QED BY <2>2, <2>3, <2>6, <2>7, <2>8
<1>7. CASE MediaCrash
  BY <1>7, Nothings DEF MediaCrash
<1>8. ASSUME NEW r \in Records, Persist(r) PROVE PastInv'
  <2>1. /\ r \in 1..record /\ Added([of |-> r, job |-> FALSE], named)
        /\ UNCHANGED <<piVars, memoryVars, bookmark, disk, stale, fileVars, chain, job>>
    BY <1>8, PersistDoes
  <2>2. \A i \in 1..Len(writes') : writes'[i].of \in 1..record BY <2>1 DEF Added
  <2> QED BY <2>1, <2>2 DEF piVars, memoryVars
<1>9. CASE Renamed
  BY <1>9 DEF Renamed, piVars, memoryVars, fileVars
<1>10. CASE Recorded
  <2>1. Taken /\ UNCHANGED <<piVars, memoryVars, disk, stale, fileVars, chain>> BY <1>10,
      RecordedDoes
  <2>2. \A i \in 1..Len(writes') : writes'[i].of \in 1..record BY <2>1 DEF Taken
  <2>3. Head(writes).job => job.at = "save" BY <2>1 DEF Taken, SaveInv
  <2>4. job.at # "save" => job'.at = job.at BY <2>3, <1>10, RecordedDoes DEF JobRecords
  <2> QED BY <2>1, <2>2, <2>4 DEF piVars, memoryVars
<1>11. CASE WriteRejected
  BY <1>11, RejectedDoes, Nothings DEF Taken, piVars, memoryVars, fileVars
<1>12. CASE Catalog
  BY <1>12, Nothings DEF Catalog, JobAt, piVars, memoryVars, writeVars, fileVars
<1>13. CASE Changed \/ JobFails
  BY <1>13, EndsDoes, Nothings DEF piVars, memoryVars, writeVars, fileVars
<1>14. CASE Confirm
  <2>1. UNCHANGED <<alive, record, interrupted, loading>> BY <1>14, ConfirmDoes DEF piVars
  <2>2. \A i \in 1..Len(writes') : writes'[i].of \in 1..record
    <3>1. CASE Added([of |-> record, job |-> TRUE], named') /\ record \in 1..record
      <4>1. \A i \in 1..Len(writes) + 1 : writes'[i] = IF i = Len(writes) + 1
               THEN [of |-> record, job |-> TRUE] ELSE writes[i]
        BY <3>1 DEF Added
      <4>2. Len(writes') = Len(writes) + 1 /\ Len(writes) \in Nat BY <3>1 DEF Added
      <4>3. ASSUME NEW i \in 1..Len(writes'), i # Len(writes) + 1 PROVE writes'[i].of \in 1..record
        <5>1. i \in 1..Len(writes) BY <4>2, <4>3
        <5> QED BY <4>1, <4>2, <5>1
      <4>4. writes'[Len(writes) + 1] = [of |-> record, job |-> TRUE]
        <5>1. Len(writes) + 1 \in 1..Len(writes) + 1 BY <4>2
        <5> QED BY <4>1, <5>1
      <4> QED BY <3>1, <4>2, <4>3, <4>4
    <3> QED BY <1>14, <3>1, ConfirmDoes
  <2>3. \A i \in 1..Len(chain') : chain'[i] \in 1..record BY <1>14, ConfirmDoes
  <2>4. \A r \in Records : r > record => named'[r] = named[r] BY <1>14, ConfirmDoes
  <2>5. chain' = <<>> => job'.at = "catalog" BY <1>14, ConfirmDoes, Nothings
  <2> QED BY <2>1, <2>2, <2>3, <2>4, <2>5
<1>15. CASE Retain
  BY <1>15 DEF Retain, JobAt, Unreferenced, piVars, memoryVars, writeVars, fileVars
<1>16. CASE List
  BY <1>16 DEF List, JobAt, piVars, memoryVars, writeVars, fileVars
<1>17. CASE Scan
  BY <1>17 DEF Scan, JobAt, piVars, memoryVars, writeVars, fileVars
<1>18. CASE Unlink
  BY <1>18 DEF Unlink, JobAt, piVars, memoryVars, writeVars
<1>19. CASE PreviewCopies
  BY <1>19 DEF PreviewCopies, piVars, memoryVars, writeVars
<1>20. ASSUME NEW c \in Copies, Mention(c) PROVE PastInv'
  BY <1>20 DEF Mention, memoryVars, writeVars
<1>21. ASSUME NEW c \in Copies, Copy(c) PROVE PastInv'
  BY <1>21 DEF Copy, JobAt, piVars, memoryVars, writeVars
<1>22. ASSUME NEW c \in Copies, Look(c) PROVE PastInv'
  BY <1>22 DEF Look, JobAt, Unreferenced, piVars, memoryVars, writeVars, fileVars
<1>23. ASSUME NEW c \in Copies, PreviewReads(c) PROVE PastInv'
  BY <1>23 DEF PreviewReads, piVars, memoryVars, writeVars
<1> QED BY <1>1, <1>2, <1>3, <1>4, <1>5, <1>6, <1>7, <1>8, <1>9, <1>10, <1>11, <1>12, <1>13,
    <1>14, <1>15, <1>16, <1>17, <1>18, <1>19, <1>20, <1>21, <1>22, <1>23 DEF MediaStep

\* Only the write at the head sets the disk apart from the memory.
LEMMA WriteInvStep ==
  ASSUME FieldsInv, FieldsInv', PastInv, WriteInv, SaveInv, MediaStep
  PROVE  WriteInv'
<1> USE MediaAssumption DEF FieldsInv, MediaTypeOK, WriteInv
<1>1. CASE QueueChanges
  BY <1>1, ChainGrows DEF QueueChanges, Noticed, memoryVars, writeVars, fileVars
<1>2. CASE RunStarts
  BY <1>2 DEF RunStarts, Noticed, memoryVars, writeVars, fileVars
<1>3. CASE RunEnds
  BY <1>3 DEF RunEnds, Noticed, memoryVars, writeVars, fileVars
<1>4. CASE MediaPiExits
  BY <1>4 DEF MediaPiExits, memoryVars, writeVars, fileVars
<1>5. CASE LoadBegins
  BY <1>5 DEF LoadBegins, piVars, writeVars, fileVars
<1>6. CASE LoadEnds
  BY <1>6, Nothings DEF LoadEnds, writeVars, fileVars
<1>7. CASE MediaCrash
  BY <1>7, Nothings DEF MediaCrash
<1>8. ASSUME NEW r \in Records, Persist(r) PROVE WriteInv'
  BY <1>8, PersistDoes DEF Added, piVars, memoryVars, fileVars
<1>9. CASE Renamed
  BY <1>9 DEF Renamed, piVars, memoryVars, fileVars
<1>10. CASE Recorded
  BY <1>10, RecordedDoes, Nothings DEF Taken, piVars, memoryVars, fileVars
<1>11. CASE WriteRejected
  BY <1>11, RejectedDoes, Nothings DEF Taken, piVars, memoryVars, fileVars
<1>12. CASE Catalog
  BY <1>12, Nothings DEF Catalog, JobAt, piVars, memoryVars, writeVars, fileVars
<1>13. CASE Changed \/ JobFails
  BY <1>13, EndsDoes, Nothings DEF piVars, memoryVars, writeVars, fileVars
<1>14. CASE Confirm
  BY <1>14, ConfirmDoes, Nothings DEF Added, piVars, fileVars
<1>15. CASE Retain
  BY <1>15 DEF Retain, JobAt, Unreferenced, piVars, memoryVars, writeVars, fileVars
<1>16. CASE List
  BY <1>16 DEF List, JobAt, piVars, memoryVars, writeVars, fileVars
<1>17. CASE Scan
  BY <1>17 DEF Scan, JobAt, piVars, memoryVars, writeVars, fileVars
<1>18. CASE Unlink
  BY <1>18 DEF Unlink, JobAt, piVars, memoryVars, writeVars
<1>19. CASE PreviewCopies
  BY <1>19 DEF PreviewCopies, piVars, memoryVars, writeVars
<1>20. ASSUME NEW c \in Copies, Mention(c) PROVE WriteInv'
  BY <1>20 DEF Mention, memoryVars, writeVars
<1>21. ASSUME NEW c \in Copies, Copy(c) PROVE WriteInv'
  BY <1>21 DEF Copy, JobAt, piVars, memoryVars, writeVars
<1>22. ASSUME NEW c \in Copies, Look(c) PROVE WriteInv'
  BY <1>22 DEF Look, JobAt, Unreferenced, piVars, memoryVars, writeVars, fileVars
<1>23. ASSUME NEW c \in Copies, PreviewReads(c) PROVE WriteInv'
  BY <1>23 DEF PreviewReads, piVars, memoryVars, writeVars
<1> QED BY <1>1, <1>2, <1>3, <1>4, <1>5, <1>6, <1>7, <1>8, <1>9, <1>10, <1>11, <1>12, <1>13,
    <1>14, <1>15, <1>16, <1>17, <1>18, <1>19, <1>20, <1>21, <1>22, <1>23 DEF MediaStep

\* The writes of a record say what it names.
LEMMA SaveInvStep ==
  ASSUME FieldsInv, FieldsInv', PastInv, WriteInv, SaveInv, MediaStep
  PROVE  SaveInv'
<1> USE MediaAssumption DEF FieldsInv, MediaTypeOK, PastInv, WriteInv, SaveInv
<1>1. CASE QueueChanges
  BY <1>1, ChainGrows DEF QueueChanges, Noticed, memoryVars, writeVars, fileVars
<1>2. CASE RunStarts
  BY <1>2 DEF RunStarts, Noticed, memoryVars, writeVars, fileVars
<1>3. CASE RunEnds
  BY <1>3 DEF RunEnds, Noticed, memoryVars, writeVars, fileVars
<1>4. CASE MediaPiExits
  BY <1>4 DEF MediaPiExits, memoryVars, writeVars, fileVars
<1>5. CASE LoadBegins
  BY <1>5 DEF LoadBegins, piVars, writeVars, fileVars
<1>6. CASE LoadEnds
  BY <1>6, Nothings DEF LoadEnds, writeVars, fileVars
<1>7. CASE MediaCrash
  BY <1>7, Nothings DEF MediaCrash
<1>8. ASSUME NEW r \in Records, Persist(r) PROVE SaveInv'
  <2>1. /\ r \in 1..record /\ Added([of |-> r, job |-> FALSE], named)
        /\ UNCHANGED <<piVars, memoryVars, bookmark, disk, stale, fileVars, chain, job>>
    BY <1>8, PersistDoes
  <2>2. \A i \in 1..Len(writes') : writes'[i].job => i \in 1..Len(writes) /\ writes[i].job
    BY <2>1 DEF Added
  <2>3. job.at # "save" /\ Head(writes').of = record =>
          content'.names = [queued |-> named[record], interrupted |-> interrupted[record]]
    BY <2>1 DEF Added
  <2> QED BY <2>1, <2>2, <2>3 DEF memoryVars
<1>9. CASE Renamed
  BY <1>9 DEF Renamed, piVars, memoryVars, fileVars
<1>10. CASE Recorded
  <2>1. Taken /\ UNCHANGED <<piVars, memoryVars, disk, stale, fileVars, chain>> BY <1>10,
      RecordedDoes
  <2>2. \A i \in 1..Len(writes') : writes'[i].job => writes[i + 1].job /\ i + 1 \in 1..Len(writes)
    BY <2>1 DEF Taken
  <2>3. ASSUME NEW i \in 1..Len(writes'), writes'[i].job PROVE ~Head(writes).job
    BY <2>1, <2>2, <2>3 DEF Taken
  <2>4. ~Head(writes).job => job'.at = job.at BY <1>10, RecordedDoes DEF JobRecords
  <2>5. writes' # <<>> /\ Head(writes').of = record =>
          content'.names = [queued |-> named[record], interrupted |-> interrupted[record]]
    BY <2>1 DEF Taken
  <2>6. \A i \in 1..Len(writes') : writes'[i].job => job'.at = "save" BY <2>2, <2>3, <2>4
  <2>7. \A i, j \in 1..Len(writes') : writes'[i].job /\ writes'[j].job => i = j BY <2>2
  <2> QED BY <2>1, <2>5, <2>6, <2>7 DEF memoryVars
<1>11. CASE WriteRejected
  <2>1. Taken /\ UNCHANGED <<piVars, memoryVars, bookmark, disk, stale, fileVars>> BY <1>11,
      RejectedDoes
  <2>2. \A i \in 1..Len(writes') : writes'[i].job => writes[i + 1].job /\ i + 1 \in 1..Len(writes)
    BY <2>1 DEF Taken
  <2>3. ASSUME NEW i \in 1..Len(writes'), writes'[i].job PROVE ~Head(writes).job
    BY <2>1, <2>2, <2>3 DEF Taken
  <2>4. ~Head(writes).job => job' = job BY <1>11, RejectedDoes
  <2>5. writes' # <<>> /\ Head(writes').of = record =>
          content'.names = [queued |-> named[record], interrupted |-> interrupted[record]]
    BY <2>1 DEF Taken
  <2>6. \A i \in 1..Len(writes') : writes'[i].job => job'.at = "save" BY <2>2, <2>3, <2>4
  <2>7. \A i, j \in 1..Len(writes') : writes'[i].job /\ writes'[j].job => i = j BY <2>2
  <2> QED BY <2>1, <2>5, <2>6, <2>7 DEF memoryVars
<1>12. CASE Catalog
  BY <1>12, Nothings DEF Catalog, JobAt, piVars, memoryVars, writeVars, fileVars
<1>13. CASE Changed \/ JobFails
  BY <1>13, EndsDoes, Nothings DEF piVars, memoryVars, writeVars, fileVars
<1>14. CASE Confirm
  <2>0. job.at = "copy" /\ UNCHANGED <<record, interrupted>> BY <1>14, ConfirmDoes
  <2>1. \A i \in 1..Len(writes) : ~writes[i].job BY <2>0
  <2>2. CASE Added([of |-> record, job |-> TRUE], named') /\ job' = [job EXCEPT !.at = "save",
      !.refs = {}]
    <3>1. job'.at = "save" BY <2>2 DEF JobRecords
    <3>2. \A i \in 1..Len(writes') : writes'[i].job => i = Len(writes) + 1 BY <2>1, <2>2 DEF Added
    <3> QED BY <3>1, <3>2
  <2>3. CASE job' = NoJob /\ UNCHANGED <<named, writes, content>> BY <2>0, <2>1, <2>3
  <2> QED BY <1>14, <2>2, <2>3, ConfirmDoes
<1>15. CASE Retain
  BY <1>15 DEF Retain, JobAt, Unreferenced, piVars, memoryVars, writeVars, fileVars
<1>16. CASE List
  BY <1>16 DEF List, JobAt, piVars, memoryVars, writeVars, fileVars
<1>17. CASE Scan
  BY <1>17 DEF Scan, JobAt, piVars, memoryVars, writeVars, fileVars
<1>18. CASE Unlink
  BY <1>18 DEF Unlink, JobAt, piVars, memoryVars, writeVars
<1>19. CASE PreviewCopies
  BY <1>19 DEF PreviewCopies, piVars, memoryVars, writeVars
<1>20. ASSUME NEW c \in Copies, Mention(c) PROVE SaveInv'
  BY <1>20 DEF Mention, memoryVars, writeVars
<1>21. ASSUME NEW c \in Copies, Copy(c) PROVE SaveInv'
  BY <1>21 DEF Copy, JobAt, piVars, memoryVars, writeVars
<1>22. ASSUME NEW c \in Copies, Look(c) PROVE SaveInv'
  BY <1>22 DEF Look, JobAt, Unreferenced, piVars, memoryVars, writeVars, fileVars
<1>23. ASSUME NEW c \in Copies, PreviewReads(c) PROVE SaveInv'
  BY <1>23 DEF PreviewReads, piVars, memoryVars, writeVars
<1> QED BY <1>1, <1>2, <1>3, <1>4, <1>5, <1>6, <1>7, <1>8, <1>9, <1>10, <1>11, <1>12, <1>13,
    <1>14, <1>15, <1>16, <1>17, <1>18, <1>19, <1>20, <1>21, <1>22, <1>23 DEF MediaStep

\* What is named after a step was named before, or is of the copies that a refresh has made.
LEMMA NamedStep ==
  ASSUME FieldsInv, FieldsInv', PastInv, WriteInv, SaveInv, MediaStep, NEW c \in Copies,
      Named(c)', c \notin stale'
  PROVE  c \notin stale /\ (Named(c) \/ c \in job.refs)
<1> DEFINE Keep == c \notin stale /\ (Named(c) \/ c \in job.refs)
<1> SUFFICES Keep OBVIOUS
<1> USE MediaAssumption DEF FieldsInv, MediaTypeOK, Named, AllNames
<1>1. CASE QueueChanges
  BY <1>1, ChainGrows DEF QueueChanges, Noticed, memoryVars, writeVars, fileVars
<1>2. CASE RunStarts
  BY <1>2 DEF RunStarts, Noticed, memoryVars, writeVars, fileVars
<1>3. CASE RunEnds
  BY <1>3 DEF RunEnds, Noticed, memoryVars, writeVars, fileVars
<1>4. CASE MediaPiExits
  BY <1>4 DEF MediaPiExits, memoryVars, writeVars, fileVars
<1>5. CASE LoadBegins
  BY <1>5 DEF LoadBegins, piVars, writeVars, fileVars
<1>6. CASE LoadEnds
  <2>1. record' = record + 1 /\ record' \in Records /\ record \in Nat BY <1>6 DEF LoadEnds, Records
  <2>2. named'[record'] = {} BY <1>6, <2>1 DEF LoadEnds, PastInv
  <2>3. interrupted'[record'] = AllNames(loading.names) /\ loading.on BY <1>6, <2>1 DEF LoadEnds
  <2>4. writes # <<>> => Head(writes).of # record'
    <3>1. ASSUME writes # <<>> PROVE Head(writes) = writes[1] /\ 1 \in 1..Len(writes) BY <3>1,
        Shortened
    <3>2. writes # <<>> => Head(writes).of \in 1..record BY <3>1 DEF PastInv
    <3> QED BY <2>1, <3>2
  <2>5. UNCHANGED <<bookmark, disk, writes, content, stale>> /\ ~loading'.on BY <1>6 DEF LoadEnds,
      writeVars
  <2> QED BY <2>2, <2>3, <2>4, <2>5
<1>7. CASE MediaCrash
  BY <1>7, Nothings DEF MediaCrash
<1>8. ASSUME NEW r \in Records, Persist(r) PROVE Keep
  <2>1. /\ Added([of |-> r, job |-> FALSE], named)
        /\ UNCHANGED <<memoryVars, bookmark, disk, stale>>
    BY <1>8, PersistDoes
  <2>2. CASE writes = <<>>
    <3>1. Head(writes') = [of |-> r, job |-> FALSE]
          /\ content'.names = [queued |-> named[r], interrupted |-> interrupted[r]]
      BY <2>1, <2>2 DEF Added
    <3>2. r = record => AllNames(content'.names) = named[record] \cup interrupted[record] BY <3>1
    <3> QED BY <2>1, <3>1, <3>2 DEF memoryVars
  <2>3. CASE writes # <<>>
    <3>1. Head(writes') = Head(writes) /\ content' = content BY <2>1, <2>3 DEF Added
    <3> QED BY <2>1, <2>3, <3>1 DEF memoryVars
  <2> QED BY <2>2, <2>3
<1>9. CASE Renamed
  <2>1. /\ disk' = content.names /\ content'.names = content.names /\ writes # <<>>
        /\ UNCHANGED <<record, named, interrupted, loading, bookmark, writes>>
    BY <1>9 DEF Renamed, WriteInv, memoryVars, Contents
  <2>2. stale' = IF Head(writes).of = record THEN stale ELSE stale \cup AllNames(content.names)
    BY <1>9 DEF Renamed
  <2>3. c \notin stale /\ (c \in AllNames(content.names) => Head(writes).of = record) BY <2>2
  <2> QED BY <2>1, <2>3
<1>10. CASE Recorded
  <2>1. Taken /\ UNCHANGED <<memoryVars, disk, stale>> /\ bookmark' = disk
    BY <1>10, RecordedDoes DEF WriteInv
  <2>2. ASSUME writes' # <<>>, Head(writes').of = record
        PROVE AllNames(content'.names) = named[record] \cup interrupted[record]
    BY <2>1, <2>2 DEF Taken
  <2> QED BY <2>1, <2>2 DEF memoryVars
<1>11. CASE WriteRejected
  BY <1>11, RejectedDoes, Nothings DEF Taken, piVars, memoryVars, fileVars
<1>12. CASE Catalog
  BY <1>12, Nothings DEF Catalog, JobAt, piVars, memoryVars, writeVars, fileVars
<1>13. CASE Changed \/ JobFails
  BY <1>13, EndsDoes, Nothings DEF piVars, memoryVars, writeVars, fileVars
<1>14. CASE Confirm
  BY <1>14, ConfirmDoes, Nothings DEF Added, piVars, fileVars
<1>15. CASE Retain
  BY <1>15 DEF Retain, JobAt, Unreferenced, piVars, memoryVars, writeVars, fileVars
<1>16. CASE List
  BY <1>16 DEF List, JobAt, piVars, memoryVars, writeVars, fileVars
<1>17. CASE Scan
  BY <1>17 DEF Scan, JobAt, piVars, memoryVars, writeVars, fileVars
<1>18. CASE Unlink
  BY <1>18 DEF Unlink, JobAt, piVars, memoryVars, writeVars
<1>19. CASE PreviewCopies
  BY <1>19 DEF PreviewCopies, piVars, memoryVars, writeVars
<1>20. ASSUME NEW x \in Copies, Mention(x) PROVE Keep
  BY <1>20 DEF Mention, memoryVars, writeVars
<1>21. ASSUME NEW x \in Copies, Copy(x) PROVE Keep
  BY <1>21 DEF Copy, JobAt, piVars, memoryVars, writeVars
<1>22. ASSUME NEW x \in Copies, Look(x) PROVE Keep
  BY <1>22 DEF Look, JobAt, Unreferenced, piVars, memoryVars, writeVars, fileVars
<1>23. ASSUME NEW x \in Copies, PreviewReads(x) PROVE Keep
  BY <1>23 DEF PreviewReads, piVars, memoryVars, writeVars
<1> QED BY <1>1, <1>2, <1>3, <1>4, <1>5, <1>6, <1>7, <1>8, <1>9, <1>10, <1>11, <1>12, <1>13,
    <1>14, <1>15, <1>16, <1>17, <1>18, <1>19, <1>20, <1>21, <1>22, <1>23 DEF MediaStep

\* What is named keeps its copy.
LEMMA KeptInvStep ==
  ASSUME FieldsInv, FieldsInv', PastInv, WriteInv, SaveInv, KeptInv, UnlinkInv, MediaStep
  PROVE  KeptInv'
<1> USE MediaAssumption DEF FieldsInv, MediaTypeOK, KeptInv, JobRecords
<1>0. \A c \in Copies :
        Named(c)' /\ c \notin stale' => c \notin stale /\ (Named(c) \/ c \in job.refs)
  BY NamedStep
<1>1. CASE QueueChanges
  BY <1>1, <1>0, ChainGrows DEF QueueChanges, Noticed, memoryVars, writeVars, fileVars
<1>2. CASE RunStarts
  BY <1>2, <1>0 DEF RunStarts, Noticed, memoryVars, writeVars, fileVars
<1>3. CASE RunEnds
  BY <1>3, <1>0 DEF RunEnds, Noticed, memoryVars, writeVars, fileVars
<1>4. CASE MediaPiExits
  BY <1>4, <1>0 DEF MediaPiExits, memoryVars, writeVars, fileVars
<1>5. CASE LoadBegins
  BY <1>5, <1>0 DEF LoadBegins, piVars, writeVars, fileVars
<1>6. CASE LoadEnds
  BY <1>6, <1>0, Nothings DEF LoadEnds, writeVars, fileVars
<1>7. CASE MediaCrash
  BY <1>7, <1>0, Nothings DEF MediaCrash
<1>8. ASSUME NEW r \in Records, Persist(r) PROVE KeptInv'
  BY <1>8, <1>0, PersistDoes DEF Added, piVars, memoryVars, fileVars
<1>9. CASE Renamed
  BY <1>9, <1>0 DEF Renamed, piVars, memoryVars, fileVars
<1>10. CASE Recorded
  <2>1. UNCHANGED <<history, copies, late>> BY <1>10, RecordedDoes DEF piVars, fileVars
  <2>2. job'.refs = job.refs /\ (job.at = "copy" => job'.at = "copy") BY <1>10, RecordedDoes
  <2> QED BY <1>0, <2>1, <2>2
<1>11. CASE WriteRejected
  BY <1>11, <1>0, RejectedDoes, Nothings DEF Taken, piVars, memoryVars, fileVars
<1>12. CASE Catalog
  BY <1>12, <1>0, Nothings DEF Catalog, JobAt, piVars, memoryVars, writeVars, fileVars
<1>13. CASE Changed \/ JobFails
  BY <1>13, <1>0, EndsDoes, Nothings DEF piVars, memoryVars, writeVars, fileVars
<1>14. CASE Confirm
  BY <1>14, <1>0, ConfirmDoes, Nothings DEF Added, piVars, fileVars
<1>15. CASE Retain
  BY <1>15, <1>0 DEF Retain, JobAt, Unreferenced, piVars, memoryVars, writeVars, fileVars
<1>16. CASE List
  BY <1>16, <1>0 DEF List, JobAt, piVars, memoryVars, writeVars, fileVars
<1>17. CASE Scan
  BY <1>17, <1>0 DEF Scan, JobAt, piVars, memoryVars, writeVars, fileVars
<1>18. CASE Unlink
  <2>1. job.at = "unlink" /\ copies' = copies \ job.todo /\ UNCHANGED <<history, late, stale>>
    BY <1>18 DEF Unlink, JobAt, piVars, writeVars, fileVars
  <2>2. job'.refs = {} /\ job.refs = {} BY <1>18, <2>1 DEF Unlink
  <2>3. \A c \in Copies : Named(c)' /\ c \notin stale' => c \in copies' BY <1>0, <2>1,
      <2>2 DEF UnlinkInv
  <2>4. \A c \in history' : c \notin late' => c \in copies' BY <2>1 DEF UnlinkInv
  <2> QED BY <2>2, <2>3, <2>4
<1>19. CASE PreviewCopies
  BY <1>19, <1>0 DEF PreviewCopies, piVars, memoryVars, writeVars
<1>20. ASSUME NEW c \in Copies, Mention(c) PROVE KeptInv'
  BY <1>20, <1>0 DEF Mention, memoryVars, writeVars
<1>21. ASSUME NEW c \in Copies, Copy(c) PROVE KeptInv'
  BY <1>21, <1>0 DEF Copy, JobAt, piVars, memoryVars, writeVars
<1>22. ASSUME NEW c \in Copies, Look(c) PROVE KeptInv'
  BY <1>22, <1>0 DEF Look, JobAt, Unreferenced, piVars, memoryVars, writeVars, fileVars
<1>23. ASSUME NEW c \in Copies, PreviewReads(c) PROVE KeptInv'
  BY <1>23, <1>0 DEF PreviewReads, piVars, memoryVars, writeVars
<1> QED BY <1>1, <1>2, <1>3, <1>4, <1>5, <1>6, <1>7, <1>8, <1>9, <1>10, <1>11, <1>12, <1>13,
    <1>14, <1>15, <1>16, <1>17, <1>18, <1>19, <1>20, <1>21, <1>22, <1>23 DEF MediaStep

\* While copies are sought, nothing is mentioned unnoticed.
LEMMA QuietInvStep ==
  ASSUME FieldsInv, FieldsInv', PastInv, WriteInv, SaveInv, QuietInv, MediaStep
  PROVE  QuietInv'
<1> USE MediaAssumption DEF FieldsInv, MediaTypeOK, QuietInv, JobRecords
<1>1. CASE QueueChanges
  BY <1>1, ChainGrows DEF QueueChanges, Noticed, memoryVars, writeVars, fileVars
<1>2. CASE RunStarts
  BY <1>2 DEF RunStarts, Noticed, memoryVars, writeVars, fileVars
<1>3. CASE RunEnds
  BY <1>3 DEF RunEnds, Noticed, memoryVars, writeVars, fileVars
<1>4. CASE MediaPiExits
  BY <1>4 DEF MediaPiExits, memoryVars, writeVars, fileVars
<1>5. CASE LoadBegins
  BY <1>5 DEF LoadBegins, piVars, writeVars, fileVars
<1>6. CASE LoadEnds
  BY <1>6, Nothings DEF LoadEnds, writeVars, fileVars
<1>7. CASE MediaCrash
  BY <1>7, Nothings DEF MediaCrash
<1>8. ASSUME NEW r \in Records, Persist(r) PROVE QuietInv'
  BY <1>8, PersistDoes DEF Added, piVars, memoryVars, fileVars
<1>9. CASE Renamed
  BY <1>9 DEF Renamed, piVars, memoryVars, fileVars
<1>10. CASE Recorded
  <2>1. (job'.at = "look" \/ ~job'.same) /\ UNCHANGED <<running, history>> BY <1>10,
      RecordedDoes DEF piVars
  <2> QED BY <2>1
<1>11. CASE WriteRejected
  BY <1>11, RejectedDoes, Nothings DEF Taken, piVars, memoryVars, fileVars
<1>12. CASE Catalog
  BY <1>12, Nothings DEF Catalog, JobAt, piVars, memoryVars, writeVars, fileVars
<1>13. CASE Changed \/ JobFails
  BY <1>13, EndsDoes, Nothings DEF piVars, memoryVars, writeVars, fileVars
<1>14. CASE Confirm
  <2>1. job'.at \in {"save", "catalog"} BY <1>14, ConfirmDoes, Nothings
  <2> QED BY <2>1
<1>15. CASE Retain
  BY <1>15 DEF Retain, JobAt, Unreferenced, piVars, memoryVars, writeVars, fileVars
<1>16. CASE List
  BY <1>16 DEF List, JobAt, piVars, memoryVars, writeVars, fileVars
<1>17. CASE Scan
  BY <1>17 DEF Scan, JobAt, piVars, memoryVars, writeVars, fileVars
<1>18. CASE Unlink
  BY <1>18 DEF Unlink, JobAt, piVars, memoryVars, writeVars
<1>19. CASE PreviewCopies
  BY <1>19 DEF PreviewCopies, piVars, memoryVars, writeVars
<1>20. ASSUME NEW c \in Copies, Mention(c) PROVE QuietInv'
  BY <1>20 DEF Mention, memoryVars, writeVars
<1>21. ASSUME NEW c \in Copies, Copy(c) PROVE QuietInv'
  BY <1>21 DEF Copy, JobAt, piVars, memoryVars, writeVars
<1>22. ASSUME NEW c \in Copies, Look(c) PROVE QuietInv'
  BY <1>22 DEF Look, JobAt, Unreferenced, piVars, memoryVars, writeVars, fileVars
<1>23. ASSUME NEW c \in Copies, PreviewReads(c) PROVE QuietInv'
  BY <1>23 DEF PreviewReads, piVars, memoryVars, writeVars
<1> QED BY <1>1, <1>2, <1>3, <1>4, <1>5, <1>6, <1>7, <1>8, <1>9, <1>10, <1>11, <1>12, <1>13,
    <1>14, <1>15, <1>16, <1>17, <1>18, <1>19, <1>20, <1>21, <1>22, <1>23 DEF MediaStep

\* What the disk names, the first look will find.
LEMMA LookInvStep ==
  ASSUME FieldsInv, FieldsInv', PastInv, WriteInv, SaveInv, LookInv, MediaStep
  PROVE  LookInv'
<1> USE MediaAssumption DEF FieldsInv, MediaTypeOK, LookInv, Removing, JobRecords
<1>1. CASE QueueChanges
  BY <1>1, ChainGrows DEF QueueChanges, Noticed, memoryVars, writeVars, fileVars
<1>2. CASE RunStarts
  BY <1>2 DEF RunStarts, Noticed, memoryVars, writeVars, fileVars
<1>3. CASE RunEnds
  BY <1>3 DEF RunEnds, Noticed, memoryVars, writeVars, fileVars
<1>4. CASE MediaPiExits
  BY <1>4 DEF MediaPiExits, memoryVars, writeVars, fileVars
<1>5. CASE LoadBegins
  BY <1>5 DEF LoadBegins, piVars, writeVars, fileVars
<1>6. CASE LoadEnds
  <2>1. record' = record + 1 /\ record \in Nat BY <1>6 DEF LoadEnds, Records
  <2>2. chain' = Append(chain, record') /\ job' = job BY <1>6 DEF LoadEnds
  <2>3. CASE chain = <<>> BY <2>2, <2>3 DEF PastInv
  <2>4. CASE chain # <<>>
    <3>1. Head(chain) \in 1..record BY <2>4, Shortened DEF PastInv
    <3>2. record' \in Records BY <1>6 DEF LoadEnds
    <3>3. Head(chain') = Head(chain) BY <2>2, <2>4, <3>2, Appended
    <3> QED BY <2>1, <3>1, <3>3
  <2> QED BY <2>3, <2>4
<1>7. CASE MediaCrash
  BY <1>7, Nothings DEF MediaCrash
<1>8. ASSUME NEW r \in Records, Persist(r) PROVE LookInv'
  BY <1>8, PersistDoes DEF Added, piVars, memoryVars, fileVars
<1>9. CASE Renamed
  <2>1. /\ disk' = content.names /\ writes # <<>>
        /\ UNCHANGED <<record, named, interrupted, bookmark, chain, job>>
    BY <1>9 DEF Renamed, WriteInv, memoryVars
  <2>2. stale' = IF Head(writes).of = record THEN stale ELSE stale \cup AllNames(content.names)
    BY <1>9 DEF Renamed
  <2>3. ASSUME Head(writes).of = record, job.at = "look"
        PROVE AllNames(content.names) = named[record] \cup interrupted[record]
    BY <2>1, <2>3 DEF SaveInv, AllNames
  <2> QED BY <2>1, <2>2, <2>3
<1>10. CASE Recorded
  <2>1. disk' = bookmark' BY <1>10, RecordedDoes DEF WriteInv
  <2> QED BY <2>1
<1>11. CASE WriteRejected
  BY <1>11, RejectedDoes, Nothings DEF Taken, piVars, memoryVars, fileVars
<1>12. CASE Catalog
  BY <1>12, Nothings DEF Catalog, JobAt, piVars, memoryVars, writeVars, fileVars
<1>13. CASE Changed \/ JobFails
  BY <1>13, EndsDoes, Nothings DEF piVars, memoryVars, writeVars, fileVars
<1>14. CASE Confirm
  BY <1>14, ConfirmDoes, Nothings DEF Added, piVars, fileVars
<1>15. CASE Retain
  BY <1>15 DEF Retain, JobAt, Unreferenced, piVars, memoryVars, writeVars, fileVars
<1>16. CASE List
  BY <1>16 DEF List, JobAt, piVars, memoryVars, writeVars, fileVars
<1>17. CASE Scan
  BY <1>17 DEF Scan, JobAt, piVars, memoryVars, writeVars, fileVars
<1>18. CASE Unlink
  BY <1>18 DEF Unlink, JobAt, piVars, memoryVars, writeVars
<1>19. CASE PreviewCopies
  BY <1>19 DEF PreviewCopies, piVars, memoryVars, writeVars
<1>20. ASSUME NEW c \in Copies, Mention(c) PROVE LookInv'
  BY <1>20 DEF Mention, memoryVars, writeVars
<1>21. ASSUME NEW c \in Copies, Copy(c) PROVE LookInv'
  BY <1>21 DEF Copy, JobAt, piVars, memoryVars, writeVars
<1>22. ASSUME NEW c \in Copies, Look(c) PROVE LookInv'
  BY <1>22 DEF Look, JobAt, Unreferenced, piVars, memoryVars, writeVars, fileVars
<1>23. ASSUME NEW c \in Copies, PreviewReads(c) PROVE LookInv'
  BY <1>23 DEF PreviewReads, piVars, memoryVars, writeVars
<1> QED BY <1>1, <1>2, <1>3, <1>4, <1>5, <1>6, <1>7, <1>8, <1>9, <1>10, <1>11, <1>12, <1>13,
    <1>14, <1>15, <1>16, <1>17, <1>18, <1>19, <1>20, <1>21, <1>22, <1>23 DEF MediaStep

\* What is named does not become a candidate.
LEMMA AimInvStep ==
  ASSUME FieldsInv, FieldsInv', PastInv, WriteInv, SaveInv, KeptInv, LookInv, AimInv, MediaStep
  PROVE  AimInv'
<1> USE MediaAssumption DEF FieldsInv, MediaTypeOK, AimInv, Removing, JobRecords
<1>0. job.at # "copy" =>
        \A c \in Copies : Named(c)' /\ c \notin stale' => Named(c) /\ c \notin stale
  BY NamedStep DEF KeptInv
<1>1. CASE QueueChanges
  BY <1>1, <1>0, ChainGrows DEF QueueChanges, Noticed, memoryVars, writeVars, fileVars
<1>2. CASE RunStarts
  BY <1>2, <1>0 DEF RunStarts, Noticed, memoryVars, writeVars, fileVars
<1>3. CASE RunEnds
  BY <1>3, <1>0 DEF RunEnds, Noticed, memoryVars, writeVars, fileVars
<1>4. CASE MediaPiExits
  BY <1>4, <1>0 DEF MediaPiExits, memoryVars, writeVars, fileVars
<1>5. CASE LoadBegins
  BY <1>5, <1>0 DEF LoadBegins, piVars, writeVars, fileVars
<1>6. CASE LoadEnds
  <2>1. record' = record + 1 /\ record \in Nat BY <1>6 DEF LoadEnds, Records
  <2>2. chain' = Append(chain, record') /\ job' = job BY <1>6 DEF LoadEnds
  <2>3. CASE chain = <<>> BY <2>2, <2>3 DEF PastInv
  <2>4. CASE chain # <<>>
    <3>1. Head(chain) \in 1..record BY <2>4, Shortened DEF PastInv
    <3>2. record' \in Records BY <1>6 DEF LoadEnds
    <3>3. Head(chain') = Head(chain) BY <2>2, <2>4, <3>2, Appended
    <3> QED BY <2>1, <3>1, <3>3
  <2> QED BY <2>3, <2>4
<1>7. CASE MediaCrash
  BY <1>7, <1>0, Nothings DEF MediaCrash
<1>8. ASSUME NEW r \in Records, Persist(r) PROVE AimInv'
  BY <1>8, <1>0, PersistDoes DEF Added, piVars, memoryVars, fileVars
<1>9. CASE Renamed
  BY <1>9, <1>0 DEF Renamed, piVars, memoryVars, fileVars
<1>10. CASE Recorded
  <2>1. job'.at = "look" \/ ~job'.same BY <1>10, RecordedDoes
  <2> QED BY <2>1
<1>11. CASE WriteRejected
  BY <1>11, <1>0, RejectedDoes, Nothings DEF Taken, piVars, memoryVars, fileVars
<1>12. CASE Catalog
  BY <1>12, <1>0, Nothings DEF Catalog, JobAt, piVars, memoryVars, writeVars, fileVars
<1>13. CASE Changed \/ JobFails
  BY <1>13, <1>0, EndsDoes, Nothings DEF piVars, memoryVars, writeVars, fileVars
<1>14. CASE Confirm
  <2>1. job'.at \in {"save", "catalog"} BY <1>14, ConfirmDoes, Nothings
  <2> QED BY <2>1
<1>15. CASE Retain
  <2>1. /\ job.at = "look" /\ Removing /\ job'.at = "list" /\ ~loading.on
        /\ job'.kept = named[record] \cup interrupted[record] \cup AllNames(bookmark)
    BY <1>15 DEF Retain, JobAt, Unreferenced, PastInv
  <2>2. ASSUME NEW c \in Copies, Named(c), c \notin stale PROVE c \in job'.kept
    <3>1. CASE c \in AllNames(disk) BY <2>1, <2>2, <3>1 DEF LookInv
    <3>2. CASE writes # <<>> /\ Head(writes).of = record /\ c \in AllNames(content.names)
      BY <2>1, <3>2 DEF SaveInv, AllNames
    <3> QED BY <2>1, <2>2, <3>1, <3>2 DEF Named
  <2> QED BY <1>0, <2>1, <2>2
<1>16. CASE List
  BY <1>16, <1>0 DEF List, JobAt, piVars, memoryVars, writeVars, fileVars
<1>17. CASE Scan
  BY <1>17, <1>0 DEF Scan, JobAt, piVars, memoryVars, writeVars, fileVars
<1>18. CASE Unlink
  <2>1. /\ job.at = "unlink" /\ job'.at = "next" /\ job'.candidates = job.candidates
        /\ job'.same = job.same /\ UNCHANGED <<chain, record, stale>>
    BY <1>18 DEF Unlink, JobAt, memoryVars, writeVars
  <2> QED BY <1>0, <2>1
<1>19. CASE PreviewCopies
  BY <1>19, <1>0 DEF PreviewCopies, piVars, memoryVars, writeVars
<1>20. ASSUME NEW c \in Copies, Mention(c) PROVE AimInv'
  BY <1>20, <1>0 DEF Mention, memoryVars, writeVars
<1>21. ASSUME NEW c \in Copies, Copy(c) PROVE AimInv'
  BY <1>21, <1>0 DEF Copy, JobAt, piVars, memoryVars, writeVars
<1>22. ASSUME NEW c \in Copies, Look(c) PROVE AimInv'
  BY <1>22, <1>0 DEF Look, JobAt, Unreferenced, piVars, memoryVars, writeVars, fileVars
<1>23. ASSUME NEW c \in Copies, PreviewReads(c) PROVE AimInv'
  BY <1>23, <1>0 DEF PreviewReads, piVars, memoryVars, writeVars
<1> QED BY <1>1, <1>2, <1>3, <1>4, <1>5, <1>6, <1>7, <1>8, <1>9, <1>10, <1>11, <1>12, <1>13,
    <1>14, <1>15, <1>16, <1>17, <1>18, <1>19, <1>20, <1>21, <1>22, <1>23 DEF MediaStep

\* What is named or was mentioned is not removed.
LEMMA UnlinkInvStep ==
  ASSUME FieldsInv, FieldsInv', PastInv, WriteInv, SaveInv, KeptInv, QuietInv, AimInv, UnlinkInv,
      MediaStep
  PROVE  UnlinkInv'
<1> USE MediaAssumption DEF FieldsInv, MediaTypeOK, UnlinkInv, JobRecords
<1>0. job.at # "copy" =>
        \A c \in Copies : Named(c)' /\ c \notin stale' => Named(c) /\ c \notin stale
  BY NamedStep DEF KeptInv
<1>1. CASE QueueChanges
  BY <1>1, <1>0, ChainGrows DEF QueueChanges, Noticed, memoryVars, writeVars, fileVars
<1>2. CASE RunStarts
  BY <1>2, <1>0 DEF RunStarts, Noticed, memoryVars, writeVars, fileVars
<1>3. CASE RunEnds
  BY <1>3, <1>0 DEF RunEnds, Noticed, memoryVars, writeVars, fileVars
<1>4. CASE MediaPiExits
  BY <1>4, <1>0 DEF MediaPiExits, memoryVars, writeVars, fileVars
<1>5. CASE LoadBegins
  BY <1>5, <1>0 DEF LoadBegins, piVars, writeVars, fileVars
<1>6. CASE LoadEnds
  BY <1>6, <1>0, Nothings DEF LoadEnds, writeVars, fileVars
<1>7. CASE MediaCrash
  BY <1>7, <1>0, Nothings DEF MediaCrash
<1>8. ASSUME NEW r \in Records, Persist(r) PROVE UnlinkInv'
  BY <1>8, <1>0, PersistDoes DEF Added, piVars, memoryVars, fileVars
<1>9. CASE Renamed
  BY <1>9, <1>0 DEF Renamed, piVars, memoryVars, fileVars
<1>10. CASE Recorded
  <2>1. job'.at = "unlink" => job.at = "unlink" /\ job'.todo = job.todo BY <1>10, RecordedDoes
  <2>2. UNCHANGED <<history, late, stale>> BY <1>10, RecordedDoes DEF piVars, fileVars
  <2> QED BY <1>0, <2>1, <2>2
<1>11. CASE WriteRejected
  BY <1>11, <1>0, RejectedDoes, Nothings DEF Taken, piVars, memoryVars, fileVars
<1>12. CASE Catalog
  BY <1>12, <1>0, Nothings DEF Catalog, JobAt, piVars, memoryVars, writeVars, fileVars
<1>13. CASE Changed \/ JobFails
  BY <1>13, <1>0, EndsDoes, Nothings DEF piVars, memoryVars, writeVars, fileVars
<1>14. CASE Confirm
  BY <1>14, <1>0, ConfirmDoes, Nothings DEF Added, piVars, fileVars
<1>15. CASE Retain
  BY <1>15, <1>0 DEF Retain, JobAt, Unreferenced, piVars, memoryVars, writeVars, fileVars
<1>16. CASE List
  BY <1>16, <1>0 DEF List, JobAt, piVars, memoryVars, writeVars, fileVars
<1>17. CASE Scan
  BY <1>17, <1>0 DEF Scan, JobAt, piVars, memoryVars, writeVars, fileVars
<1>18. CASE Unlink
  BY <1>18, <1>0 DEF Unlink, JobAt, piVars, memoryVars, writeVars
<1>19. CASE PreviewCopies
  BY <1>19, <1>0 DEF PreviewCopies, piVars, memoryVars, writeVars
<1>20. ASSUME NEW c \in Copies, Mention(c) PROVE UnlinkInv'
  BY <1>20, <1>0 DEF Mention, memoryVars, writeVars
<1>21. ASSUME NEW c \in Copies, Copy(c) PROVE UnlinkInv'
  BY <1>21, <1>0 DEF Copy, JobAt, piVars, memoryVars, writeVars
<1>22. ASSUME NEW c \in Copies, Look(c) PROVE UnlinkInv'
  <2>1. /\ job.at = "next" /\ Removing /\ c \in job.candidates /\ job'.todo = {c}
        /\ UNCHANGED <<history, late, stale>>
    BY <1>22 DEF Look, JobAt, Unreferenced, Removing, piVars, fileVars, writeVars
  <2>2. c \notin history BY <2>1 DEF QuietInv, Removing
  <2>3. Named(c) => c \in stale BY <2>1 DEF AimInv
  <2> QED BY <1>0, <2>1, <2>2, <2>3
<1>23. ASSUME NEW c \in Copies, PreviewReads(c) PROVE UnlinkInv'
  BY <1>23, <1>0 DEF PreviewReads, piVars, memoryVars, writeVars
<1> QED BY <1>1, <1>2, <1>3, <1>4, <1>5, <1>6, <1>7, <1>8, <1>9, <1>10, <1>11, <1>12, <1>13,
    <1>14, <1>15, <1>16, <1>17, <1>18, <1>19, <1>20, <1>21, <1>22, <1>23 DEF MediaStep

-----------------------------------------------------------------------------
(* What is named keeps its copy.                                           *)

\* Nothing is named: the parts of the invariant hold.
LEMMA MediaStart ==
  ASSUME MediaInit
  PROVE  MediaInv
<1> USE MediaAssumption, Nothings DEF MediaInit
<1>1. loading \in Loads BY DEF Loads
<1>2. FieldsInv
  <2>1. job.at = "catalog" /\ content.at = "none" /\ content.names \in Names BY DEF Contents
  <2>2. loading.on \in BOOLEAN /\ loading.names \in Names BY <1>1 DEF Loads
  <2>3. revision \in 0..MaxChanges /\ record \in Records BY DEF Records
  <2>4. chain \in Seq(Records) /\ writes \in Seq([of : Records, job : BOOLEAN]) OBVIOUS
  <2>5. MediaTypeOK BY <2>1, <2>2, <2>3, <2>4 DEF MediaTypeOK
  <2> QED BY <1>1, <2>5 DEF FieldsInv
<1>3. PastInv /\ WriteInv /\ SaveInv BY DEF PastInv, WriteInv, SaveInv
<1>4. \A c \in Copies : ~Named(c) BY DEF Named, AllNames, Records
<1>5. KeptInv BY <1>4 DEF KeptInv
<1>6. QuietInv /\ LookInv /\ AimInv /\ UnlinkInv
  BY DEF QuietInv, LookInv, AimInv, UnlinkInv, Removing
<1> QED BY <1>2, <1>3, <1>5, <1>6 DEF MediaInv

\* The parts together are kept by every step, and by a stutter.
LEMMA MediaKeeps ==
  ASSUME MediaInv, [MediaStep]_mediaVars
  PROVE  MediaInv'
<1>1. CASE MediaStep
  <2> USE <1>1 DEF MediaInv
  <2>1. FieldsInv' BY FieldsInvStep
  <2>2. PastInv' BY <2>1, PastInvStep
  <2>3. WriteInv' BY <2>1, WriteInvStep
  <2>4. SaveInv' BY <2>1, SaveInvStep
  <2>5. KeptInv' BY <2>1, KeptInvStep
  <2>6. QuietInv' BY <2>1, QuietInvStep
  <2>7. LookInv' BY <2>1, LookInvStep
  <2>8. AimInv' BY <2>1, AimInvStep
  <2>9. UnlinkInv' BY <2>1, UnlinkInvStep
  <2> QED BY <2>1, <2>2, <2>3, <2>4, <2>5, <2>6, <2>7, <2>8, <2>9
<1>2. CASE UNCHANGED mediaVars
  <2> USE <1>2 DEF mediaVars
  <2>1. \A c \in Copies : Named(c)' <=> Named(c) BY DEF Named
  <2>2. FieldsInv' /\ PastInv' /\ WriteInv' /\ SaveInv'
    BY DEF MediaInv, FieldsInv, MediaTypeOK, PastInv, WriteInv, SaveInv
  <2>3. KeptInv' /\ QuietInv' /\ LookInv' BY <2>1 DEF MediaInv, KeptInv, QuietInv, LookInv, Removing
  <2>4. AimInv' BY <2>1 DEF MediaInv, AimInv, Removing
  <2>5. job.todo \subseteq Copies BY DEF MediaInv, FieldsInv, JobRecords
  <2>6. UnlinkInv' BY <2>1, <2>5 DEF MediaInv, UnlinkInv
  <2> QED BY <2>2, <2>3, <2>4, <2>6 DEF MediaInv
<1> QED BY <1>1, <1>2

\* In every state the record, the bookmark, its writes, the refreshes and the removal of
\* copies are as the parts of the invariant say.
THEOREM MediaInvariant == MediaSpec => []MediaInv
<1>1. MediaInit => MediaInv BY MediaStart
<1>2. MediaInv /\ [MediaStep]_mediaVars => MediaInv' BY MediaKeeps
<1> QED BY <1>1, <1>2, PTL DEF MediaSpec

\* Whatever the record, the bookmark on the disk or the history name keeps its copy, however
\* changes of the queue, runs, loads, saves and crashes fall between the looks and the
\* removals (pruneUnreferenced), but for the two exceptions that EvidenceKept states.
THEOREM EvidenceStays == MediaSpec => []EvidenceKept
<1>1. ASSUME MediaInv PROVE EvidenceKept
  <2> USE <1>1 DEF MediaInv, FieldsInv, MediaTypeOK
  <2>1. AllNames(disk) \cup named[record] \cup interrupted[record] \subseteq Copies
    BY DEF AllNames, Names
  <2>2. \A c \in AllNames(disk) \cup named[record] \cup interrupted[record] : Named(c) BY DEF Named
  <2> QED BY <2>1, <2>2 DEF KeptInv, EvidenceKept
<1> QED BY <1>1, MediaInvariant, PTL

=============================================================================
