--------------------- MODULE PiSupervisorLifecycleProofs ---------------------
(***************************************************************************)
(* Proofs about PiSupervisorLifecycle, for any number of runtimes and      *)
(* files; and about PiSettings, the saves of one document, for any number  *)
(* of saves.                                                               *)
(***************************************************************************)
EXTENDS PiSupervisorLifecycle, PiSettings, TLAPS

\* Somebody is to give the lease of runtime s back, or keeps it.
Custody(s) ==
  \/ pc[s] \in {"mark", "launch", "state", "check", "dispose", "release", "kept"}
  \/ s \in sessions \cup closing
  \/ cleanup[s] \in {"dispose", "release", "failed"}

\* The places a runtime can be in while something of it runs.
MayRun(s) ==
  \/ pc[s] \in {"state", "check", "dispose", "kept"}
  \/ s \in sessions
  \/ s \in closing /\ flight[s] # "release"
  \/ cleanup[s] \in {"dispose", "failed"}

\* A runtime is in one place at a time, holds its lease exactly while somebody
\* is to give it back, and runs only in the places that look at its tree before.
Runtime(s) ==
  /\ Custody(s) <=> lease[FileOf[s]] = s
  /\ s \in tree => MayRun(s)
  /\ s \in sessions \cup closing \/ cleanup[s] # "none" => pc[s] = "up"
  /\ s \in sessions => s \notin closing /\ cleanup[s] = "none" /\ root[s] = "live"
  /\ s \in closing => cleanup[s] = "none"
  /\ flight[s] # "none" => s \in closing

RuntimeInv == \A s \in Starts : Runtime(s)

\* What dispose has behind it.
DisposeInv ==
  /\ disposing \in {"closes", "exits", "done", "failed"} =>
       /\ sessions = {}
       /\ \A s \in Starts : pc[s] \notin PendingStart
       /\ \A s \in closing : s \in awaited \/ rejected
  /\ disposing \in {"exits", "done", "failed"} => awaited = {}
  /\ disposing = "done" => ~rejected /\ \A s \in Starts : cleanup[s] \in {"none", "done"}

-----------------------------------------------------------------------------
(* Type correctness.                                                       *)

\* Every step keeps the types.
LEMMA TypeStep == TypeOK /\ [Next]_vars => TypeOK'
<1> SUFFICES ASSUME TypeOK, [Next]_vars PROVE TypeOK'
  OBVIOUS
<1> USE LifecycleAssumption
    DEF TypeOK, PendingStart, Ending, starting, closes, cleanups, disposal, Goto, At
<1>1. ASSUME NEW s \in Starts, Call(s) PROVE TypeOK'
  BY <1>1 DEF Call
<1>2. ASSUME NEW s \in Starts, AwaitCleanup(s) PROVE TypeOK'
  BY <1>2 DEF AwaitCleanup
<1>2a. ASSUME NEW s \in Starts, FindCleanup(s) PROVE TypeOK'
  BY <1>2a, LifecycleAssumption DEF FindCleanup
<1>3. ASSUME NEW s \in Starts, Refused(s) PROVE TypeOK'
  BY <1>3 DEF Refused
<1>4. ASSUME NEW s \in Starts, Acquire(s) PROVE TypeOK'
  BY <1>4 DEF Acquire
<1>5. ASSUME NEW s \in Starts, Mark(s) PROVE TypeOK'
  BY <1>5 DEF Mark
<1>6. ASSUME NEW s \in Starts, Launch(s) PROVE TypeOK'
  BY <1>6 DEF Launch
<1>7. ASSUME NEW s \in Starts, StateAnswered(s) PROVE TypeOK'
  BY <1>7 DEF StateAnswered
<1>8. ASSUME NEW s \in Starts, Register(s) PROVE TypeOK'
  BY <1>8 DEF Register
<1>9. ASSUME NEW s \in Starts, StartFails(s) PROVE TypeOK'
  BY <1>9 DEF StartFails
<1>10. ASSUME NEW s \in Starts, StartDisposes(s) PROVE TypeOK'
  BY <1>10 DEF StartDisposes, TreeDisposed, TreeUnverified
<1>11. ASSUME NEW s \in Starts, StartReleases(s) PROVE TypeOK'
  BY <1>11 DEF StartReleases, Free
<1>12. ASSUME NEW s \in Starts, Exit(s) PROVE TypeOK'
  BY <1>12 DEF Exit
<1>13. ASSUME NEW s \in Starts, TreeEnds(s) PROVE TypeOK'
  BY <1>13 DEF TreeEnds
<1>14. ASSUME NEW s \in Starts, CleanupDisposes(s) PROVE TypeOK'
  BY <1>14 DEF CleanupDisposes, TreeDisposed, TreeUnverified
<1>15. ASSUME NEW s \in Starts, CleanupReleases(s) PROVE TypeOK'
  BY <1>15 DEF CleanupReleases, Free
<1>16. ASSUME NEW s \in Starts, Close(s) PROVE TypeOK'
  BY <1>16 DEF Close, CloseAll
<1>17. ASSUME NEW s \in Starts, CloseSettled(s) PROVE TypeOK'
  BY <1>17 DEF CloseSettled
<1>18. ASSUME NEW s \in Starts, CloseDisposes(s) PROVE TypeOK'
  <2>1. rejected' \in BOOLEAN
    BY <1>18 DEF CloseDisposes, FlightEnds
  <2>2. flight' \in [Starts -> {"none", "settle"} \cup Ending] /\ awaited' \subseteq Starts
    BY <1>18 DEF CloseDisposes, FlightEnds
  <2>3. root' \in [Starts -> {"none", "live", "closed"}] /\ tree' \subseteq Starts
    BY <1>18 DEF CloseDisposes, TreeDisposed, TreeUnverified
  <2>4. lease' \in [Files -> Starts \cup {None}] /\ closing' \subseteq Starts
    BY <1>18 DEF CloseDisposes, Free
  <2>5. QED
    BY <1>18, <2>1, <2>2, <2>3, <2>4 DEF CloseDisposes, FlightEnds
<1>19. ASSUME NEW s \in Starts, CloseReleases(s) PROVE TypeOK'
  <2>1. rejected' \in BOOLEAN
    BY <1>19 DEF CloseReleases, FlightEnds
  <2>2. flight' \in [Starts -> {"none", "settle"} \cup Ending] /\ awaited' \subseteq Starts
    BY <1>19 DEF CloseReleases, FlightEnds
  <2>3. root' \in [Starts -> {"none", "live", "closed"}] /\ tree' \subseteq Starts
    BY <1>19 DEF CloseReleases, TreeDisposed, TreeUnverified
  <2>4. lease' \in [Files -> Starts \cup {None}] /\ closing' \subseteq Starts
    BY <1>19 DEF CloseReleases, Free
  <2>5. QED
    BY <1>19, <2>1, <2>2, <2>3, <2>4 DEF CloseReleases, FlightEnds
<1>20. CASE Dispose
  BY <1>20 DEF Dispose
<1>21. CASE DisposeCloses
  BY <1>21 DEF DisposeCloses, CloseAll
<1>22. CASE DisposeAwaitsExits
  BY <1>22 DEF DisposeAwaitsExits
<1>23. CASE Disposed
  BY <1>23 DEF Disposed
<1>24. CASE UNCHANGED vars
  BY <1>24 DEF vars
<1>25. QED
  BY <1>1, <1>2, <1>2a, <1>3, <1>4, <1>5, <1>6, <1>7, <1>8, <1>9, <1>10, <1>11, <1>12, <1>13,
     <1>14, <1>15, <1>16, <1>17, <1>18, <1>19, <1>20, <1>21, <1>22, <1>23, <1>24
  DEF Next, StartStep, CloseStep, CleanupStep, DisposeStep

\* The supervisor's tables stay in their types, for any runtimes and files.
THEOREM LifecycleTypeCorrect == Spec => []TypeOK
<1>1. Init => TypeOK
  BY DEF Init, TypeOK
<1>2. QED
  BY <1>1, TypeStep, PTL DEF Spec

-----------------------------------------------------------------------------
(* Leases and trees.                                                       *)

\* Every step keeps each runtime in one place, with its lease.
LEMMA RuntimeStep == TypeOK /\ RuntimeInv /\ [Next]_vars => RuntimeInv'
<1> SUFFICES ASSUME TypeOK, RuntimeInv, [Next]_vars, NEW t \in Starts PROVE Runtime(t)'
  BY DEF RuntimeInv
<1>0. Runtime(t)
  BY DEF RuntimeInv
<1> USE LifecycleAssumption
    DEF TypeOK, Runtime, Custody, MayRun, starting, closes, cleanups, disposal, Goto, At
<1>1. ASSUME NEW s \in Starts, Call(s) PROVE Runtime(t)'
  <2>1. Runtime(s)
    BY DEF RuntimeInv
  <2>2. QED
    BY <1>0, <1>1, <2>1 DEF Call
<1>2. ASSUME NEW s \in Starts, AwaitCleanup(s) PROVE Runtime(t)'
  <2>1. Runtime(s)
    BY DEF RuntimeInv
  <2>2. QED
    BY <1>0, <1>2, <2>1 DEF AwaitCleanup
<1>2a. ASSUME NEW s \in Starts, FindCleanup(s) PROVE Runtime(t)'
  <2>1. Runtime(s)
    BY DEF RuntimeInv
  <2>2. QED
    BY <1>0, <1>2a, <2>1 DEF FindCleanup
<1>3. ASSUME NEW s \in Starts, Refused(s) PROVE Runtime(t)'
  <2>1. Runtime(s)
    BY DEF RuntimeInv
  <2>2. QED
    BY <1>0, <1>3, <2>1 DEF Refused
<1>4. ASSUME NEW s \in Starts, Acquire(s) PROVE Runtime(t)'
  <2>1. Runtime(s)
    BY DEF RuntimeInv
  <2>2. QED
    BY <1>0, <1>4, <2>1 DEF Acquire
<1>5. ASSUME NEW s \in Starts, Mark(s) PROVE Runtime(t)'
  <2>1. Runtime(s)
    BY DEF RuntimeInv
  <2>2. QED
    BY <1>0, <1>5, <2>1 DEF Mark
<1>6. ASSUME NEW s \in Starts, Launch(s) PROVE Runtime(t)'
  <2>1. Runtime(s)
    BY DEF RuntimeInv
  <2>2. QED
    BY <1>0, <1>6, <2>1 DEF Launch
<1>7. ASSUME NEW s \in Starts, StateAnswered(s) PROVE Runtime(t)'
  <2>1. Runtime(s)
    BY DEF RuntimeInv
  <2>2. QED
    BY <1>0, <1>7, <2>1 DEF StateAnswered
<1>8. ASSUME NEW s \in Starts, Register(s) PROVE Runtime(t)'
  <2>1. Runtime(s)
    BY DEF RuntimeInv
  <2>2. QED
    BY <1>0, <1>8, <2>1 DEF Register
<1>9. ASSUME NEW s \in Starts, StartFails(s) PROVE Runtime(t)'
  <2>1. Runtime(s)
    BY DEF RuntimeInv
  <2>2. QED
    BY <1>0, <1>9, <2>1 DEF StartFails
<1>10. ASSUME NEW s \in Starts, StartDisposes(s) PROVE Runtime(t)'
  <2>1. Runtime(s)
    BY DEF RuntimeInv
  <2>2. QED
    BY <1>0, <1>10, <2>1 DEF StartDisposes, TreeDisposed, TreeUnverified
<1>11. ASSUME NEW s \in Starts, StartReleases(s) PROVE Runtime(t)'
  <2>1. Runtime(s)
    BY DEF RuntimeInv
  <2>2. QED
    BY <1>0, <1>11, <2>1 DEF StartReleases, Free
<1>12. ASSUME NEW s \in Starts, Exit(s) PROVE Runtime(t)'
  <2>1. Runtime(s)
    BY DEF RuntimeInv
  <2>2. QED
    BY <1>0, <1>12, <2>1 DEF Exit
<1>13. ASSUME NEW s \in Starts, TreeEnds(s) PROVE Runtime(t)'
  <2>1. Runtime(s)
    BY DEF RuntimeInv
  <2>2. QED
    BY <1>0, <1>13, <2>1 DEF TreeEnds
<1>14. ASSUME NEW s \in Starts, CleanupDisposes(s) PROVE Runtime(t)'
  <2>1. Runtime(s)
    BY DEF RuntimeInv
  <2>2. QED
    BY <1>0, <1>14, <2>1 DEF CleanupDisposes, TreeDisposed, TreeUnverified
<1>15. ASSUME NEW s \in Starts, CleanupReleases(s) PROVE Runtime(t)'
  <2>1. Runtime(s)
    BY DEF RuntimeInv
  <2>2. QED
    BY <1>0, <1>15, <2>1 DEF CleanupReleases, Free
<1>16. ASSUME NEW s \in Starts, Close(s) PROVE Runtime(t)'
  <2>1. Runtime(s)
    BY DEF RuntimeInv
  <2>2. QED
    BY <1>0, <1>16, <2>1 DEF Close, CloseAll
<1>17. ASSUME NEW s \in Starts, CloseSettled(s) PROVE Runtime(t)'
  <2>1. Runtime(s)
    BY DEF RuntimeInv
  <2>2. QED
    BY <1>0, <1>17, <2>1 DEF CloseSettled
<1>18. ASSUME NEW s \in Starts, CloseDisposes(s) PROVE Runtime(t)'
  <2>1. Runtime(s)
    BY DEF RuntimeInv
  <2>2. QED
    BY <1>0, <1>18, <2>1 DEF CloseDisposes, TreeDisposed, TreeUnverified, FlightEnds
<1>19. ASSUME NEW s \in Starts, CloseReleases(s) PROVE Runtime(t)'
  <2>1. Runtime(s)
    BY DEF RuntimeInv
  <2>2. QED
    BY <1>0, <1>19, <2>1 DEF CloseReleases, Free, FlightEnds
<1>20. CASE Dispose
  BY <1>0, <1>20 DEF Dispose
<1>21. CASE DisposeCloses
  BY <1>0, <1>21 DEF DisposeCloses, CloseAll
<1>22. CASE DisposeAwaitsExits
  BY <1>0, <1>22 DEF DisposeAwaitsExits
<1>23. CASE Disposed
  BY <1>0, <1>23 DEF Disposed
<1>24. CASE UNCHANGED vars
  BY <1>0, <1>24 DEF vars
<1>25. QED
  BY <1>1, <1>2, <1>2a, <1>3, <1>4, <1>5, <1>6, <1>7, <1>8, <1>9, <1>10, <1>11, <1>12, <1>13,
     <1>14, <1>15, <1>16, <1>17, <1>18, <1>19, <1>20, <1>21, <1>22, <1>23, <1>24
  DEF Next, StartStep, CloseStep, CleanupStep, DisposeStep

\* Every runtime is in one place and holds its lease exactly while somebody is
\* to give it back.
LEMMA RuntimeInvariant == Spec => []RuntimeInv
<1>1. Init => RuntimeInv
  <2> SUFFICES ASSUME Init, NEW s \in Starts PROVE Runtime(s)
    BY DEF RuntimeInv
  <2>1. /\ pc[s] = "idle" /\ root[s] = "none" /\ flight[s] = "none" /\ cleanup[s] = "none"
        /\ tree = {} /\ sessions = {} /\ closing = {}
    BY DEF Init
  <2>2. lease[FileOf[s]] # s
    BY LifecycleAssumption DEF Init
  <2> QED BY <2>1, <2>2 DEF Runtime, Custody, MayRun
<1>2. QED
  BY <1>1, RuntimeStep, LifecycleTypeCorrect, PTL DEF Spec

\* A session in the table has a living Pi and its lease.
THEOREM SessionsAlive == Spec => []SessionsLive
<1>1. TypeOK /\ RuntimeInv => SessionsLive
  BY DEF TypeOK, RuntimeInv, Runtime, Custody, SessionsLive
<1>2. QED
  BY <1>1, RuntimeInvariant, LifecycleTypeCorrect, PTL

\* No path drops a lease.
THEOREM NoLeaseDropped == Spec => []LeaseAccounted
<1>1. RuntimeInv => LeaseAccounted
  BY DEF RuntimeInv, Runtime, Custody, LeaseAccounted, PendingStart, Ending
<1>2. QED
  BY <1>1, RuntimeInvariant, PTL

\* Pi runs on a file only under its lease, which is given back when nothing of
\* Pi runs any more: each step is a step of OwnedSession on every file.
THEOREM LeaseDisciplined == Spec => LeaseDiscipline
<1> DEFINE Kept == \A f \in Files : [Owned(f)!Next]_<<lease[f], Running(f)>>
<1>1. Init => \A f \in Files : Owned(f)!Init
  BY DEF Init, Owned!Init, Running
<1>2. TypeOK /\ RuntimeInv /\ [Next]_vars => [Kept]_vars
  <2> SUFFICES ASSUME TypeOK, RuntimeInv, Next, NEW f \in Files
               PROVE  Owned(f)!Next \/ UNCHANGED <<lease[f], Running(f)>>
    OBVIOUS
  <2> USE LifecycleAssumption DEF TypeOK, Running, starting, closes, cleanups, disposal, At
  <2>0. \A s \in Starts : s \in tree => lease[FileOf[s]] = s
    BY DEF RuntimeInv, Runtime, Custody, MayRun
  <2>1. ASSUME NEW s \in Starts, Acquire(s) PROVE Owned(f)!Next \/ UNCHANGED <<lease[f], Running(f)>>
    BY <2>0, <2>1 DEF Acquire, Owned!Next, Owned!Take
  <2>2. ASSUME NEW s \in Starts, Launch(s) PROVE Owned(f)!Next \/ UNCHANGED <<lease[f], Running(f)>>
    <3>1. lease[FileOf[s]] = s
      BY <2>2 DEF Launch, RuntimeInv, Runtime, Custody
    <3>2. QED
      BY <2>0, <2>2, <3>1 DEF Launch, Owned!Next, Owned!Run
  <2>3. ASSUME NEW s \in Starts, UNCHANGED lease, tree' = tree \/ tree' = tree \ {s}
        PROVE  Owned(f)!Next \/ UNCHANGED <<lease[f], Running(f)>>
    BY <2>3 DEF Owned!Next, Owned!End
  <2>4. ASSUME NEW s \in Starts, lease' = lease \/ Free(s), UNCHANGED tree, ~MayRun(s)
        PROVE  Owned(f)!Next \/ UNCHANGED <<lease[f], Running(f)>>
    <3>1. s \notin tree
      BY <2>4 DEF RuntimeInv, Runtime
    <3>2. QED
      BY <2>0, <2>4, <3>1 DEF Free, Owned!Next, Owned!GiveUp
  <2>5. ASSUME NEW s \in Starts, StartReleases(s) \/ CleanupReleases(s) \/ CloseReleases(s)
        PROVE  ~MayRun(s) /\ UNCHANGED tree /\ (lease' = lease \/ Free(s))
    BY <2>5 DEF StartReleases, CleanupReleases, CloseReleases, MayRun, RuntimeInv, Runtime
  <2>6. ASSUME NEW s \in Starts, StartDisposes(s) \/ CleanupDisposes(s) \/ CloseDisposes(s)
        PROVE  UNCHANGED lease /\ (tree' = tree \/ tree' = tree \ {s})
    BY <2>6 DEF StartDisposes, CleanupDisposes, CloseDisposes, TreeDisposed, TreeUnverified
  <2>7. ASSUME NEW s \in Starts,
               Call(s) \/ FindCleanup(s) \/ AwaitCleanup(s) \/ Refused(s) \/ Mark(s)
                 \/ StateAnswered(s) \/ Register(s) \/ StartFails(s) \/ Exit(s) \/ TreeEnds(s) \/ Close(s) \/ CloseSettled(s)
        PROVE  UNCHANGED lease /\ (tree' = tree \/ tree' = tree \ {s})
    BY <2>7 DEF Call, FindCleanup, AwaitCleanup, Refused, Mark, StateAnswered, Register, StartFails,
                Exit, TreeEnds, Close, CloseSettled
  <2>8. CASE Dispose \/ DisposeStep
    BY <2>8 DEF Dispose, DisposeStep, DisposeCloses, DisposeAwaitsExits, Disposed
  <2>9. QED
    BY <2>1, <2>2, <2>3, <2>4, <2>5, <2>6, <2>7, <2>8
    DEF Next, StartStep, CloseStep, CleanupStep
<1>3. QED
  BY <1>1, <1>2, RuntimeInvariant, LifecycleTypeCorrect, PTL DEF Spec, LeaseDiscipline

-----------------------------------------------------------------------------
(* Disposal.                                                               *)

\* What dispose has behind it stays behind it.
LEMMA DisposeInvStep == TypeOK /\ RuntimeInv /\ DisposeInv /\ [Next]_vars => DisposeInv'
<1> SUFFICES ASSUME TypeOK, RuntimeInv, DisposeInv, [Next]_vars PROVE DisposeInv'
  OBVIOUS
<1> USE DEF TypeOK, DisposeInv, PendingStart, Ending, disposed, starting, closes, cleanups,
        disposal, Goto, At
<1>1. ASSUME NEW s \in Starts, Call(s) PROVE DisposeInv'
  BY <1>1 DEF Call
<1>2. ASSUME NEW s \in Starts, AwaitCleanup(s) PROVE DisposeInv'
  BY <1>2 DEF AwaitCleanup
<1>2a. ASSUME NEW s \in Starts, FindCleanup(s) PROVE DisposeInv'
  BY <1>2a DEF FindCleanup
<1>3. ASSUME NEW s \in Starts, Refused(s) PROVE DisposeInv'
  BY <1>3 DEF Refused
<1>4. ASSUME NEW s \in Starts, Acquire(s) PROVE DisposeInv'
  BY <1>4 DEF Acquire
<1>5. ASSUME NEW s \in Starts, Mark(s) PROVE DisposeInv'
  BY <1>5 DEF Mark
<1>6. ASSUME NEW s \in Starts, Launch(s) PROVE DisposeInv'
  BY <1>6 DEF Launch
<1>7. ASSUME NEW s \in Starts, StateAnswered(s) PROVE DisposeInv'
  BY <1>7 DEF StateAnswered
<1>8. ASSUME NEW s \in Starts, Register(s) PROVE DisposeInv'
  BY <1>8 DEF Register
<1>9. ASSUME NEW s \in Starts, StartFails(s) PROVE DisposeInv'
  BY <1>9 DEF StartFails
<1>10. ASSUME NEW s \in Starts, StartDisposes(s) PROVE DisposeInv'
  BY <1>10 DEF StartDisposes
<1>11. ASSUME NEW s \in Starts, StartReleases(s) PROVE DisposeInv'
  BY <1>11 DEF StartReleases
<1>12. ASSUME NEW s \in Starts, Exit(s) PROVE DisposeInv'
  BY <1>12 DEF Exit
<1>13. ASSUME NEW s \in Starts, TreeEnds(s) PROVE DisposeInv'
  BY <1>13 DEF TreeEnds
<1>14. ASSUME NEW s \in Starts, CleanupDisposes(s) PROVE DisposeInv'
  BY <1>14 DEF CleanupDisposes
<1>15. ASSUME NEW s \in Starts, CleanupReleases(s) PROVE DisposeInv'
  BY <1>15 DEF CleanupReleases
<1>16. ASSUME NEW s \in Starts, Close(s) PROVE DisposeInv'
  BY <1>16 DEF Close, CloseAll
<1>17. ASSUME NEW s \in Starts, CloseSettled(s) PROVE DisposeInv'
  BY <1>17 DEF CloseSettled
<1>18. ASSUME NEW s \in Starts, CloseDisposes(s) PROVE DisposeInv'
  <2>1. CASE UNCHANGED disposal
    BY <1>18, <2>1 DEF CloseDisposes
  <2>2. CASE FlightEnds(s, TRUE)
    <3>1. UNCHANGED <<disposing, sessions, pc, closing, cleanup>> /\ awaited' = awaited \ {s}
      BY <1>18, <2>2 DEF CloseDisposes, FlightEnds
    <3>2. rejected' = (rejected \/ s \in awaited)
      BY <2>2, Zenon DEF FlightEnds
    <3>3. QED
      BY <3>1, <3>2
  <2>3. QED
    BY <1>18, <2>1, <2>2 DEF CloseDisposes
<1>19. ASSUME NEW s \in Starts, CloseReleases(s) PROVE DisposeInv'
  <2>1. PICK fails \in BOOLEAN : FlightEnds(s, fails) /\ (closing' = closing \ {s} \/ (closing' = closing /\ fails))
    BY <1>19 DEF CloseReleases
  <2>2. UNCHANGED <<disposing, sessions, pc, cleanup>> /\ awaited' = awaited \ {s}
    BY <1>19, <2>1 DEF CloseReleases, FlightEnds
  <2>3. rejected' = (rejected \/ (fails /\ s \in awaited))
    BY <2>1, Zenon DEF FlightEnds
  <2>4. CASE fails
    <3>1. rejected' = (rejected \/ s \in awaited)
      BY <2>3, <2>4
    <3> QED BY <2>1, <2>2, <3>1
  <2>5. CASE ~fails
    <3>1. closing' = closing \ {s}
      BY <2>1, <2>5
    <3>2. rejected' = rejected
      BY <2>3, <2>5
    <3> QED BY <2>2, <3>1, <3>2
  <2>6. QED
    BY <2>4, <2>5
<1>20. CASE Dispose
  BY <1>20 DEF Dispose
<1>21. CASE DisposeCloses
  BY <1>21 DEF DisposeCloses, CloseAll
<1>22. CASE DisposeAwaitsExits
  BY <1>22 DEF DisposeAwaitsExits
<1>23. CASE Disposed
  BY <1>23 DEF Disposed
<1>24. CASE UNCHANGED vars
  BY <1>24 DEF vars
<1>25. QED
  BY <1>1, <1>2, <1>2a, <1>3, <1>4, <1>5, <1>6, <1>7, <1>8, <1>9, <1>10, <1>11, <1>12, <1>13,
     <1>14, <1>15, <1>16, <1>17, <1>18, <1>19, <1>20, <1>21, <1>22, <1>23, <1>24
  DEF Next, StartStep, CloseStep, CleanupStep, DisposeStep

\* What dispose has behind it.
LEMMA DisposeInvariant == Spec => []DisposeInv
<1>1. Init => DisposeInv
  BY DEF Init, DisposeInv
<1>2. QED
  BY <1>1, DisposeInvStep, RuntimeInvariant, LifecycleTypeCorrect, PTL DEF Spec

\* None can register after disposal returns.
THEOREM DisposedStays == Spec => []DisposedForGood
<1>1. DisposeInv => DisposedForGood
  BY DEF DisposeInv, DisposedForGood
<1>2. QED
  BY <1>1, DisposeInvariant, PTL

\* A dispose that resolves leaves no Pi behind, but for starts that kept their
\* lease.
THEOREM DisposedIsClean == Spec => []DisposedClean
<1>1. TypeOK /\ RuntimeInv /\ DisposeInv => DisposedClean
  BY DEF TypeOK, RuntimeInv, Runtime, MayRun, DisposeInv, DisposedClean, PendingStart
<1>2. QED
  BY <1>1, DisposeInvariant, RuntimeInvariant, LifecycleTypeCorrect, PTL

\* Both: nothing is left by a dispose that resolves, and nothing comes up after it.
THEOREM DisposesProperly == Spec => []DisposedProperly
<1>1. DisposedForGood /\ DisposedClean => DisposedProperly
  BY DEF DisposedProperly
<1>2. QED
  BY <1>1, DisposedStays, DisposedIsClean, PTL

-----------------------------------------------------------------------------
(* The settings documents.                                                *)

\* Only the save that made the lock directory is behind it: a save fails before it
\* has the lock, or gives it up when it ends.
LockHeld == \A s \in Savers : saving[s] \in Locked => lock = s

\* A save that is about to rename has seen the document, or an outsider wrote since.
Seen == \A s \in Savers : saving[s] = "rename" => document = expected[s] \/ s \in raced

SettingsInv == SettingsTypeOK /\ LockHeld /\ Seen

\* A step keeps the fields of every save in their types.
LEMMA SettingsTypeStep ==
  ASSUME SettingsTypeOK, [SettingsStep]_settingsVars
  PROVE  SettingsTypeOK'
<1> USE SettingsAssumption DEF SettingsTypeOK, Documents, Locked, Over
<1>1. ASSUME NEW s \in Savers, SaveStep(s) PROVE SettingsTypeOK'
  <2>1. CASE Opened(s) BY <2>1 DEF Opened, Continues
  <2>2. CASE Called(s) BY <2>2 DEF Called, Continues
  <2>3. CASE Lock(s) BY <2>3 DEF Lock, Continues
  <2>4. CASE Busy(s) BY <2>4 DEF Busy, Continues
  <2>5. CASE Compared(s) BY <2>5 DEF Compared, Continues
  <2>6. CASE Staged(s) BY <2>6 DEF Staged, Continues
  <2>7. CASE Checked(s) BY <2>7 DEF Checked, Continues
  <2>8. CASE Renamed(s) BY <2>8 DEF Renamed, Continues
  <2>9. CASE Denied(s) BY <2>9 DEF Denied, Continues
  <2>10. CASE Thrown(s) BY <2>10 DEF Thrown
  <2>11. CASE Unstaged(s) BY <2>11 DEF Unstaged, Continues
  <2>12. CASE Unlocked(s) BY <2>12 DEF Unlocked
  <2>13. CASE HostDies(s) BY <2>13 DEF HostDies
  <2> QED BY <1>1, <2>1, <2>2, <2>3, <2>4, <2>5, <2>6, <2>7, <2>8, <2>9, <2>10, <2>11,
             <2>12, <2>13 DEF SaveStep
<1>2. CASE PiLocks BY <1>2 DEF PiLocks
<1>3. CASE PiWrites BY <1>3 DEF PiWrites
<1>4. CASE PiUnlocks BY <1>4 DEF PiUnlocks
<1>5. CASE OutsiderWrites BY <1>5 DEF OutsiderWrites
<1>6. CASE LockRemoved BY <1>6 DEF LockRemoved
<1>7. CASE UNCHANGED settingsVars BY <1>7 DEF settingsVars
<1> QED BY <1>1, <1>2, <1>3, <1>4, <1>5, <1>6, <1>7 DEF SettingsStep

\* The lock directory is made when there is none, and removed by its maker or when
\* its maker is done.
LEMMA LockHeldStep ==
  ASSUME SettingsTypeOK, LockHeld, [SettingsStep]_settingsVars
  PROVE  LockHeld'
<1> USE SettingsAssumption DEF SettingsTypeOK, LockHeld, Locked, Over
<1>1. ASSUME NEW s \in Savers, SaveStep(s) PROVE LockHeld'
  <2>1. CASE Opened(s) BY <2>1 DEF Opened, Continues
  <2>2. CASE Called(s) BY <2>2 DEF Called, Continues
  <2>3. CASE Lock(s) BY <2>3 DEF Lock, Continues
  <2>4. CASE Busy(s) BY <2>4 DEF Busy, Continues
  <2>5. CASE Compared(s) BY <2>5 DEF Compared, Continues
  <2>6. CASE Staged(s) BY <2>6 DEF Staged, Continues
  <2>7. CASE Checked(s) BY <2>7 DEF Checked, Continues
  <2>8. CASE Renamed(s) BY <2>8 DEF Renamed, Continues
  <2>9. CASE Denied(s) BY <2>9 DEF Denied, Continues
  <2>10. CASE Thrown(s) BY <2>10 DEF Thrown
  <2>11. CASE Unstaged(s) BY <2>11 DEF Unstaged, Continues
  <2>12. CASE Unlocked(s) BY <2>12 DEF Unlocked
  <2>13. CASE HostDies(s) BY <2>13 DEF HostDies
  <2> QED BY <1>1, <2>1, <2>2, <2>3, <2>4, <2>5, <2>6, <2>7, <2>8, <2>9, <2>10, <2>11,
             <2>12, <2>13 DEF SaveStep
<1>2. CASE PiLocks BY <1>2 DEF PiLocks
<1>3. CASE PiWrites BY <1>3 DEF PiWrites
<1>4. CASE PiUnlocks BY <1>4 DEF PiUnlocks
<1>5. CASE OutsiderWrites BY <1>5 DEF OutsiderWrites
<1>6. CASE LockRemoved BY <1>6 DEF LockRemoved
<1>7. CASE UNCHANGED settingsVars BY <1>7 DEF settingsVars
<1> QED BY <1>1, <1>2, <1>3, <1>4, <1>5, <1>6, <1>7 DEF SettingsStep

\* Whoever changes the document holds the lock, so that no other save is about to
\* rename, or is an outsider, whose write is noted.
LEMMA SeenStep ==
  ASSUME SettingsTypeOK, LockHeld, Seen, [SettingsStep]_settingsVars
  PROVE  Seen'
<1> USE SettingsAssumption DEF SettingsTypeOK, LockHeld, Seen, Locked, Over
<1>1. ASSUME NEW s \in Savers, SaveStep(s) PROVE Seen'
  <2>1. CASE Opened(s) BY <2>1 DEF Opened, Continues
  <2>2. CASE Called(s) BY <2>2 DEF Called, Continues
  <2>3. CASE Lock(s) BY <2>3 DEF Lock, Continues
  <2>4. CASE Busy(s) BY <2>4 DEF Busy, Continues
  <2>5. CASE Compared(s) BY <2>5 DEF Compared, Continues
  <2>6. CASE Staged(s) BY <2>6 DEF Staged, Continues
  <2>7. CASE Checked(s) BY <2>7 DEF Checked, Continues
  <2>8. CASE Renamed(s) BY <2>8 DEF Renamed, Continues
  <2>9. CASE Denied(s) BY <2>9 DEF Denied, Continues
  <2>10. CASE Thrown(s) BY <2>10 DEF Thrown
  <2>11. CASE Unstaged(s) BY <2>11 DEF Unstaged, Continues
  <2>12. CASE Unlocked(s) BY <2>12 DEF Unlocked
  <2>13. CASE HostDies(s) BY <2>13 DEF HostDies
  <2> QED BY <1>1, <2>1, <2>2, <2>3, <2>4, <2>5, <2>6, <2>7, <2>8, <2>9, <2>10, <2>11,
             <2>12, <2>13 DEF SaveStep
<1>2. CASE PiLocks BY <1>2 DEF PiLocks
<1>3. CASE PiWrites BY <1>3 DEF PiWrites
<1>4. CASE PiUnlocks BY <1>4 DEF PiUnlocks
<1>5. CASE OutsiderWrites BY <1>5 DEF OutsiderWrites
<1>6. CASE LockRemoved BY <1>6 DEF LockRemoved
<1>7. CASE UNCHANGED settingsVars BY <1>7 DEF settingsVars
<1> QED BY <1>1, <1>2, <1>3, <1>4, <1>5, <1>6, <1>7 DEF SettingsStep

\* The invariant holds of every state of the specification.
THEOREM SettingsInvariant == SettingsSpec => []SettingsInv
<1>1. SettingsInit => SettingsInv
  BY SettingsAssumption DEF SettingsInit, SettingsInv, SettingsTypeOK, LockHeld, Seen, Locked, Documents
<1>2. SettingsInv /\ [SettingsStep]_settingsVars => SettingsInv'
  BY SettingsTypeStep, LockHeldStep, SeenStep DEF SettingsInv
<1> QED BY <1>1, <1>2, PTL DEF SettingsSpec

\* A save replaces nothing but what its editor has read, unless an outsider wrote
\* between its last look and the rename (savePiSettingsDocument).
THEOREM SavesAlwaysYield == SettingsSpec => SavesYield
<1>1. SettingsInv /\ [SettingsStep]_settingsVars =>
        [\A s \in Savers : saving[s] = "rename" /\ saving'[s] = "unlock"
           => document = expected[s] \/ s \in raced]_settingsVars
  BY DEF SettingsInv, Seen
<1> QED BY <1>1, SettingsInvariant, PTL DEF SettingsSpec, SavesYield

\* Two saves are never behind the lock at once, and Pi is not while one of them is.
THEOREM OneSaveLocked ==
  SettingsSpec => [](\A s, t \in Savers : saving[s] \in Locked /\ saving[t] \in Locked => s = t)
<1>1. SettingsInv => \A s, t \in Savers : saving[s] \in Locked /\ saving[t] \in Locked => s = t
  BY DEF SettingsInv, LockHeld
<1> QED BY <1>1, SettingsInvariant, PTL

=============================================================================
