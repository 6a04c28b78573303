------------------------ MODULE PiSessionLeaseProofs ------------------------
(***************************************************************************)
(* Proofs about the session lease, for any number of acquisitions and      *)
(* Hosts and any assignment of the one to the other.                       *)
(***************************************************************************)
EXTENDS PiSessionLease, MCPiSessionLeaseStale, TLAPS

USE LeaseAssumption
USE DEF At, Goto, Require, MarkAt, MarkGoto, MarkRejected, MarkSettles, files

-----------------------------------------------------------------------------
(* Types. *)

\* The owner whose claims are walked was read from the lock file.
SeenRead == \A a \in Leases : pc[a] \in {"judge", "claim"} => seen[a] \in Leases

TypeInv == TypeOK /\ SeenRead

\* Every step of the lease, an outsider's included, keeps the variables typed.
LEMMA TypeStep == TypeInv /\ [NextOutsider]_vars => TypeInv'
<1> SUFFICES ASSUME TypeInv, [NextOutsider]_vars PROVE TypeInv'
  OBVIOUS
<1> USE DEF TypeInv, TypeOK, SeenRead, Owners, Acquiring, Holding, Releasing, Pending
<1>1. CASE UNCHANGED vars
  BY <1>1 DEF vars
<1>2. ASSUME NEW a \in Leases, LeaseStep(a) PROVE TypeInv'
  <2>1. CASE Begin(a)
    BY <2>1 DEF Begin
  <2>2. CASE AcquireStep(a)
    <3>1. CASE Check(a) \/ Confirm(a) \/ Exists(a) \/ Recheck(a)
      BY <3>1 DEF Check, Confirm, Exists, Recheck, RefuseQuarantined
    <3>2. CASE Create(a) \/ Recreate(a)
      BY <3>2 DEF Create, Recreate, Publish
    <3>3. CASE Read(a)
      BY <3>3 DEF Read
    <3>4. CASE Judge(a)
      BY <3>4 DEF Judge
    <3>5. CASE Claim(a)
      <4> DEFINE x == seen[a]
                 p == prev[a]
      <4>1. x \in Owners /\ p \in Owners
        OBVIOUS
      <4>2. CASE claims[x][p] = None
        <5>1. claims' = [claims EXCEPT ![x][p] = a]
          BY <3>5, <4>2 DEF Claim
        <5>2. claims' \in [Leases -> [Owners -> Owners]]
          BY <4>1, <5>1
        <5> QED BY <3>5, <4>2, <5>2 DEF Claim
      <4>3. CASE claims[x][p] # None
        <5>1. x \in Leases
          BY <3>5 DEF Claim
        <5>2. claims[x][p] \in Owners
          BY <4>1, <5>1
        <5>3. /\ prev' = [prev EXCEPT ![a] = claims[x][p]]
              /\ pc' = [pc EXCEPT ![a] = IF ~Alive(claims[x][p]) THEN "claim" ELSE "failed"]
              /\ UNCHANGED <<lock, marker, claims, alive, seen, mark, tree>>
          BY <3>5, <4>3 DEF Claim
        <5>4. prev' \in [Leases -> Owners]
          BY <5>2, <5>3
        <5>5. pc' \in [Leases -> {"idle", "failed", "released"} \cup Acquiring \cup Holding]
          BY <5>3
        <5>6. SeenRead'
          BY <5>1, <5>3
        <5> QED BY <5>3, <5>4, <5>5, <5>6
      <4> QED BY <4>2, <4>3
    <3>6. CASE Verify(a)
      BY <3>6 DEF Verify
    <3>7. CASE Unlink(a)
      BY <3>7 DEF Unlink
    <3> QED BY <2>2, <3>1, <3>2, <3>3, <3>4, <3>5, <3>6, <3>7 DEF AcquireStep
  <2>3. CASE Throw(a)
    BY <2>3 DEF Throw
  <2>4. CASE CallMark(a)
    BY <2>4 DEF CallMark
  <2>5. CASE MarkStep(a)
    <3>1. CASE MarkOwner(a)
      BY <3>1 DEF MarkOwner
    <3>2. CASE MarkLook(a)
      BY <3>2 DEF MarkLook
    <3>3. CASE MarkPublish(a)
      BY <3>3 DEF MarkPublish
    <3>4. CASE MarkConfirm(a)
      BY <3>4 DEF MarkConfirm
    <3> QED BY <2>5, <3>1, <3>2, <3>3, <3>4 DEF MarkStep
  <2>6. CASE MarkThrows(a)
    BY <2>6 DEF MarkThrows
  <2>7. CASE CallRelease(a)
    BY <2>7 DEF CallRelease
  <2>8. CASE ReleaseStep(a)
    <3>1. CASE WaitMark(a)
      BY <3>1 DEF WaitMark
    <3>2. CASE ReadLock(a)
      BY <3>2 DEF ReadLock
    <3>3. CASE ReadMarker(a)
      BY <3>3 DEF ReadMarker
    <3>4. CASE UnlinkMarker(a)
      BY <3>4 DEF UnlinkMarker
    <3>5. CASE UnlinkLock(a)
      BY <3>5 DEF UnlinkLock
    <3> QED BY <2>8, <3>1, <3>2, <3>3, <3>4, <3>5 DEF ReleaseStep
  <2>9. CASE ReleaseThrows(a)
    BY <2>9 DEF ReleaseThrows
  <2>10. CASE SpawnTree(a)
    BY <2>10 DEF SpawnTree
  <2>11. CASE TreeEnds(a)
    BY <2>11 DEF TreeEnds
  <2> QED BY <1>2, <2>1, <2>2, <2>3, <2>4, <2>5, <2>6, <2>7, <2>8, <2>9,
             <2>10, <2>11 DEF LeaseStep
<1>3. ASSUME NEW h \in Hosts, Crash(h) PROVE TypeInv'
  BY <1>3 DEF Crash
<1>4. CASE RecoverManually
  BY <1>4 DEF RecoverManually
<1>5. CASE LockFileLost
  BY <1>5 DEF LockFileLost
<1> QED BY <1>1, <1>2, <1>3, <1>4, <1>5 DEF NextOutsider, Next

\* The variables keep their types, with an outsider deleting the lock file.
THEOREM TypeCorrect == OutsiderSpec => []TypeOK
<1>1. Init => TypeInv
  BY DEF Init, TypeInv, TypeOK, SeenRead, Owners
<1>2. TypeInv => TypeOK
  BY DEF TypeInv
<1> QED BY <1>1, <1>2, TypeStep, PTL DEF OutsiderSpec

\* What holds whatever an outsider does holds without one.
LEMMA SpecIsOutsiderSpec == Spec => OutsiderSpec
<1>1. [Next]_vars => [NextOutsider]_vars
  BY DEF NextOutsider
<1> QED BY <1>1, PTL DEF Spec, OutsiderSpec

\* The variables of the lease keep their types.
THEOREM SpecTypeCorrect == Spec => []TypeOK
BY TypeCorrect, SpecIsOutsiderSpec, PTL

-----------------------------------------------------------------------------
(* The marker.  A tree runs only while its own lease's marker exists.  That *)
(* needs no lock: publish is create-if-absent, release unlinks a marker     *)
(* only after it read it as its own, and a marker that is someone's own     *)
(* can be replaced by nobody else.                                          *)

\* A live caller keeps its lease, unreleased, while its tree runs.
TreeHeld == \A a \in Leases : a \in tree /\ Alive(a) => pc[a] = "held"

\* A lease whose mark was awaited is covered by its marker.
MarkDone ==
  \A a \in Leases : Alive(a) /\ pc[a] = "held" /\ mark[a] = "done" => marker = a

\* The marker release is about to unlink is its own.
MarkerRead == \A a \in Leases : Alive(a) /\ pc[a] = "unlinkMarker" => marker = a

\* No mark is begun before acquire has returned.
MarkFresh == \A a \in Leases : pc[a] \in {"idle"} \cup Acquiring => mark[a] = "idle"

MarkerInv == MarkFresh /\ QuarantineCoversTree /\ TreeHeld /\ MarkDone /\ MarkerRead

\* Every step keeps a running tree under the marker of its own lease, the loss
\* of a lock file included.
LEMMA MarkerStep == TypeInv /\ MarkerInv /\ [NextOutsider]_vars => MarkerInv'
<1> SUFFICES ASSUME TypeInv, MarkerInv, [NextOutsider]_vars PROVE MarkerInv'
  OBVIOUS
<1> USE DEF TypeInv, TypeOK, Owners, MarkerInv, QuarantineCoversTree, TreeHeld,
            MarkDone, MarkerRead, MarkFresh, Alive, Acquiring
<1>1. CASE UNCHANGED vars
  BY <1>1 DEF vars
<1>2. ASSUME NEW a \in Leases, LeaseStep(a) PROVE MarkerInv'
  <2>1. CASE Begin(a) \/ Throw(a)
    BY <2>1 DEF Begin, Throw
  <2>2. CASE AcquireStep(a)
    <3>1. CASE Check(a) \/ Exists(a) \/ Recheck(a)
      BY <3>1 DEF Check, Exists, Recheck, RefuseQuarantined
    <3>2. CASE Confirm(a)
      BY <3>2 DEF Confirm, RefuseQuarantined
    <3>3. CASE Create(a) \/ Recreate(a)
      BY <3>3 DEF Create, Recreate, Publish
    <3>4. CASE Read(a) \/ Judge(a) \/ Verify(a) \/ Unlink(a)
      BY <3>4 DEF Read, Judge, Verify, Unlink
    <3>5. CASE Claim(a)
      BY <3>5 DEF Claim
    <3> QED BY <2>2, <3>1, <3>2, <3>3, <3>4, <3>5 DEF AcquireStep
  <2>2b. CASE CallMark(a)
    BY <2>2b DEF CallMark
  <2>3. CASE MarkStep(a)
    <3>1. CASE MarkOwner(a) \/ MarkLook(a) \/ MarkConfirm(a)
      BY <3>1 DEF MarkOwner, MarkLook, MarkConfirm
    <3>2. CASE MarkPublish(a)
      BY <3>2 DEF MarkPublish
    <3> QED BY <2>3, <3>1, <3>2 DEF MarkStep
  <2>4. CASE MarkThrows(a)
    BY <2>4 DEF MarkThrows
  <2>5. CASE CallRelease(a)
    BY <2>5 DEF CallRelease
  <2>6. CASE ReleaseStep(a)
    <3>1. CASE WaitMark(a) \/ ReadLock(a) \/ UnlinkLock(a)
      BY <3>1 DEF WaitMark, ReadLock, UnlinkLock
    <3>2. CASE ReadMarker(a)
      BY <3>2 DEF ReadMarker
    <3>3. CASE UnlinkMarker(a)
      BY <3>3 DEF UnlinkMarker
    <3> QED BY <2>6, <3>1, <3>2, <3>3 DEF ReleaseStep
  <2>7. CASE ReleaseThrows(a)
    BY <2>7 DEF ReleaseThrows, Releasing
  <2>8. CASE SpawnTree(a) \/ TreeEnds(a)
    BY <2>8 DEF SpawnTree, TreeEnds
  <2> QED BY <1>2, <2>1, <2>2, <2>2b, <2>3, <2>4, <2>5, <2>6, <2>7, <2>8 DEF LeaseStep
<1>3. ASSUME NEW h \in Hosts, Crash(h) PROVE MarkerInv'
  BY <1>3 DEF Crash
<1>4. CASE RecoverManually
  BY <1>4 DEF RecoverManually
<1>5. CASE LockFileLost
  BY <1>5 DEF LockFileLost
<1> QED BY <1>1, <1>2, <1>3, <1>4, <1>5 DEF NextOutsider, Next

\* markRuntimeUncertain keeps the marker before, during and after a tree runs.
LEMMA MarkerInvariant == OutsiderSpec => [](TypeInv /\ MarkerInv)
<1>1. Init => TypeInv /\ MarkerInv
  BY DEF Init, TypeInv, TypeOK, SeenRead, Owners, MarkerInv, MarkFresh,
         QuarantineCoversTree, TreeHeld, MarkDone, MarkerRead
<1> QED BY <1>1, TypeStep, MarkerStep, PTL DEF OutsiderSpec

\* Two Pi process trees never write one session file, though Hosts crash and
\* their trees live on, marks and releases fail half way, people remove the
\* markers of dead Hosts, and an outsider deletes lock files.
THEOREM OneWriter == OutsiderSpec => []WriterExclusion
<1>1. MarkerInv => WriterExclusion
  BY DEF MarkerInv, QuarantineCoversTree, WriterExclusion
<1> QED BY <1>1, MarkerInvariant, PTL

\* A running tree is covered by the marker of its own lease.
THEOREM QuarantineKept == Spec => []QuarantineCoversTree
<1>1. MarkerInv => QuarantineCoversTree
  BY DEF MarkerInv
<1> QED BY <1>1, MarkerInvariant, SpecIsOutsiderSpec, PTL

-----------------------------------------------------------------------------
(* The chain of recovery claims on the lock of x.  Its generations are      *)
(* None, then each claimant of x; the chain has one open end.  A claimant   *)
(* is the open end until another finds it dead and claims the generation    *)
(* named after it, so at most one claimant of x is alive.                   *)

Claimants(x) == {claims[x][p] : p \in Owners} \ {None}
OpenEnd(x, p) == (p = None \/ p \in Claimants(x)) /\ claims[x][p] = None

\* The claim of a generation is published only after its claimant died.
ChainDead ==
  \A x, p \in Leases : claims[x][p] # None => p \in Claimants(x) /\ ~Alive(p)

ChainOpen ==
  \A x \in Leases : \A p, q \in Owners : OpenEnd(x, p) /\ OpenEnd(x, q) => p = q

\* A lease publishes at most one claim, and goes on from it.
ClaimOnce ==
  \A x, a \in Leases :
    a \in Claimants(x) =>
      pc[a] \notin {"idle", "check", "create", "exists", "read", "judge", "claim"}

\* A recovery is of a dead owner, and stands where it has got to in the chain.
RecoverDead ==
  \A a \in Leases :
    pc[a] \in {"claim", "recheck", "verify", "unlink"} =>
      seen[a] \in Leases /\ ~Alive(seen[a])

OnChain ==
  \A a \in Leases :
    pc[a] = "claim" =>
      prev[a] = None \/ (prev[a] \in Claimants(seen[a]) /\ ~Alive(prev[a]))

Claimed ==
  \A a \in Leases :
    pc[a] \in {"recheck", "verify", "unlink"} => a \in Claimants(seen[a])

ChainInv ==
  ChainDead /\ ChainOpen /\ ClaimOnce /\ RecoverDead /\ OnChain /\ Claimed

\* At most one recoverer of a dead owner is alive: the claims exclude the rest.
LEMMA OneRecoverer ==
  ASSUME TypeInv, ChainInv, NEW x \in Leases, NEW a \in Leases, NEW b \in Leases,
         a \in Claimants(x), b \in Claimants(x), Alive(a), Alive(b)
  PROVE  a = b
<1>1. OpenEnd(x, a) /\ OpenEnd(x, b)
  BY DEF ChainInv, ChainDead, OpenEnd
<1> QED BY <1>1 DEF ChainInv, ChainOpen, Owners

\* What a step that publishes no claim must respect to preserve the chain.
LEMMA ChainFrame ==
  ASSUME TypeInv, ChainInv, TypeInv', UNCHANGED claims, alive' \subseteq alive
  PROVE  /\ ChainDead' /\ ChainOpen'
         /\ \A x : Claimants(x)' = Claimants(x)
BY DEF ChainInv, ChainDead, ChainOpen, OpenEnd, Claimants, Alive

\* Every step keeps the claims on dead owners a chain that one contender at a
\* time prolongs.
LEMMA ChainStep == TypeInv /\ TypeInv' /\ ChainInv /\ [NextOutsider]_vars => ChainInv'
<1> SUFFICES ASSUME TypeInv, TypeInv', ChainInv, [NextOutsider]_vars PROVE ChainInv'
  OBVIOUS
<1>1. ASSUME UNCHANGED <<claims, pc, seen, prev>>, alive' \subseteq alive
      PROVE  ChainInv'
  BY <1>1, ChainFrame DEF ChainInv, ClaimOnce, RecoverDead, OnChain, Claimed, Alive
<1>2. ASSUME NEW a \in Leases, NEW l, UNCHANGED <<claims, seen, prev, alive>>,
             pc' = [pc EXCEPT ![a] = l],
             l \notin {"idle", "check", "create", "exists", "read", "judge", "claim"}
               \/ pc[a] \in {"idle", "check", "create", "exists", "read", "judge"},
             l = "claim" => FALSE,
             l \in {"recheck", "verify", "unlink"} => 
               pc[a] \in {"recheck", "verify", "unlink"}
      PROVE  ChainInv'
  BY <1>2, ChainFrame
     DEF TypeInv, TypeOK, ChainInv, ClaimOnce, RecoverDead, OnChain, Claimed, Alive
<1>3. CASE UNCHANGED vars
  BY <1>1, <1>3 DEF vars
<1>4. ASSUME NEW a \in Leases, LeaseStep(a) PROVE ChainInv'
  <2>1. CASE Begin(a)
    BY <2>1, <1>2 DEF Begin
  <2>2. CASE AcquireStep(a)
    <3>1. CASE Check(a) \/ Confirm(a) \/ Exists(a) \/ Recheck(a)
      BY <3>1, <1>2 DEF Check, Confirm, Exists, Recheck, RefuseQuarantined
    <3>2. CASE Create(a) \/ Recreate(a)
      BY <3>2, <1>2 DEF Create, Recreate, Publish
    <3>3. CASE Read(a)
      <4>1. \A b \in Leases : pc'[b] # pc[b] => b = a /\ pc'[a] \in {"judge", "failed"}
        BY <3>3 DEF Read, TypeInv, TypeOK
      <4>2. \A b \in Leases : b # a => seen'[b] = seen[b] /\ prev'[b] = prev[b]
        BY <3>3 DEF Read, TypeInv, TypeOK
      <4>3. pc[a] = "read" /\ UNCHANGED <<claims, alive>>
        BY <3>3 DEF Read
      <4> QED BY <4>1, <4>2, <4>3, ChainFrame
              DEF ChainInv, ClaimOnce, RecoverDead, OnChain, Claimed, Alive
    <3>4. CASE Judge(a)
      <4>1. \A b \in Leases : b # a => pc'[b] = pc[b] /\ prev'[b] = prev[b]
        BY <3>4 DEF Judge, TypeInv, TypeOK
      <4>2. /\ pc[a] = "judge" /\ pc'[a] \in {"claim", "failed"} /\ prev'[a] = None
            /\ UNCHANGED <<claims, alive, seen>>
            /\ pc'[a] = "claim" => ~Alive(seen[a])
        BY <3>4 DEF Judge, TypeInv, TypeOK
      <4>3. seen[a] \in Leases
        BY <4>2 DEF TypeInv, SeenRead
      <4> QED BY <4>1, <4>2, <4>3, ChainFrame
              DEF ChainInv, ClaimOnce, RecoverDead, OnChain, Claimed, Alive
    <3>5. CASE Claim(a)
      <4> DEFINE x == seen[a]
                 p == prev[a]
      <4>1. /\ pc[a] = "claim" /\ Alive(a)
            /\ UNCHANGED <<alive, seen>>
            /\ x \in Leases /\ ~Alive(x) /\ p \in Owners
            /\ p = None \/ (p \in Claimants(x) /\ ~Alive(p))
            /\ \A y \in Leases : a \notin Claimants(y)
        BY <3>5 DEF Claim, TypeInv, TypeOK, ChainInv, RecoverDead, OnChain, ClaimOnce
      <4>2. CASE claims[x][p] = None
        <5>1. claims' = [claims EXCEPT ![x][p] = a] /\ UNCHANGED prev
          BY <3>5, <4>2 DEF Claim
        <5>2. pc' = [pc EXCEPT ![a] = "recheck"]
          BY <3>5, <4>2 DEF Claim
        <5>3. \A y \in Leases, q \in Owners :
                claims'[y][q] = IF y = x /\ q = p THEN a ELSE claims[y][q]
          BY <4>1, <5>1 DEF TypeInv, TypeOK
        <5>4. Claimants(x)' = Claimants(x) \cup {a}
          BY <4>1, <4>2, <5>3 DEF Claimants, Owners
        <5>5. \A y \in Leases : y # x => Claimants(y)' = Claimants(y)
          BY <5>3 DEF Claimants
        <5>6. ChainDead'
          BY <4>1, <5>3, <5>4, <5>5 DEF ChainInv, ChainDead, Alive, Owners
        <5>7. ChainOpen'
          <6>1. SUFFICES ASSUME NEW y \in Leases, NEW q \in Owners, NEW r \in Owners,
                                OpenEnd(y, q)', OpenEnd(y, r)'
                         PROVE  q = r
            BY DEF ChainOpen
          <6>2. CASE y # x
            <7>1. \A t \in Owners : claims'[y][t] = claims[y][t]
              BY <6>2, <5>3
            <7>2. OpenEnd(y, q) /\ OpenEnd(y, r)
              BY <6>1, <6>2, <5>5, <7>1 DEF OpenEnd
            <7> QED BY <7>2 DEF ChainInv, ChainOpen
          <6>3. CASE y = x
            <7>1. Claimants(y)' = Claimants(y) \cup {a}
              BY <6>3, <4>1, <5>4 DEF Claimants
            <7>2. \A t \in Owners : OpenEnd(y, t)' => t = a
              BY <6>3, <7>1, <4>1, <4>2, <5>3 DEF OpenEnd, ChainInv, ChainOpen, Owners
            <7> QED BY <6>1, <7>2
          <6> QED BY <6>2, <6>3
        <5>8. \A b \in Leases : b # a => pc'[b] = pc[b]
          BY <5>2 DEF TypeInv, TypeOK
        <5>9. pc'[a] = "recheck"
          BY <5>2 DEF TypeInv, TypeOK
        <5>10. ClaimOnce' /\ RecoverDead' /\ OnChain' /\ Claimed'
          BY <4>1, <5>1, <5>4, <5>5, <5>8, <5>9
             DEF ChainInv, ClaimOnce, RecoverDead, OnChain, Claimed, Alive
        <5> QED BY <5>6, <5>7, <5>10 DEF ChainInv
      <4>3. CASE claims[x][p] # None
        <5> DEFINE c == claims[x][p]
        <5>1. c \in Claimants(x)
          BY <4>1, <4>3 DEF Claimants
        <5>2. /\ UNCHANGED claims
              /\ prev' = [prev EXCEPT ![a] = c]
              /\ pc' = [pc EXCEPT ![a] = IF ~Alive(c) THEN "claim" ELSE "failed"]
          BY <3>5, <4>3 DEF Claim
        <5>3. /\ \A b \in Leases : b # a => pc'[b] = pc[b] /\ prev'[b] = prev[b]
              /\ prev'[a] = c
              /\ pc'[a] = IF ~Alive(c) THEN "claim" ELSE "failed"
          BY <5>2 DEF TypeInv, TypeOK
        <5> HIDE DEF c
        <5> QED BY <4>1, <5>1, <5>2, <5>3, ChainFrame
                DEF ChainInv, ClaimOnce, RecoverDead, OnChain, Claimed, Alive
      <4> QED BY <4>2, <4>3
    <3>6. CASE Verify(a)
      BY <3>6, <1>2 DEF Verify
    <3>7. CASE Unlink(a)
      BY <3>7, <1>2 DEF Unlink
    <3> QED BY <2>2, <3>1, <3>2, <3>3, <3>4, <3>5, <3>6, <3>7 DEF AcquireStep
  <2>3. CASE Throw(a)
    BY <2>3, <1>2 DEF Throw
  <2>4. CASE CallMark(a) \/ MarkStep(a) \/ MarkThrows(a)
    <3>1. UNCHANGED <<claims, seen, prev, alive>>
      BY <2>4 DEF CallMark, MarkStep, MarkOwner, MarkLook, MarkPublish, MarkConfirm,
                  MarkThrows
    <3>2. UNCHANGED pc \/ (pc[a] = "waitMark" /\ pc' = [pc EXCEPT ![a] = "retry"])
      BY <2>4 DEF CallMark, MarkStep, MarkOwner, MarkLook, MarkPublish, MarkConfirm,
                  MarkThrows, TypeInv, TypeOK
    <3> QED BY <3>1, <3>2, <1>1, <1>2
  <2>5. CASE CallRelease(a)
    BY <2>5, <1>2 DEF CallRelease
  <2>6. CASE ReleaseStep(a)
    BY <2>6, <1>2 DEF ReleaseStep, WaitMark, ReadLock, ReadMarker, UnlinkMarker, UnlinkLock
  <2>7. CASE ReleaseThrows(a)
    BY <2>7, <1>2 DEF ReleaseThrows
  <2>8. CASE SpawnTree(a) \/ TreeEnds(a)
    BY <2>8, <1>1 DEF SpawnTree, TreeEnds
  <2> QED BY <1>4, <2>1, <2>2, <2>3, <2>4, <2>5, <2>6, <2>7, <2>8 DEF LeaseStep
<1>5. ASSUME NEW h \in Hosts, Crash(h) PROVE ChainInv'
  BY <1>5, <1>1 DEF Crash
<1>6. CASE RecoverManually \/ LockFileLost
  BY <1>6, <1>1 DEF RecoverManually, LockFileLost
<1> QED BY <1>3, <1>4, <1>5, <1>6 DEF NextOutsider, Next

-----------------------------------------------------------------------------
(* The lock file, when no outsider deletes it.                              *)

\* From publishing the lock to unlinking it, it names the lease.
OwnLock ==
  \A a \in Leases : Alive(a) /\ pc[a] \in {"confirm"} \cup Holding => lock = a

\* A recoverer unlinks the dead owner's lock it has verified: no other live
\* recoverer holds a claim on it that could replace it meanwhile.
UnlinkVerified == \A a \in Leases : Alive(a) /\ pc[a] = "unlink" => lock = seen[a]

\* A holder finds no marker but its own.
HolderMarker ==
  \A a \in Leases : Alive(a) /\ pc[a] \in Holding => marker \in {None, a}

\* A mark is pending only before its release goes on.
PendingHeld ==
  \A a \in Leases : mark[a] \in Pending => pc[a] \in {"held", "retry", "waitMark"}

\* The marker is gone before the lock goes.
MarkerFirst == \A a \in Leases : pc[a] = "unlinkLock" => marker # a

NeverLost == \A a \in Leases : pc[a] # "readMarkerLost"

LockInv ==
  /\ OwnLock /\ UnlinkVerified /\ HolderMarker /\ PendingHeld
  /\ MarkerFirst /\ NeverLost /\ ReleasedLeavesNothing

\* Every step keeps the lock with its owner: only its owner, or the recoverer of
\* a dead one, takes it away.
LEMMA LockStep == TypeInv /\ ChainInv /\ LockInv /\ [Next]_vars => LockInv'
<1> SUFFICES ASSUME TypeInv, ChainInv, LockInv, [Next]_vars PROVE LockInv'
  OBVIOUS
<1> USE DEF TypeInv, TypeOK, Owners, LockInv, OwnLock, UnlinkVerified, HolderMarker,
            PendingHeld, MarkerFirst, NeverLost, ReleasedLeavesNothing,
            Alive, Holding, Releasing, Pending
<1>1. CASE UNCHANGED vars
  BY <1>1 DEF vars
<1>2. ASSUME NEW a \in Leases, LeaseStep(a) PROVE LockInv'
  <2>1. CASE Begin(a) \/ Throw(a)
    BY <2>1 DEF Begin, Throw, Acquiring
  <2>2. CASE AcquireStep(a)
    <3>1. CASE Check(a) \/ Confirm(a) \/ Exists(a) \/ Recheck(a)
      BY <3>1 DEF Check, Confirm, Exists, Recheck, RefuseQuarantined
    <3>2. CASE Create(a) \/ Recreate(a)
      <4>1. ASSUME NEW b \in Leases, Alive(b), pc[b] = "unlink" PROVE lock # None
        BY <4>1 DEF ChainInv, RecoverDead
      <4> QED BY <3>2, <4>1 DEF Create, Recreate, Publish
    <3>3. CASE Read(a) \/ Judge(a)
      BY <3>3 DEF Read, Judge
    <3>4. CASE Claim(a)
      BY <3>4 DEF Claim
    <3>5. CASE Verify(a)
      BY <3>5 DEF Verify
    <3>6. CASE Unlink(a)
      <4>1. lock = seen[a] /\ ~Alive(seen[a])
        BY <3>6 DEF Unlink, ChainInv, RecoverDead
      <4>2. ASSUME NEW b \in Leases, Alive(b), pc[b] = "unlink" PROVE b = a
        BY <3>6, <4>1, <4>2, OneRecoverer DEF Unlink, ChainInv, Claimed, RecoverDead
      <4> QED BY <3>6, <4>1, <4>2 DEF Unlink
    <3> QED BY <2>2, <3>1, <3>2, <3>3, <3>4, <3>5, <3>6 DEF AcquireStep
  <2>3. CASE CallMark(a) \/ MarkThrows(a)
    BY <2>3 DEF CallMark, MarkThrows
  <2>4. CASE MarkStep(a)
    <3>1. CASE MarkOwner(a) \/ MarkLook(a) \/ MarkConfirm(a)
      BY <3>1 DEF MarkOwner, MarkLook, MarkConfirm
    <3>2. CASE MarkPublish(a)
      BY <3>2 DEF MarkPublish
    <3> QED BY <2>4, <3>1, <3>2 DEF MarkStep
  <2>5. CASE CallRelease(a) \/ ReleaseThrows(a)
    BY <2>5 DEF CallRelease, ReleaseThrows
  <2>6. CASE ReleaseStep(a)
    <3>1. CASE WaitMark(a) \/ ReadLock(a)
      BY <3>1 DEF WaitMark, ReadLock
    <3>2. CASE ReadMarker(a)
      BY <3>2 DEF ReadMarker
    <3>3. CASE UnlinkMarker(a)
      BY <3>3 DEF UnlinkMarker
    <3>4. CASE UnlinkLock(a)
      <4>1. ASSUME NEW b \in Leases, Alive(b), pc[b] = "unlink" PROVE FALSE
        BY <3>4, <4>1 DEF UnlinkLock, ChainInv, RecoverDead
      <4> QED BY <3>4, <4>1 DEF UnlinkLock
    <3> QED BY <2>6, <3>1, <3>2, <3>3, <3>4 DEF ReleaseStep
  <2>7. CASE SpawnTree(a) \/ TreeEnds(a)
    BY <2>7 DEF SpawnTree, TreeEnds
  <2> QED BY <1>2, <2>1, <2>2, <2>3, <2>4, <2>5, <2>6, <2>7 DEF LeaseStep
<1>3. ASSUME NEW h \in Hosts, Crash(h) PROVE LockInv'
  BY <1>3 DEF Crash
<1>4. CASE RecoverManually
  BY <1>4 DEF RecoverManually
<1> QED BY <1>1, <1>2, <1>3, <1>4 DEF Next

\* The inductive invariant.
Inv == TypeInv /\ MarkerInv /\ ChainInv /\ LockInv

\* All parts of the inductive invariant of acquire, markRuntimeUncertain and
\* release hold together.
LEMMA Invariant == Spec => []Inv
<1>1. Init => Inv
  <2>1. Init => ChainInv
    BY DEF Init, ChainInv, ChainDead, ChainOpen, ClaimOnce, RecoverDead, OnChain,
           Claimed, Claimants, OpenEnd, Owners
  <2>2. Init => LockInv
    BY DEF Init, LockInv, OwnLock, UnlinkVerified, HolderMarker, PendingHeld,
           MarkerFirst, NeverLost, ReleasedLeavesNothing, Holding, Releasing, Pending
  <2>3. Init => TypeInv /\ MarkerInv
    BY DEF Init, TypeInv, TypeOK, SeenRead, Owners, MarkerInv, MarkFresh,
           QuarantineCoversTree, TreeHeld, MarkDone, MarkerRead
  <2> QED BY <2>1, <2>2, <2>3 DEF Inv
<1>2. Inv /\ [Next]_vars => Inv'
  <2> SUFFICES ASSUME Inv, [Next]_vars PROVE Inv'
    OBVIOUS
  <2>1. [NextOutsider]_vars
    BY DEF NextOutsider
  <2> QED BY <2>1, TypeStep, MarkerStep, ChainStep, LockStep DEF Inv
<1> QED BY <1>1, <1>2, PTL DEF Spec

\* Whoever holds the lease of a session file does so alone, and no tree of an
\* earlier owner runs (acquire).
THEOREM HolderIsAlone == Spec => []HolderAlone
<1>1. Inv => HolderExclusion
  BY DEF Inv, LockInv, OwnLock, HolderExclusion, Holds
<1>2. Inv => HeldExcludesForeignTree
  BY DEF Inv, TypeInv, TypeOK, MarkerInv, QuarantineCoversTree, LockInv, HolderMarker,
         HeldExcludesForeignTree, Holds
<1>3. Inv => HolderAlone
  BY <1>1, <1>2 DEF HolderAlone
<1> QED BY <1>3, Invariant, PTL

\* A released lease has left neither lock nor marker.
THEOREM ReleaseIsClean == Spec => []ReleasedLeavesNothing
<1>1. Inv => ReleasedLeavesNothing
  BY DEF Inv, LockInv
<1> QED BY <1>1, Invariant, PTL

\* No step of another lease, no crash and no recovery removes or replaces the
\* lock of a lease whose Host runs: it goes when that lease is released.
THEOREM LockKept == Spec => LockNeverStolen
<1> DEFINE Stolen(a) == lock = a /\ Alive(a) /\ lock' # a /\ pc'[a] # "released"
<1>1. ASSUME Inv, [Next]_vars, NEW a \in Leases PROVE ~Stolen(a)
  <2> SUFFICES ASSUME lock = a, Alive(a), lock' # a PROVE pc'[a] = "released"
    OBVIOUS
  <2> USE DEF Inv, TypeInv, TypeOK, Owners, Alive
  <2>1. CASE UNCHANGED lock
    BY <2>1
  <2>2. ASSUME NEW b \in Leases, Create(b) \/ Recreate(b) PROVE FALSE
    BY <2>2 DEF Create, Recreate, Publish
  <2>3. ASSUME NEW b \in Leases, Unlink(b) PROVE FALSE
    BY <1>1, <2>3 DEF Unlink, LockInv, UnlinkVerified, ChainInv, RecoverDead
  <2>4. ASSUME NEW b \in Leases, UnlinkLock(b) PROVE pc'[a] = "released"
    BY <1>1, <2>4 DEF UnlinkLock, LockInv, OwnLock, Holding, Releasing
  <2>5. ASSUME NEW b \in Leases, LeaseStep(b)
        PROVE  UNCHANGED lock \/ Create(b) \/ Recreate(b) \/ Unlink(b) \/ UnlinkLock(b)
    BY <2>5 DEF LeaseStep, Begin, AcquireStep, Check, Confirm, Exists, Recheck,
                RefuseQuarantined, Read, Judge, Claim, Verify, Throw, CallMark, MarkStep,
                MarkOwner, MarkLook, MarkPublish, MarkConfirm, MarkThrows, CallRelease,
                ReleaseStep, WaitMark, ReadLock, ReadMarker, UnlinkMarker,
                ReleaseThrows, SpawnTree, TreeEnds
  <2> QED BY <1>1, <2>1, <2>2, <2>3, <2>4, <2>5 DEF Next, vars, Crash, RecoverManually
<1>2. Inv /\ [Next]_vars
        => [\A a \in Leases : lock = a /\ Alive(a) /\ lock' # a => pc'[a] = "released"]_vars
  BY <1>1
<1> QED BY <1>2, Invariant, PTL DEF Spec, LockNeverStolen

-----------------------------------------------------------------------------
(* The refinement of OwnedSession.                                          *)

\* The lease that a running Host holds is the owner of the abstract session.
LEMMA OwnerIs ==
  ASSUME HolderExclusion, NEW a \in Leases, Holds(a) PROVE Owner = a
BY DEF HolderExclusion, Owner

\* Without a holder the abstract session has no owner.
LEMMA OwnerNone == (\A a \in Leases : ~Holds(a)) => Owner = None
BY DEF Owner

\* The owner does not change when the same leases hold.
LEMMA OwnerSame ==
  ASSUME HolderExclusion, HolderExclusion', \A a \in Leases : Holds(a)' = Holds(a)
  PROVE  Owner' = Owner
<1>1. CASE \E a \in Leases : Holds(a)
  <2>1. PICK a \in Leases : Holds(a)
    BY <1>1
  <2>2. Owner = a
    BY <2>1, OwnerIs
  <2>3. Holds(a)'
    BY <2>1
  <2>4. Owner' = a
    BY <2>3 DEF HolderExclusion, Owner
  <2> QED BY <2>2, <2>4
<1>2. CASE ~\E a \in Leases : Holds(a)
  BY <1>2 DEF Owner
<1> QED BY <1>1, <1>2

\* Every step is a step of the abstract leased session, or none.
LEMMA OwnedStep == Inv /\ Inv' /\ [Next]_vars => [Owned!Next]_<<Owner, tree>>
<1> SUFFICES ASSUME Inv, Inv', [Next]_vars PROVE [Owned!Next]_<<Owner, tree>>
  OBVIOUS
<1>1. HolderExclusion /\ HolderExclusion'
  BY DEF Inv, LockInv, OwnLock, HolderExclusion, Holds
<1> USE DEF Inv, TypeInv, TypeOK
<1>2. CASE UNCHANGED vars
  <2>1. \A a \in Leases : Holds(a)' = Holds(a)
    BY <1>2 DEF vars, Holds, Alive
  <2> QED BY <1>1, <1>2, <2>1, OwnerSame DEF vars
<1>3. ASSUME NEW a \in Leases, LeaseStep(a) PROVE [Owned!Next]_<<Owner, tree>>
  <2>1. CASE Confirm(a) /\ pc'[a] = "held"
    <3>1. /\ pc[a] = "confirm" /\ Alive(a) /\ marker = None
          /\ \A b \in Leases : b # a => pc'[b] = pc[b]
          /\ UNCHANGED <<tree, alive>>
      BY <2>1 DEF Confirm, RefuseQuarantined
    <3>2. \A b \in Leases : ~Holds(b)
      BY <3>1 DEF LockInv, OwnLock, Holds, Holding, Releasing
    <3>3. Owner = None
      BY <3>2, OwnerNone
    <3>4. Holds(a)'
      BY <2>1, <3>1 DEF Holds, Alive, Holding
    <3>5. Owner' = a
      BY <3>4, <1>1 DEF HolderExclusion, Owner
    <3>6. tree = {}
      BY <3>1 DEF MarkerInv, QuarantineCoversTree
    <3> QED BY <3>1, <3>3, <3>5, <3>6 DEF Owned!Next, Owned!Take
  <2>2. CASE UnlinkLock(a)
    <3>1. pc[a] = "unlinkLock" /\ Alive(a) /\ UNCHANGED <<tree, alive>>
      BY <2>2 DEF UnlinkLock
    <3>2. Holds(a) /\ pc'[a] = "released" /\ \A b \in Leases : b # a => pc'[b] = pc[b]
      BY <2>2, <3>1 DEF UnlinkLock, Holds, Holding, Releasing
    <3>3. \A b \in Leases : ~Holds(b)'
      BY <3>1, <3>2, <1>1 DEF HolderExclusion, Holds, Alive, Holding, Releasing
    <3>4. Owner' = None
      BY <3>3 DEF Owner
    <3>5. tree = {}
      BY <3>1, <3>2 DEF MarkerInv, QuarantineCoversTree, TreeHeld, LockInv, HolderMarker,
                        Holds
    <3> QED BY <3>1, <3>4, <3>5 DEF Owned!Next, Owned!GiveUp
  <2>3. CASE SpawnTree(a)
    <3>1. pc[a] = "held" /\ Alive(a) /\ tree' = tree \cup {a} /\ UNCHANGED <<pc, alive>>
      BY <2>3 DEF SpawnTree
    <3>2. Holds(a) /\ \A b \in Leases : Holds(b)' = Holds(b)
      BY <3>1 DEF Holds, Alive, Holding
    <3>3. Owner = a /\ Owner' = Owner
      BY <3>2, <1>1, OwnerIs, OwnerSame
    <3>4. tree \subseteq {a}
      BY <3>2 DEF MarkerInv, QuarantineCoversTree, LockInv, HolderMarker, Holds
    <3> QED BY <3>1, <3>3, <3>4 DEF Owned!Next, Owned!Run
  <2>4. CASE TreeEnds(a)
    <3>1. \A b \in Leases : Holds(b)' = Holds(b)
      BY <2>4 DEF TreeEnds, Holds, Alive
    <3> QED BY <2>4, <3>1, <1>1, OwnerSame DEF TreeEnds, Owned!Next, Owned!End
  <2>5. ASSUME UNCHANGED <<tree, alive>>,
               \A b \in Leases : pc'[b] \in Holding <=> pc[b] \in Holding
        PROVE  UNCHANGED <<Owner, tree>>
    <3>1. \A b \in Leases : Holds(b)' = Holds(b)
      BY <2>5 DEF Holds, Alive
    <3> QED BY <2>5, <3>1, <1>1, OwnerSame
  <2> USE DEF Holding, Releasing, Acquiring
  <2>6. CASE Begin(a) \/ Throw(a)
    BY <2>5, <2>6 DEF Begin, Throw
  <2>7. CASE AcquireStep(a) /\ ~(Confirm(a) /\ pc'[a] = "held")
    <3>1. CASE Check(a) \/ Confirm(a) \/ Exists(a) \/ Recheck(a)
      BY <2>5, <2>7, <3>1 DEF Check, Confirm, Exists, Recheck, RefuseQuarantined
    <3>2. CASE Create(a) \/ Recreate(a)
      BY <2>5, <3>2 DEF Create, Recreate, Publish
    <3>3. CASE Read(a) \/ Judge(a) \/ Claim(a) \/ Verify(a) \/ Unlink(a)
      BY <2>5, <3>3 DEF Read, Judge, Claim, Verify, Unlink
    <3> QED BY <2>7, <3>1, <3>2, <3>3 DEF AcquireStep
  <2>8. CASE CallMark(a) \/ MarkStep(a) \/ MarkThrows(a)
    BY <2>5, <2>8 DEF CallMark, MarkStep, MarkOwner, MarkLook, MarkPublish, MarkConfirm,
                      MarkThrows
  <2>9. CASE CallRelease(a) \/ ReleaseThrows(a)
    BY <2>5, <2>9 DEF CallRelease, ReleaseThrows
  <2>10. CASE ReleaseStep(a) /\ ~UnlinkLock(a)
    <3>1. pc[a] # "readMarkerLost"
      BY DEF LockInv, NeverLost
    <3> QED BY <2>5, <2>10, <3>1 DEF ReleaseStep, WaitMark, ReadLock, ReadMarker,
                                     UnlinkMarker
  <2> QED BY <1>3, <2>1, <2>2, <2>3, <2>4, <2>6, <2>7, <2>8, <2>9, <2>10
          DEF LeaseStep, ReleaseStep
<1>4. ASSUME NEW h \in Hosts, Crash(h) PROVE [Owned!Next]_<<Owner, tree>>
  <2>1. UNCHANGED <<tree, pc>> /\ alive' \subseteq alive
    BY <1>4 DEF Crash
  <2>2. CASE \A a \in Leases : Holds(a)' = Holds(a)
    BY <2>1, <2>2, <1>1, OwnerSame
  <2>3. CASE ~\A a \in Leases : Holds(a)' = Holds(a)
    <3>1. PICK a \in Leases : Holds(a) /\ ~Holds(a)'
      BY <2>1, <2>3 DEF Holds, Alive
    <3>2. \A b \in Leases : ~Holds(b)'
      BY <2>1, <3>1, <1>1 DEF HolderExclusion, Holds, Alive
    <3>3. Owner = a /\ Owner' = None
      BY <3>1, <3>2, <1>1, OwnerIs DEF Owner
    <3> QED BY <2>1, <3>3 DEF Owned!Next, Owned!Orphan
  <2> QED BY <2>2, <2>3
<1>5. CASE RecoverManually
  <2>1. \A a \in Leases : Holds(a)' = Holds(a)
    BY <1>5 DEF RecoverManually, Holds, Alive
  <2> QED BY <1>1, <1>5, <2>1, OwnerSame DEF RecoverManually
<1> QED BY <1>2, <1>3, <1>4, <1>5 DEF Next

\* The lease protocol implements the abstract owned session: nobody takes the
\* session over while anything an earlier owner started is running.
THEOREM LeaseOwnsSession == Spec => OwnedSpec
<1>1. Init => Owned!Init
  BY DEF Init, Owned!Init, Owner, Holds, Holding, Releasing
<1> QED BY <1>1, OwnedStep, Invariant, PTL DEF Spec, OwnedSpec, Owned!Spec

-----------------------------------------------------------------------------
(* The race for a stale lock: any number of contenders, from StaleInit.    *)

Racing == \A a \in Contenders : Alive(a)

\* A contender has acquired the lease, whether or not it has released it since.
Won == \E a \in Contenders : pc[a] \in Holding \cup {"released"}

\* The dead owner's lock is where it was.  Whoever claimed it is on its way to unlink it:
\* a contender refuses because of such a claim alone.
StillStale ==
  /\ lock = deadOwner
  /\ \E a \in Contenders : pc[a] # "failed"
  /\ \A a \in Contenders :
       /\ pc[a] # "recreate"
       /\ pc[a] \in {"judge", "claim", "recheck", "verify", "unlink"} => seen[a] = deadOwner
  /\ \A p \in Owners :
       claims[deadOwner][p] \in Contenders =>
         pc[claims[deadOwner][p]] \in {"recheck", "verify", "unlink"}

\* Somebody is about to win: its lock is there, or there is none and it will publish
\* its own, unless another does; or the race is still open.
Open ==
  \/ \E a \in Contenders : pc[a] = "confirm"
  \/ lock = None /\ \E a \in Contenders : pc[a] = "recreate"
  \/ StillStale

RaceInv ==
  /\ ~Alive(deadOwner) /\ ~Alive(deadClaimant)
  /\ Racing =>
       /\ \A a \in Contenders : mark[a] # "idle" => pc[a] \in Holding \cup {"released"}
       /\ Won \/ (marker = None /\ Open)

\* A process of the starting state is dead and takes no step, but for its tree.
LEMMA ContenderSteps ==
  ASSUME RaceInv, NEW a \in Leases, StaleStep(a)
  PROVE  a \in Contenders \/ TreeEnds(a)
BY DEF RaceInv, Contenders, Alive, StaleStep, Begin, AcquireStep, Check, Create, Confirm, Exists,
       Read, Judge, Claim, Recheck, Verify, Unlink, Recreate, RefuseQuarantined, Publish,
       CallMark, MarkStep, MarkOwner, MarkLook, MarkPublish, MarkConfirm, MarkThrows,
       CallRelease, ReleaseStep, WaitMark, ReadLock, ReadMarker, UnlinkMarker, UnlinkLock,
       ReleaseThrows, SpawnTree

\* Who acquires moves on, or fails; whoever has acquired the lease never fails.
LEMMA WonStays ==
  ASSUME TypeInv, NEW a \in Leases, StaleStep(a)
  PROVE  \A b \in Leases :
           /\ pc[b] \in Holding \cup {"released"} => pc'[b] \in Holding \cup {"released"}
           /\ b # a => pc'[b] = pc[b] /\ mark'[b] = mark[b]
           /\ mark'[a] # "idle" => mark[a] # "idle" \/ pc[a] \in Holding
<1> USE DEF TypeInv, TypeOK, Owners, Holding, Releasing, Acquiring, Pending
<1>1. CASE Begin(a)
  BY <1>1 DEF Begin
<1>2. CASE AcquireStep(a)
  <2>1. CASE Check(a) \/ Confirm(a) \/ Exists(a) \/ Recheck(a)
    BY <2>1 DEF Check, Confirm, Exists, Recheck, RefuseQuarantined
  <2>2. CASE Create(a) \/ Recreate(a)
    BY <2>2 DEF Create, Recreate, Publish
  <2>3. CASE Read(a) \/ Judge(a) \/ Verify(a) \/ Unlink(a)
    BY <2>3 DEF Read, Judge, Verify, Unlink
  <2>4. CASE Claim(a)
    BY <2>4 DEF Claim
  <2> QED BY <1>2, <2>1, <2>2, <2>3, <2>4 DEF AcquireStep
<1>3. CASE CallMark(a)
  BY <1>3 DEF CallMark
<1>4. CASE MarkStep(a)
  BY <1>4 DEF MarkStep, MarkOwner, MarkLook, MarkPublish, MarkConfirm
<1>5. CASE MarkThrows(a)
  BY <1>5 DEF MarkThrows
<1>6. CASE CallRelease(a)
  BY <1>6 DEF CallRelease
<1>7. CASE ReleaseStep(a)
  BY <1>7 DEF ReleaseStep, WaitMark, ReadLock, ReadMarker, UnlinkMarker, UnlinkLock
<1>8. CASE ReleaseThrows(a)
  BY <1>8 DEF ReleaseThrows
<1>9. CASE SpawnTree(a) \/ TreeEnds(a)
  BY <1>9 DEF SpawnTree, TreeEnds
<1> QED BY <1>1, <1>2, <1>3, <1>4, <1>5, <1>6, <1>7, <1>8, <1>9 DEF StaleStep

\* As long as nobody has won, there is no marker, and the race stays open or is won: the one
\* whose claim made another refuse, the one that unlinked, or the one whose lock it is.
LEMMA OpenStep ==
  ASSUME TypeInv, TypeInv', RaceInv, Racing, ~Won,
         NEW a \in Contenders, Begin(a) \/ AcquireStep(a)
  PROVE  marker' = None /\ (Won' \/ Open')
<1> USE DEF Contenders
<1>1. /\ a \in Leases
      /\ marker = None
      /\ Open
  BY DEF RaceInv
<1>2. marker' = None
  BY <1>1 DEF Begin, AcquireStep, Check, Create, Confirm, Exists, Read, Judge, Claim, Recheck,
              Verify, Unlink, Recreate, RefuseQuarantined, Publish
<1>3. /\ pc \in [Leases -> {"idle", "failed", "released"} \cup Acquiring \cup Holding]
      /\ \A b \in Leases : b # a => pc'[b] = pc[b]
  <2>1. StaleStep(a)
    BY DEF StaleStep
  <2> QED BY <1>1, <2>1, WonStays DEF TypeInv, TypeOK
<1>4. CASE \E b \in Contenders : pc[b] = "confirm"
  <2>1. PICK b \in Contenders : pc[b] = "confirm"
    BY <1>4
  <2>2. CASE b # a
    BY <1>2, <1>3, <2>1, <2>2 DEF Open
  <2>3. CASE b = a
    <3>1. Confirm(a)
      BY <2>1, <2>3 DEF Begin, AcquireStep, Check, Create, Exists, Read, Judge, Claim, Recheck,
                        Verify, Unlink, Recreate, RefuseQuarantined, Publish
    <3>2. pc'[a] = "held"
      BY <1>1, <1>3, <3>1 DEF Confirm, RefuseQuarantined
    <3> QED BY <1>2, <3>2 DEF Won, Holding
  <2> QED BY <2>2, <2>3
<1>5. CASE lock = None /\ \E b \in Contenders : pc[b] = "recreate"
  <2>1. PICK b \in Contenders : pc[b] = "recreate"
    BY <1>5
  <2>2. CASE Create(a) \/ Recreate(a)
    <3>1. pc'[a] = "confirm"
      BY <1>1, <1>3, <1>5, <2>2 DEF Create, Recreate, Publish
    <3> QED BY <1>2, <3>1 DEF Open
  <2>3. CASE ~(Create(a) \/ Recreate(a))
    <3>1. b # a /\ lock' = None
      BY <1>5, <2>1, <2>3 DEF Begin, AcquireStep, Check, Confirm, Exists, Read, Judge, Claim, Recheck,
                              Verify, Unlink, RefuseQuarantined
    <3> QED BY <1>2, <1>3, <2>1, <3>1 DEF Open
  <2> QED BY <2>2, <2>3
<1>6. CASE StillStale /\ ~\E b \in Contenders : pc[b] = "confirm"
  <2> DEFINE Going == {"recheck", "verify", "unlink"}
             claim(p) == claims[deadOwner][p]
  <2>1. /\ lock = deadOwner /\ lock # None
        /\ seen \in [Leases -> Owners] /\ prev \in [Leases -> Owners]
        /\ claims \in [Leases -> [Owners -> Owners]]
        /\ ~Alive(deadOwner)
        /\ pc[a] \notin {"recreate", "confirm"}
        /\ pc[a] \in {"judge", "claim"} \cup Going => seen[a] = deadOwner
        /\ \A p \in Owners : claim(p) \in Contenders => pc[claim(p)] \in Going
        /\ deadOwner \in Leases
    BY <1>6, StaleAssumption DEF StillStale, TypeInv, TypeOK, RaceInv
  <2>2. CASE Begin(a) \/ Check(a) \/ Exists(a) \/ Recheck(a)
    <3>1. /\ pc'[a] \in {"check", "create", "read", "verify"}
          /\ pc'[a] = "verify" => pc[a] = "recheck"
          /\ pc[a] \in Going => pc'[a] \in Going
          /\ UNCHANGED <<lock, claims, seen>>
      BY <1>1, <1>3, <2>2 DEF Begin, Check, Exists, Recheck, RefuseQuarantined
    <3>2. StillStale'
      BY <1>3, <1>6, <2>1, <3>1 DEF StillStale
    <3> QED BY <1>2, <3>2 DEF Open
  <2>3. CASE Create(a)
    <3>1. /\ pc[a] = "create" /\ pc'[a] = "exists"
          /\ UNCHANGED <<lock, claims, seen>>
      BY <1>1, <1>3, <2>1, <2>3 DEF Create, Publish
    <3>2. StillStale'
      BY <1>3, <1>6, <2>1, <3>1 DEF StillStale
    <3> QED BY <1>2, <3>2 DEF Open
  <2>4. CASE Read(a)
    <3>1. /\ pc[a] = "read" /\ pc'[a] = "judge"
          /\ seen' = [seen EXCEPT ![a] = deadOwner]
          /\ UNCHANGED <<lock, claims>>
      BY <1>1, <1>3, <2>1, <2>4 DEF Read
    <3>2. StillStale'
      BY <1>3, <1>6, <2>1, <3>1 DEF StillStale
    <3> QED BY <1>2, <3>2 DEF Open
  <2>5. CASE Judge(a)
    <3>1. /\ pc[a] = "judge" /\ pc'[a] = "claim"
          /\ UNCHANGED <<lock, claims, seen>>
      BY <1>1, <1>3, <2>1, <2>5 DEF Judge
    <3>2. StillStale'
      BY <1>3, <1>6, <2>1, <3>1 DEF StillStale
    <3> QED BY <1>2, <3>2 DEF Open
  <2>6. CASE Claim(a)
    <3>1. /\ pc[a] = "claim" /\ seen[a] = deadOwner /\ prev[a] \in Owners
          /\ UNCHANGED <<lock, seen>>
      BY <1>1, <2>1, <2>6 DEF Claim
    <3>2. CASE claim(prev[a]) = None
      <4>1. /\ pc'[a] = "recheck"
            /\ claims' = [claims EXCEPT ![deadOwner][prev[a]] = a]
        BY <1>1, <1>3, <2>6, <3>1, <3>2 DEF Claim
      <4>2. /\ claims'[deadOwner][prev[a]] = a
            /\ \A p \in Owners : p # prev[a] => claims'[deadOwner][p] = claim(p)
        BY <2>1, <3>1, <4>1
      <4>3. \A p \in Owners : claim(p)' \in Contenders => pc'[claim(p)'] \in Going
        BY <1>3, <2>1, <3>1, <4>1, <4>2
      <4>4. StillStale'
        BY <1>3, <1>6, <2>1, <3>1, <4>1, <4>3 DEF StillStale
      <4> QED BY <1>2, <4>4 DEF Open
    <3>3. CASE claim(prev[a]) # None
      <4>1. /\ pc'[a] = IF ~Alive(claim(prev[a])) THEN "claim" ELSE "failed"
            /\ UNCHANGED claims
        BY <1>1, <1>3, <2>6, <3>1, <3>3 DEF Claim
      <4>2. Alive(claim(prev[a])) => claim(prev[a]) \in Contenders
        BY <2>1, <3>1, <3>3 DEF RaceInv, Owners
      <4>3. \E b \in Contenders : pc'[b] # "failed"
        BY <1>3, <2>1, <3>1, <4>1, <4>2
      <4>4. StillStale'
        BY <1>3, <1>6, <2>1, <3>1, <4>1, <4>3 DEF StillStale
      <4> QED BY <1>2, <4>4 DEF Open
    <3> QED BY <3>2, <3>3
  <2>7. CASE Verify(a)
    <3>1. /\ pc[a] = "verify" /\ pc'[a] = "unlink"
          /\ UNCHANGED <<lock, claims, seen>>
      BY <1>1, <1>3, <2>1, <2>7 DEF Verify
    <3>2. StillStale'
      BY <1>3, <1>6, <2>1, <3>1 DEF StillStale
    <3> QED BY <1>2, <3>2 DEF Open
  <2>8. CASE Unlink(a)
    <3>1. lock' = None /\ pc'[a] = "recreate"
      BY <1>1, <1>3, <2>1, <2>8 DEF Unlink
    <3> QED BY <1>2, <3>1 DEF Open
  <2>9. CASE Confirm(a) \/ Recreate(a)
    BY <2>1, <2>9 DEF Confirm, Recreate, RefuseQuarantined, Publish
  <2> QED BY <2>2, <2>3, <2>4, <2>5, <2>6, <2>7, <2>8, <2>9 DEF AcquireStep
<1> QED BY <1>1, <1>4, <1>5, <1>6 DEF Open

\* Every step of the race keeps it open, or somebody wins.
LEMMA RaceStep == TypeInv /\ TypeInv' /\ RaceInv /\ [StaleNext]_vars => RaceInv'
<1> SUFFICES ASSUME TypeInv, TypeInv', RaceInv, [StaleNext]_vars PROVE RaceInv'
  OBVIOUS
<1> DEFINE Through == Holding \cup {"released"}
           Unacquired == \A a \in Contenders : mark[a] # "idle" => pc[a] \in Through
<1>1. CASE UNCHANGED vars
  <2>1. RaceInv = RaceInv'
    BY <1>1 DEF vars, RaceInv, Alive, Racing, Won, Open, StillStale
  <2> QED BY <2>1
<1>2. ASSUME NEW a \in Leases, StaleStep(a) PROVE RaceInv'
  <2>1. alive' = alive
    BY <1>2 DEF StaleStep, Begin, AcquireStep, Check, Create, Confirm, Exists,
         Read, Judge, Claim, Recheck, Verify, Unlink, Recreate, RefuseQuarantined, Publish,
         CallMark, MarkStep, MarkOwner, MarkLook, MarkPublish, MarkConfirm, MarkThrows,
         CallRelease, ReleaseStep, WaitMark, ReadLock, ReadMarker, UnlinkMarker, UnlinkLock,
         ReleaseThrows, SpawnTree, TreeEnds
  <2>2. CASE TreeEnds(a)
    <3>1. RaceInv = RaceInv'
      BY <2>2 DEF TreeEnds, files, RaceInv, Alive, Racing, Won, Open, StillStale
    <3> QED BY <3>1
  <2>3. CASE a \in Contenders
    <3>1. ASSUME Racing' PROVE Unacquired' /\ (Won' \/ (marker' = None /\ Open'))
      <4>1. Racing /\ Unacquired /\ (Won \/ (marker = None /\ Open))
        BY <2>1, <3>1 DEF Racing, Alive, RaceInv
      <4>2. Unacquired'
        BY <1>2, <4>1, WonStays DEF Contenders
      <4>3. CASE Won
        <5>1. Won'
          BY <1>2, <4>3, WonStays DEF Won, Contenders
        <5> QED BY <4>2, <5>1
      <4>4. CASE ~Won
        <5>1. mark[a] = "idle" /\ pc[a] \notin Through
          BY <2>3, <4>1, <4>4 DEF Won
        <5>2. ~(CallMark(a) \/ CallRelease(a) \/ ReleaseStep(a) \/ ReleaseThrows(a) \/ SpawnTree(a))
          BY <5>1 DEF CallMark, CallRelease, ReleaseStep, WaitMark, ReadLock, ReadMarker,
             UnlinkMarker, UnlinkLock, ReleaseThrows, SpawnTree, Holding, Releasing
        <5>3. ~(MarkStep(a) \/ MarkThrows(a))
          BY <5>1 DEF MarkStep, MarkOwner, MarkLook, MarkPublish, MarkConfirm, MarkThrows, Pending
        <5>4. CASE TreeEnds(a)
          BY <2>2, <3>1, <5>4 DEF RaceInv
        <5>5. CASE Begin(a) \/ AcquireStep(a)
          BY <2>3, <4>1, <4>2, <4>4, <5>5, OpenStep
        <5> QED BY <1>2, <5>2, <5>3, <5>4, <5>5 DEF StaleStep
      <4> QED BY <4>2, <4>3, <4>4
    <3> QED BY <2>1, <3>1 DEF RaceInv, Alive
  <2> QED BY <1>2, <2>2, <2>3, ContenderSteps
<1>3. ASSUME NEW h \in Hosts, Crash(h) PROVE RaceInv'
  <2>1. alive' \subseteq alive /\ UNCHANGED <<lock, marker, claims, pc, seen, prev, mark, tree>>
    BY <1>3 DEF Crash
  <2>2. Racing' => Racing
    BY <2>1 DEF Racing, Alive
  <2>3. Won = Won' /\ Open = Open' /\ Unacquired = Unacquired'
    BY <2>1 DEF Won, Open, StillStale
  <2> QED BY <2>1, <2>2, <2>3 DEF RaceInv, Alive
<1>4. CASE RecoverManually
  <2>1. marker' = None /\ UNCHANGED <<lock, claims, alive, pc, seen, prev, mark>>
    BY <1>4 DEF RecoverManually
  <2>2. Won = Won' /\ Open = Open' /\ Unacquired = Unacquired' /\ Racing = Racing'
    BY <2>1 DEF Won, Open, StillStale, Racing, Alive
  <2> QED BY <2>1, <2>2 DEF RaceInv, Alive
<1>5. CASE lock # deadOwner /\ LockFileLost
  <2>1. /\ lock # deadOwner /\ lock' = None
        /\ UNCHANGED <<marker, claims, alive, pc, seen, prev, mark>>
    BY <1>5 DEF LockFileLost
  <2>2. Won = Won' /\ Unacquired = Unacquired' /\ Racing = Racing'
    BY <2>1 DEF Won, Racing, Alive
  <2>3. Open => Open'
    BY <2>1 DEF Open, StillStale
  <2> QED BY <2>1, <2>2, <2>3 DEF RaceInv, Alive
<1> QED BY <1>1, <1>2, <1>3, <1>4, <1>5 DEF StaleNext

\* However many processes race over the lock of a dead owner whose first recoverer died on
\* its claim, and whatever they do with the lease then: while they live, they never all refuse one another.
THEOREM RaceIsWon == StaleSpec => []RaceHasWinner
<1>1. StaleInit => TypeInv
  BY StaleAssumption DEF StaleInit, TypeInv, TypeOK, SeenRead, Owners, Acquiring, Holding, Releasing
<1>2. StaleInit => RaceInv
  <2> SUFFICES ASSUME StaleInit PROVE RaceInv
    OBVIOUS
  <2>1. PICK a \in Contenders : TRUE
    BY StaleAssumption DEF Contenders
  <2>2. \A b \in Contenders : b \in Leases /\ pc[b] = "idle" /\ mark[b] = "idle"
    BY DEF StaleInit, Contenders
  <2>3. ~Alive(deadOwner) /\ ~Alive(deadClaimant) /\ marker = None /\ lock = deadOwner
    BY DEF StaleInit, Alive
  <2>4. \A p \in Owners : claims[deadOwner][p] \notin Contenders
    <3>1. \A p \in Owners : claims[deadOwner][p] \in {deadClaimant, None}
      BY StaleAssumption DEF StaleInit
    <3> QED BY <3>1 DEF Contenders
  <2>5. StillStale
    BY <2>1, <2>2, <2>3, <2>4 DEF StillStale
  <2> QED BY <2>2, <2>3, <2>5 DEF RaceInv, Open
<1>3. RaceInv => RaceHasWinner
  <2> SUFFICES ASSUME RaceInv, \A a \in Contenders : Alive(a) /\ pc[a] = "failed" PROVE FALSE
    BY DEF RaceHasWinner
  <2>1. Racing /\ ~Won
    BY DEF Racing, Won, Holding, Releasing
  <2>2. \E a \in Contenders : pc[a] # "failed"
    BY <2>1 DEF RaceInv, Open, StillStale
  <2> QED BY <2>2
<1>4. [StaleNext]_vars => [NextOutsider]_vars
  BY DEF StaleNext, StaleStep, NextOutsider, Next, LeaseStep
<1>5. TypeInv /\ RaceInv /\ [StaleNext]_vars => (TypeInv /\ RaceInv)'
  BY <1>4, TypeStep, RaceStep
<1> QED BY <1>1, <1>2, <1>3, <1>5, PTL DEF StaleSpec

=============================================================================
