----------------------- MODULE MCPiSessionLeaseStale -----------------------
(***************************************************************************)
(* Contenders for a session whose owner died without ever marking a        *)
(* runtime, and whose first recoverer died on its claim: a state that Spec *)
(* reaches, from which the longest acquisitions start.                     *)
(***************************************************************************)
EXTENDS PiSessionLease, TLC

CONSTANTS deadOwner, deadClaimant, c1, c2

\* Somebody is left who contends.
ASSUME StaleAssumption ==
  {deadOwner, deadClaimant} \subseteq Leases /\ Leases # {deadOwner, deadClaimant}

TwoContenders   == {deadOwner, deadClaimant, c1, c2}
OwnHost2 == [a \in TwoContenders |-> a]

Contenders == Leases \ {deadOwner, deadClaimant}

StaleInit ==
  /\ lock = deadOwner
  /\ marker = None
  /\ claims = [x \in Leases |-> [p \in Owners |->
                 IF x = deadOwner /\ p = None THEN deadClaimant ELSE None]]
  /\ alive = Hosts \ {HostOf[deadOwner], HostOf[deadClaimant]}
  /\ pc = [a \in Leases |-> CASE a = deadOwner -> "held"
                              [] a = deadClaimant -> "recheck"
                              [] OTHER -> "idle"]
  /\ seen = [a \in Leases |-> IF a = deadClaimant THEN deadOwner ELSE None]
  /\ prev = [a \in Leases |-> None]
  /\ mark = [a \in Leases |-> "idle"]
  /\ tree = {}

\* Nothing is thrown by an I/O error: that would end an acquisition at once.
StaleStep(a) ==
  \/ Begin(a) \/ AcquireStep(a) \/ CallMark(a) \/ MarkStep(a) \/ MarkThrows(a)
  \/ CallRelease(a) \/ ReleaseStep(a) \/ ReleaseThrows(a)
  \/ SpawnTree(a) \/ TreeEnds(a)

StaleNext ==
  \/ \E a \in Leases : StaleStep(a)
  \/ \E h \in Hosts : Crash(h)
  \/ RecoverManually
  \/ lock # deadOwner /\ LockFileLost

StaleSpec == StaleInit /\ [][StaleNext]_vars /\ Fairness

\* Processes racing over a stale owner have a winner: while they live, they never
\* all refuse one another (the test "multiple processes racing over stale owner").
RaceHasWinner == ~ \A a \in Contenders : Alive(a) /\ pc[a] = "failed"

=============================================================================
