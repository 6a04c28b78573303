---------------------------- MODULE OwnedSession ----------------------------
(***************************************************************************)
(* What a session lease is for: at most one owner at a time may run Pi on  *)
(* the session, and nobody becomes the owner while anything the previous   *)
(* one started is still running, be that owner alive or crashed.           *)
(***************************************************************************)
CONSTANTS Leases, None

VARIABLES owner,    \* the lease that owns the session, or None
          writers   \* leases whose Pi process tree is running

Init == owner = None /\ writers = {}

Take(a) ==
  /\ owner = None /\ writers = {}
  /\ owner' = a
  /\ UNCHANGED writers

Run(a) ==
  /\ owner = a
  /\ writers' = {a}
  /\ UNCHANGED owner

End(a) ==
  /\ a \in writers
  /\ writers' = writers \ {a}
  /\ UNCHANGED owner

\* The owner gave the session up, with nothing running.
GiveUp ==
  /\ writers = {}
  /\ owner' = None
  /\ UNCHANGED writers

\* The owner crashed; what it had started may run on.
Orphan ==
  /\ owner # None
  /\ owner' = None
  /\ UNCHANGED writers

Next ==
  \/ \E a \in Leases : Take(a) \/ Run(a) \/ End(a)
  \/ GiveUp
  \/ Orphan

Spec == Init /\ [][Next]_<<owner, writers>>

=============================================================================
