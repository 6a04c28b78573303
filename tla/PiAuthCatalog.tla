----------------------------- MODULE PiAuthCatalog -----------------------------
(***************************************************************************)
(* The providers that extensions have registered in the live Pi of a       *)
(* workspace, as the service remembers them (readPiAuth, startPiAuth and   *)
(* invalidateAuthRuntimeCatalog in pi-native-v4-service.ts).  An extension *)
(* can register one at any moment, so a start must look at a catalog that  *)
(* was read after it was called, though reads are shared, remembered, and  *)
(* answered late.                                                          *)
(*                                                                         *)
(* Left out: the manager behind it (PiAuth), what a view shows, the choice *)
(* among several live sessions (a change of pid here).                     *)
(*                                                                         *)
(* An operator introduced by a comment that begins with "Bug:" is not part *)
(* of the specification: it is what a plausible mistake would make of the  *)
(* operator after it, and shows that the properties notice.                *)
(***************************************************************************)
EXTENDS Naturals

CONSTANTS
  Views,         \* calls of readPiAuth
  Starts,        \* calls of startPiAuth
  MaxEpochs,     \* a bound on authRuntimeEpochs
  MaxPids,       \* a bound on the processes of Pi
  Absent         \* nothing is remembered

ASSUME CatalogAssumption == MaxEpochs \in Nat /\ MaxPids \in Nat

Lookers == Views \cup Starts

VARIABLES
  epoch,         \* authRuntimeEpochs
  pid,           \* the process of the live session; 0 when there is none
  known,         \* authRuntimeCatalogs: a read that was answered
  unavailable,   \* authRuntimeUnavailable: the pid of a read that failed
  shared,        \* authRuntimeReads: the read that others join
  underway,      \* the reads under way
  place,         \* where each call awaits
  active,        \* the pid that the call has found
  joined,        \* the read that it awaits
  called,        \* ghost: the starts that have been called
  stale          \* ghost: the starts that went on with a catalog read before their call

tables == <<epoch, known, unavailable, shared>>
lookers == <<place, active, joined>>
catalogVars == <<tables, pid, underway, lookers, called, stale>>

CatalogInit ==
  /\ epoch = 0 /\ pid = 1
  /\ known = Absent /\ unavailable = 0 /\ shared = Absent /\ underway = {}
  /\ place = [c \in Lookers |-> "idle"]
  /\ active = [c \in Lookers |-> 0]
  /\ joined = [c \in Lookers |-> Absent]
  /\ called = {} /\ stale = {}

Moves(c, from, to) == place[c] = from /\ place' = [place EXCEPT ![c] = to]

\* Bug: a read that is under way is left in the table, with its epoch.
InvalidateKnown ==
  /\ known' = Absent /\ unavailable' = 0
  /\ UNCHANGED <<epoch, shared>>

\* invalidateAuthRuntimeCatalog.
Invalidate ==
  /\ epoch' = epoch + 1
  /\ known' = Absent /\ unavailable' = 0 /\ shared' = Absent

\* readPiAuth asks the manager for its snapshot; startPiAuth forgets what is known
\* before it calls readPiAuth.
Look(c) ==
  /\ Moves(c, "idle", "snapshot")
  /\ IF c \in Starts THEN epoch < MaxEpochs /\ Invalidate /\ called' = called \cup {c}
                     ELSE UNCHANGED <<tables, called>>
  /\ UNCHANGED <<pid, underway, active, joined, stale>>

\* An extension has registered a provider and says so, or the user refreshes.
Notified ==
  /\ epoch < MaxEpochs
  /\ Invalidate
  /\ UNCHANGED <<pid, underway, lookers, called, stale>>

Remembered(p) == known # Absent /\ known.pid = p

\* The call ends with the catalog that is remembered; a start goes on with it.
Uses(c, p) ==
  /\ Remembered(p)
  /\ stale' = IF c \in Starts \ known.since THEN stale \cup {c} ELSE stale

\* There is no session, or it is busy.
LooksInVain(c) ==
  /\ Moves(c, "snapshot", "over")
  /\ UNCHANGED <<tables, pid, underway, active, joined, called, stale>>

LooksUp(c) ==
  /\ pid > 0 /\ Uses(c, pid)
  /\ Moves(c, "snapshot", "over")
  /\ UNCHANGED <<tables, pid, underway, active, joined, called>>

\* A read that is under way for this Pi is joined, else one is begun, unless one
\* has failed within five seconds.
Joins(c) ==
  /\ pid > 0 /\ ~Remembered(pid)
  /\ Moves(c, "snapshot", "read")
  /\ active' = [active EXCEPT ![c] = pid]
  /\ LET fresh == [epoch |-> epoch, pid |-> pid, since |-> called]
         r == IF shared # Absent /\ shared.pid = pid THEN shared ELSE fresh
     IN /\ joined' = [joined EXCEPT ![c] = r]
        /\ shared' = r
        /\ underway' = underway \cup {r}
  /\ UNCHANGED <<epoch, known, unavailable, pid, called, stale>>

\* A read comes to its end; it is remembered only if nothing was invalidated since
\* it began and its Pi is still the one.
UpToDate(r) == r.epoch = epoch /\ r.pid = pid

ReadEnds(r) ==
  /\ underway' = underway \ {r}
  /\ shared' = IF shared = r THEN Absent ELSE shared
  /\ UNCHANGED <<epoch, pid, active, joined, called, stale>>

ReadDone(r) ==
  /\ known' = IF UpToDate(r) THEN r ELSE known
  /\ place' = [c \in Lookers |-> IF place[c] = "read" /\ joined[c] = r THEN "back" ELSE place[c]]
  /\ UNCHANGED unavailable
  /\ ReadEnds(r)

ReadFails(r) ==
  /\ unavailable' = IF UpToDate(r) THEN r.pid ELSE unavailable
  /\ place' = [c \in Lookers |-> IF place[c] = "read" /\ joined[c] = r THEN "over" ELSE place[c]]
  /\ UNCHANGED known
  /\ ReadEnds(r)

\* A read has failed a moment ago.
Unavailable(c) ==
  /\ pid > 0 /\ ~Remembered(pid) /\ unavailable = pid
  /\ Moves(c, "snapshot", "over")
  /\ UNCHANGED <<tables, pid, underway, active, joined, called, stale>>

\* After the read the table is looked at again: it may have been forgotten.
Back(c) ==
  /\ Moves(c, "back", "over")
  /\ \/ Uses(c, active[c])
     \/ ~Remembered(active[c]) /\ UNCHANGED stale
  /\ UNCHANGED <<tables, pid, underway, active, joined, called>>

\* Pi exits, and another may be started.
PiReplaced ==
  /\ pid < MaxPids
  /\ pid' = pid + 1
  /\ UNCHANGED <<tables, underway, lookers, called, stale>>

CatalogNext ==
  \/ \E c \in Lookers : Look(c) \/ LooksInVain(c) \/ LooksUp(c) \/ Joins(c) \/ Unavailable(c) \/ Back(c)
  \/ \E r \in underway : ReadDone(r) \/ ReadFails(r)
  \/ Notified \/ PiReplaced

CatalogSpec == CatalogInit /\ [][CatalogNext]_catalogVars

-----------------------------------------------------------------------------

\* A start goes on only with a catalog that was read after it was called ("Reinspect
\* this child before any credential action", startPiAuth), whoever began the read
\* that it joins, and whenever the answers come.
StartInspectsFresh == stale = {}

=============================================================================
