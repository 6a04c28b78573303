------------------------------ MODULE PiSettings ------------------------------
(***************************************************************************)
(* One settings document of Pi (pi-settings-documents.ts): what editors    *)
(* read of it, how they save it (savePiSettingsDocument) beside Pi, which  *)
(* honours the same lock directory, and beside outsiders, who do not.      *)
(*                                                                         *)
(* A revision is the hash of the bytes, so it is the content itself here,  *)
(* Missing when there is no file.  Every saver is a call of its own, in    *)
(* the same Host or in another: nothing but the lock keeps them apart.  A  *)
(* file operation that is not answered with success throws.                *)
(*                                                                         *)
(* Left out: the validation of the new text, which comes before any await; *)
(* the snapshot that a save returns, which another read makes; and time:   *)
(* that a save is done before Pi takes its lock for a stale one.           *)
(*                                                                         *)
(* An operator introduced by a comment that begins with "Bug:" is not part *)
(* of the specification: it is what a plausible mistake would make of the  *)
(* operator after it, and shows that the properties notice.                *)
(***************************************************************************)
EXTENDS Naturals

CONSTANTS
  Savers,       \* calls of savePiSettingsDocument
  Contents,     \* of the document
  Broken,       \* contents that Pi cannot read
  Missing,      \* there is no document
  Text,         \* saver -> the content that it saves
  MaxAttempts,  \* delays.length
  Pi, Nobody    \* holders of the lock that are no saver

ASSUME SettingsAssumption ==
  /\ Broken \subseteq Contents /\ Missing \notin Contents
  /\ Text \in [Savers -> Contents \ Broken]
  /\ MaxAttempts \in Nat \ {0}
  /\ {Pi, Nobody} \cap Savers = {} /\ Pi # Nobody

VARIABLES
  document,     \* the content of the file, or Missing
  lock,         \* who made the lock directory
  saving,       \* saver -> where it awaits, or how it ended
  expected,     \* saver -> expectedRevision: what its editor read
  attempt,      \* saver -> how many renames were denied
  staged,       \* savers whose temporary file is there
  raced         \* ghost: savers since whose last look an outsider has written

settingsVars == <<document, lock, saving, expected, attempt, staged, raced>>

Documents == Contents \cup {Missing}
Locked == {"read", "stage", "check", "rename", "unstage", "unlock"}
Over == {"saved", "failed", "dead"}

SettingsTypeOK ==
  /\ document \in Documents
  /\ lock \in Savers \cup {Pi, Nobody}
  /\ saving \in [Savers -> {"idle", "editing", "lock"} \cup Locked \cup Over]
  /\ expected \in [Savers -> Documents]
  /\ attempt \in [Savers -> 0..MaxAttempts]
  /\ staged \subseteq Savers /\ raced \subseteq Savers

SettingsInit ==
  /\ document \in Documents
  /\ lock = Nobody
  /\ saving = [s \in Savers |-> "idle"]
  /\ expected = [s \in Savers |-> Missing]
  /\ attempt = [s \in Savers |-> 0]
  /\ staged = {} /\ raced = {}

Continues(s, from, to) == saving[s] = from /\ saving' = [saving EXCEPT ![s] = to]

\* The editor reads the document (readPiSettingsDocuments).
Opened(s) ==
  /\ Continues(s, "idle", "editing")
  /\ expected' = [expected EXCEPT ![s] = document]
  /\ UNCHANGED <<document, lock, attempt, staged, raced>>

\* The save is called, and has read both documents once, to find the path.
Called(s) ==
  /\ Continues(s, "editing", "lock")
  /\ UNCHANGED <<document, lock, expected, attempt, staged, raced>>

\* Bug: the lock directory is made whether it is there or not (recursive).
LockAnyway(s) ==
  /\ Continues(s, "lock", "read")
  /\ lock' = s
  /\ UNCHANGED <<document, expected, attempt, staged, raced>>

\* The lock directory is made, unless it is there.
Lock(s) ==
  /\ lock = Nobody
  /\ Continues(s, "lock", "read")
  /\ lock' = s
  /\ UNCHANGED <<document, expected, attempt, staged, raced>>

Busy(s) ==
  /\ Continues(s, "lock", "failed")
  /\ UNCHANGED <<document, lock, expected, attempt, staged, raced>>

\* The document is still what the editor read, and Pi can read it.
Compared(s) ==
  /\ document = expected[s] /\ document \notin Broken
  /\ Continues(s, "read", "stage")
  /\ UNCHANGED <<document, lock, expected, attempt, staged, raced>>

\* The new text is written to a temporary file and synced.
Staged(s) ==
  /\ Continues(s, "stage", "check")
  /\ staged' = staged \cup {s}
  /\ UNCHANGED <<document, lock, expected, attempt, raced>>

\* Before every attempt the document is compared again.
Checked(s) ==
  /\ document = expected[s]
  /\ Continues(s, "check", "rename")
  /\ raced' = raced \ {s}
  /\ UNCHANGED <<document, lock, expected, attempt, staged>>

Renamed(s) ==
  /\ Continues(s, "rename", "unlock")
  /\ document' = Text[s]
  /\ staged' = staged \ {s}
  /\ UNCHANGED <<lock, expected, attempt, raced>>

\* The rename is denied while somebody reads the document: once more after a delay.
Denied(s) ==
  /\ attempt[s] + 1 < MaxAttempts
  /\ Continues(s, "rename", "check")
  /\ attempt' = [attempt EXCEPT ![s] = @ + 1]
  /\ UNCHANGED <<document, lock, expected, staged, raced>>

\* A conflict, a broken document, or an operation that failed, the last rename
\* among them.
Thrown(s) ==
  /\ saving[s] \in {"read", "stage", "check", "rename"}
  /\ saving' = [saving EXCEPT ![s] = "unstage"]
  /\ staged' \in {staged, IF saving[s] = "stage" THEN staged \cup {s} ELSE staged}
  /\ UNCHANGED <<document, lock, expected, attempt, raced>>

\* The temporary file is removed, if that succeeds.
Unstaged(s) ==
  /\ Continues(s, "unstage", "unlock")
  /\ staged' \in {staged, staged \ {s}}
  /\ UNCHANGED <<document, lock, expected, attempt, raced>>

\* The lock directory is removed.  A save that cannot remove it, or read the
\* documents once more, is rejected though it has taken place.
Unlocked(s) ==
  /\ saving[s] = "unlock"
  /\ saving' \in {[saving EXCEPT ![s] = "saved"], [saving EXCEPT ![s] = "failed"]}
  /\ lock' \in {Nobody, lock}
  /\ lock' = lock => saving'[s] = "failed"
  /\ UNCHANGED <<document, expected, attempt, staged, raced>>

\* The Host dies.
HostDies(s) ==
  /\ saving[s] \in Locked
  /\ saving' = [saving EXCEPT ![s] = "dead"]
  /\ UNCHANGED <<document, lock, expected, attempt, staged, raced>>

-----------------------------------------------------------------------------
(* The others.                                                             *)

PiLocks ==
  /\ lock = Nobody /\ lock' = Pi
  /\ UNCHANGED <<document, saving, expected, attempt, staged, raced>>

PiWrites ==
  /\ lock = Pi
  /\ document' \in Contents
  /\ UNCHANGED <<lock, saving, expected, attempt, staged, raced>>

PiUnlocks ==
  /\ lock = Pi /\ lock' = Nobody
  /\ UNCHANGED <<document, saving, expected, attempt, staged, raced>>

\* Somebody who does not honour the lock.
OutsiderWrites ==
  /\ document' \in Documents
  /\ raced' = raced \cup {s \in Savers : saving[s] = "rename"}
  /\ UNCHANGED <<lock, saving, expected, attempt, staged>>

\* Somebody removes a lock directory whose maker is done or dead.
LockRemoved ==
  /\ lock \in Savers /\ saving[lock] \in Over
  /\ lock' = Nobody
  /\ UNCHANGED <<document, saving, expected, attempt, staged, raced>>

SaveStep(s) ==
  \/ Opened(s) \/ Called(s) \/ Lock(s) \/ Busy(s) \/ Compared(s) \/ Staged(s) \/ Checked(s)
  \/ Renamed(s) \/ Denied(s) \/ Thrown(s) \/ Unstaged(s) \/ Unlocked(s) \/ HostDies(s)

SettingsStep ==
  \/ \E s \in Savers : SaveStep(s)
  \/ PiLocks \/ PiWrites \/ PiUnlocks \/ OutsiderWrites \/ LockRemoved

SettingsSpec == SettingsInit /\ [][SettingsStep]_settingsVars

-----------------------------------------------------------------------------

\* A save replaces only what its editor has read, "so a real external edit still
\* wins" (savePiSettingsDocument): neither what Pi has written meanwhile, nor what
\* another save has, nor an outsider, however often the rename is denied.  The
\* exception is an outsider that writes between the last look and the rename, as
\* docs/delivery/coverage.md says too.
SavesYield ==
  [][\A s \in Savers : saving[s] = "rename" /\ saving'[s] = "unlock"
       => document = expected[s] \/ s \in raced]_settingsVars

=============================================================================
