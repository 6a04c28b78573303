-------------------------- MODULE PiCommandAdmission --------------------------
(***************************************************************************)
(* How a command of the renderer is admitted: sendConversationCommandV4,   *)
(* dispatchSerialized and queryConversationCommandsV4                      *)
(* (pi-native-v4-service.ts) over the receipts that PiCommandLedger keeps  *)
(* on disk (pi-command-ledger.ts).                                         *)
(*                                                                         *)
(* A call is one request of the renderer about the command CommandOf[c],   *)
(* to the Host HostOf[c]; a renderer that is unsure sends the same command *)
(* again, also to the Host that was started after the first one died.      *)
(* Hosts share the directory of the receipts, so they are modelled as      *)
(* processes of which any may die at any moment.                           *)
(*                                                                         *)
(* dispatch is abstract: it may do all a command can do (effects counts    *)
(* it), and answers that Pi accepted it, that it did not (the statuses     *)
(* failed, stale and noop), or that nobody knows; or it throws.            *)
(*                                                                         *)
(* Left out: the parsing of the envelope, and the answer for a temporary   *)
(* session that has ended.                                                 *)
(*                                                                         *)
(* An operator introduced by a comment that begins with "Bug:" is not part *)
(* of the specification: it is what a plausible mistake would make of the  *)
(* operator after it, and shows that the properties notice.                *)
(***************************************************************************)
EXTENDS Naturals, Sequences

CONSTANTS
  Hosts, Commands, Lanes, Calls,
  HostOf, CommandOf,
  Queries,     \* the calls of queryConversationCommandsV4
  LaneOf,      \* the session whose commands are serialized with it, or None
  None

\* What became of a dispatch, and what a caller may be told.
Outcomes == {"accepted", "failed", "unknown"}
Answers == Outcomes \cup {"duplicate", "unseen", "closing", "storage", "rejected"}

ASSUME AdmissionAssumption ==
  /\ HostOf \in [Calls -> Hosts]
  /\ CommandOf \in [Calls -> Commands]
  /\ Queries \subseteq Calls
  /\ LaneOf \in [Commands -> Lanes \cup {None}]
  /\ None \notin Calls \cup Lanes \cup Answers

VARIABLES
  alive,       \* the Hosts that run
  receipt,     \* the file of each command; "torn" while it is incomplete
  results,     \* this.commandResults of each Host: the call that was first
  lanes,       \* this.sessionAdmissions of each Host: the calls chained there
  pc,          \* where each call awaits
  answer,      \* what the caller was told
  effects,     \* how many times each command was dispatched
  outcome      \* what its dispatch answered

host == <<alive, results, lanes>>
vars == <<host, receipt, pc, answer, effects, outcome>>

Places == {"idle", "follow", "read", "create", "write", "reread", "lane", "run", "settle", "done"}

\* The maps of the service and the receipts hold what their declarations say.
TypeOK ==
  /\ alive \subseteq Hosts
  /\ receipt \in [Commands -> {"none", "torn", "pending"} \cup Outcomes]
  /\ results \in [Hosts -> [Commands -> Calls \cup {None}]]
  /\ lanes \in [Hosts -> [Lanes -> Seq(Calls)]]
  /\ pc \in [Calls -> Places]
  /\ answer \in [Calls -> Answers \cup {None}]
  /\ effects \in [Commands -> Nat]
  /\ outcome \in [Commands -> Outcomes \cup {None}]

Init ==
  /\ alive = Hosts
  /\ receipt = [k \in Commands |-> "none"]
  /\ results = [h \in Hosts |-> [k \in Commands |-> None]]
  /\ lanes = [h \in Hosts |-> [l \in Lanes |-> <<>>]]
  /\ pc = [c \in Calls |-> "idle"]
  /\ answer = [c \in Calls |-> None]
  /\ effects = [k \in Commands |-> 0]
  /\ outcome = [k \in Commands |-> None]

At(c, l) == HostOf[c] \in alive /\ pc[c] = l
Goto(c, l) == pc' = [pc EXCEPT ![c] = l] /\ UNCHANGED answer
Told(c, a) == pc' = [pc EXCEPT ![c] = "done"] /\ answer' = [answer EXCEPT ![c] = a]

Receipt(c) == receipt[CommandOf[c]]
First(c) == results[HostOf[c]][CommandOf[c]]
Lane(c) == lanes[HostOf[c]][LaneOf[CommandOf[c]]]

-----------------------------------------------------------------------------
(* The call, and the receipt of an earlier one.                            *)

\* The first call of a command on a Host admits it, the others await the first.
Send(c) ==
  /\ At(c, "idle") /\ c \notin Queries
  /\ \/ First(c) # None /\ Goto(c, "follow") /\ UNCHANGED results
     \/ First(c) = None /\ Told(c, "closing") /\ UNCHANGED results
     \/ /\ First(c) = None
        /\ results' = [results EXCEPT ![HostOf[c]][CommandOf[c]] = c]
        /\ Goto(c, "read")
  /\ UNCHANGED <<alive, lanes, receipt, effects, outcome>>

Query(c) ==
  /\ At(c, "idle") /\ c \in Queries
  /\ Goto(c, IF First(c) = None THEN "read" ELSE "follow")
  /\ UNCHANGED <<host, receipt, effects, outcome>>

\* checkedDuplicate, which is not for queries.
Again(c, a) == IF a = "accepted" /\ c \notin Queries THEN "duplicate" ELSE a

\* Bug: who follows waits for a dispatch, which a call that fails before never makes.
FollowDispatched(c) ==
  /\ At(c, "follow")
  /\ answer[First(c)] # None /\ outcome[CommandOf[c]] # None
  /\ Told(c, Again(c, answer[First(c)]))
  /\ UNCHANGED <<host, receipt, effects, outcome>>

Follow(c) ==
  /\ At(c, "follow")
  /\ answer[First(c)] # None
  /\ Told(c, Again(c, answer[First(c)]))
  /\ UNCHANGED <<host, receipt, effects, outcome>>

\* A receipt tells the caller what became of an earlier call.
Heard(c) ==
  \/ Receipt(c) \in Outcomes /\ Told(c, Again(c, Receipt(c)))
  \/ Receipt(c) = "pending" /\ Told(c, "unknown")

\* ledger.read.  A torn receipt is no permission to replay.
Read(c) ==
  /\ At(c, "read")
  /\ \/ Heard(c)
     \/ Receipt(c) = "none" /\ c \notin Queries /\ Goto(c, "create")
     \/ Receipt(c) = "none" /\ c \in Queries /\ Told(c, "unseen")
     \/ Told(c, "storage")
  /\ UNCHANGED <<host, receipt, effects, outcome>>

\* Bug: a receipt that is there is written over.
CreateOver(c) ==
  /\ At(c, "create")
  /\ receipt' = [receipt EXCEPT ![CommandOf[c]] = "torn"] /\ Goto(c, "write")
  /\ UNCHANGED <<host, effects, outcome>>

\* ledger.reserve: the file is created unless it is there, then written.
Create(c) ==
  /\ At(c, "create")
  /\ \/ /\ Receipt(c) = "none"
        /\ receipt' = [receipt EXCEPT ![CommandOf[c]] = "torn"]
        /\ Goto(c, "write")
     \/ Receipt(c) # "none" /\ Goto(c, "reread") /\ UNCHANGED receipt
     \/ Told(c, "storage") /\ UNCHANGED receipt
  /\ UNCHANGED <<host, effects, outcome>>

Reread(c) ==
  /\ At(c, "reread")
  /\ Heard(c) \/ Told(c, "storage")
  /\ UNCHANGED <<host, receipt, effects, outcome>>

-----------------------------------------------------------------------------
(* dispatchSerialized.                                                     *)

Serialized(c) == LaneOf[CommandOf[c]] # None

\* Reserved: the call joins the lane of its session.
Write(c) ==
  /\ At(c, "write")
  /\ \/ /\ receipt' = [receipt EXCEPT ![CommandOf[c]] = "pending"]
        /\ Goto(c, "lane")
        /\ IF Serialized(c)
             THEN lanes' = [lanes EXCEPT ![HostOf[c]][LaneOf[CommandOf[c]]] = Append(@, c)]
             ELSE UNCHANGED lanes
     \/ Told(c, "storage") /\ UNCHANGED <<receipt, lanes>>
  /\ UNCHANGED <<alive, results, effects, outcome>>

\* Bug: the calls before it are not awaited.
DispatchAtOnce(c) ==
  /\ At(c, "lane")
  /\ Goto(c, "run")
  /\ effects' = [effects EXCEPT ![CommandOf[c]] = @ + 1]
  /\ UNCHANGED <<host, receipt, outcome>>

Dispatch(c) ==
  /\ At(c, "lane")
  /\ Serialized(c) => Head(Lane(c)) = c
  /\ Goto(c, "run")
  /\ effects' = [effects EXCEPT ![CommandOf[c]] = @ + 1]
  /\ UNCHANGED <<host, receipt, outcome>>

\* The lane goes on whatever became of the dispatch.
Leave(c, thrown) ==
  IF Serialized(c)
    THEN lanes' = [lanes EXCEPT ![HostOf[c]][LaneOf[CommandOf[c]]] = Tail(@)]
    ELSE UNCHANGED lanes

\* dispatch came back; it throws when it cannot close the session it created.
Return(c) ==
  /\ At(c, "run")
  /\ \/ /\ \E o \in Outcomes : outcome' = [outcome EXCEPT ![CommandOf[c]] = o]
        /\ Goto(c, "settle") /\ Leave(c, FALSE)
     \/ /\ outcome' = [outcome EXCEPT ![CommandOf[c]] = "unknown"]
        /\ Told(c, "rejected") /\ Leave(c, TRUE)
  /\ UNCHANGED <<alive, results, receipt, effects>>

\* Bug: what Pi accepted is reported as failed.
SettleFailsPlainly(c) == Told(c, "failed") /\ UNCHANGED receipt

\* A receipt that cannot be written does not make a failure of what Pi accepted.
SettleFails(c) ==
  /\ Told(c, IF outcome[CommandOf[c]] = "accepted" THEN "accepted" ELSE "unknown")
  /\ UNCHANGED receipt

Settle(c) ==
  /\ At(c, "settle")
  /\ \/ /\ receipt' = [receipt EXCEPT ![CommandOf[c]] = outcome[CommandOf[c]]]
        /\ Told(c, outcome[CommandOf[c]])
     \/ SettleFails(c)
  /\ UNCHANGED <<host, effects, outcome>>

\* A Host dies, with everything it was doing.
Crash(h) ==
  /\ h \in alive
  /\ alive' = alive \ {h}
  /\ UNCHANGED <<results, lanes, receipt, pc, answer, effects, outcome>>

CallStep(c) ==
  \/ Follow(c) \/ Read(c) \/ Create(c) \/ Reread(c) \/ Write(c)
  \/ Dispatch(c) \/ Return(c) \/ Settle(c)

Next ==
  \/ \E c \in Calls : Send(c) \/ Query(c) \/ CallStep(c)
  \/ \E h \in Hosts : Crash(h)

Spec == Init /\ [][Next]_vars

\* Files are read and written, and dispatch awaits Pi under deadlines, while the
\* Host runs.
Fairness == \A c \in Calls : WF_vars(CallStep(c))

FairSpec == Spec /\ Fairness

-----------------------------------------------------------------------------
(* What the renderer may rely on.                                          *)

\* A command has its effects at most once, though it is sent again to the same
\* Host, to another one, or after a crash between any two steps: "A crash leaves
\* 'pending', which is unknown delivery, never a replay invitation."
AtMostOnce == \A k \in Commands : effects[k] <= 1

\* Whoever is told that a command was accepted, or that it was not, is told what
\* its one dispatch answered: sendConversationCommandV4 and the query never turn
\* the one into the other, though a receipt cannot be written.
AnswersTruthful ==
  \A c \in Calls :
    /\ answer[c] \in {"accepted", "duplicate"} => outcome[CommandOf[c]] = "accepted"
    /\ answer[c] = "failed" => outcome[CommandOf[c]] = "failed"

\* The commands of a session that dispatchSerialized chains run one at a time.
OneAtATime ==
  \A c, d \in Calls :
    /\ pc[c] = "run" /\ pc[d] = "run"
    /\ Serialized(c) /\ HostOf[c] = HostOf[d] /\ LaneOf[CommandOf[c]] = LaneOf[CommandOf[d]]
    => c = d

\* Callers are answered while their Host runs, though they wait for the first call
\* of their command, or for the commands before it in the lane.  (A call that was
\* answered stays answered, so this is that each call is, in the form that is
\* cheapest to check.)
CallsSettle ==
  <>[](\A c \in Calls : pc[c] \in {"idle", "done"} \/ HostOf[c] \notin alive)

=============================================================================
