--------------------------- MODULE PiControlBridge ---------------------------
(***************************************************************************)
(* The control bridge of one live Pi session, both ends of it: the         *)
(* controller of the Host (pi-control-bridge.ts) and the extension that    *)
(* the Host loads into Pi (pi-control-bridge-extension.ts).                *)
(*                                                                         *)
(* The controller runs one operation at a time: refresh, a request to the  *)
(* llama router, or an action a of the user, of the kind KindOf[a].  Each  *)
(* asks Pi for its state, and for slash commands that the extension        *)
(* handles.  A command goes into Pi's input, is begun by Pi in the order   *)
(* of the input, and is answered by a record of its own, long after the    *)
(* controller may have given up on it.                                     *)
(*                                                                         *)
(* A request that only reads is one step: the answer is Pi's state at some *)
(* moment while the controller waits, and the controller shares what it    *)
(* waits with nobody.  Replies are taken in any order, which is more than  *)
(* the pipe does.  What an action changes is only whether it has done so.  *)
(* Left out: the contents of what is read, the parsing of actions, and the *)
(* check that the session is the same, as nothing changes it here.         *)
(*                                                                         *)
(* An operator introduced by a comment that begins with "Bug:" is not part *)
(* of the specification: it is what a plausible mistake would make of the  *)
(* operator after it, and shows that the properties notice.                *)
(***************************************************************************)
EXTENDS Naturals

CONSTANTS
  Acts, KindOf,
  MaxRequests,     \* a bound on the commands of one run
  Start,           \* the generation that is bound when Pi starts
  None

Kinds == {"edit", "navigate", "reload"}
Reads == {"handshake", "inspect", "router"}
Operations == Acts \cup {"refresh", "router"}

\* A reload is named after the action that asked for it.
Generations == Acts \cup {Start}

ASSUME BridgeAssumption ==
  /\ KindOf \in [Acts -> Kinds]
  /\ MaxRequests \in Nat
  /\ Acts \cap (Reads \cup {"refresh", "router", Start}) = {}
  /\ None \notin Operations \cup Generations \cup [gen : Generations, done : SUBSET Acts]

VARIABLES
  op,          \* the operation that runs; `busy' is op # None
  at,          \* what it awaits
  failed,      \* the error for which an action reads the state again, else "no"
  ask,         \* the key of `pending', 0 when there is none
  binding,     \* the generation its commands are bound to
  seen,        \* what its inspect has answered
  current,     \* the snapshot: generation and actions it shows, or None
  uncertain, closed,
  sent,        \* how many commands were sent; the last is the id of the last
  told         \* what the caller of each action was told

VARIABLES
  cmds,        \* the commands in Pi's input, and those that run
  replies,     \* the records that answer them
  registered,  \* Pi lists the bridge's slash command
  bound,       \* state.binding, the generation of the extension
  lock,        \* state.busy, which survives a reload
  streaming,   \* Pi runs a prompt
  performed    \* the actions whose effect has taken place

controller == <<op, at, failed, ask, binding, seen, current, uncertain, sent, told>>
pi == <<cmds, replies, registered, bound, lock, streaming, performed>>
vars == <<controller, closed, pi>>

Errors == {"clean", "missing", "uncertain"}
Asking == {"actSent", "helloSent", "inspectSent", "routerSent"}
Discovering == {"actDiscover", "helloDiscover", "inspectDiscover", "routerDiscover"}
Places == {"idle", "actState", "readState", "tree"} \cup Asking \cup Discovering
Stages == {"inbox", "run", "cancelled", "done", "reload", "fresh", "lost"}

Snapshots == [gen : Generations, done : SUBSET Acts]
Commands == [id : Nat, what : Acts \cup Reads, gen : Generations \cup {None}, at : Stages]
Replies == [id : Nat, ok : BOOLEAN, gen : Generations \cup {None}, done : SUBSET Acts]

HostTypeOK ==
  /\ op \in Operations \cup {None}
  /\ at \in Places
  /\ failed \in Errors \cup {"no"}
  /\ ask \in Nat /\ sent \in Nat
  /\ binding \in Generations \cup {None}
  /\ seen \in Snapshots \cup {None} /\ current \in Snapshots \cup {None}
  /\ uncertain \in BOOLEAN /\ closed \in BOOLEAN
  /\ told \in [Acts -> {"nothing", "ok", "error"}]

PiTypeOK ==
  /\ cmds \subseteq Commands /\ replies \subseteq Replies
  /\ registered \in BOOLEAN /\ lock \in BOOLEAN /\ streaming \in BOOLEAN
  /\ bound \in Generations \cup {None}
  /\ performed \subseteq Acts

\* The controller, the extension and what is between them hold what they declare.
TypeOK == HostTypeOK /\ PiTypeOK

Init ==
  /\ op = None /\ at = "idle" /\ failed = "no" /\ ask = 0
  /\ binding = None /\ seen = None /\ current = None
  /\ uncertain = FALSE /\ closed = FALSE /\ sent = 0
  /\ told = [a \in Acts |-> "nothing"]
  /\ cmds = {} /\ replies = {}
  /\ registered = TRUE /\ bound = Start
  /\ lock = FALSE /\ streaming = FALSE /\ performed = {}

blocksPrompt == op # None \/ uncertain

-----------------------------------------------------------------------------
(* How an operation begins, fails and ends.                                *)

Enter(o, place) == op' = o /\ at' = place /\ UNCHANGED <<failed, ask, seen>>

Refresh ==
  /\ op = None /\ ~closed
  /\ Enter("refresh", "readState")
  /\ UNCHANGED <<binding, current, uncertain, sent, told, closed, pi>>

\* getLlamaAuth, refreshLlamaModels.
Router ==
  /\ ~blocksPrompt /\ ~closed
  /\ Enter("router", "readState")
  /\ UNCHANGED <<binding, current, uncertain, sent, told, closed, pi>>

\* act: it is bound to the generation of the snapshot, which its caller has seen.
Act(a) ==
  /\ ~blocksPrompt /\ ~closed
  /\ told[a] = "nothing"
  /\ current # None
  /\ Enter(a, "actState")
  /\ binding' = current.gen
  /\ UNCHANGED <<current, uncertain, sent, told, closed, pi>>

Ends ==
  /\ op' = None /\ at' = "idle" /\ failed' = "no" /\ ask' = 0
  /\ binding' = None /\ seen' = None

\* Bug: the state that could not be read again is taken to be known.
FailsTrusting(e) ==
  /\ \/ /\ op \notin Acts
        /\ uncertain' = (uncertain \/ (op = "refresh" /\ e = "uncertain"))
        /\ Ends /\ UNCHANGED told
     \/ /\ op \in Acts /\ failed = "no"
        /\ failed' = e /\ at' = "readState" /\ ask' = 0
        /\ UNCHANGED <<op, binding, seen, uncertain, told>>
     \/ /\ op \in Acts /\ failed # "no"
        /\ uncertain' = (uncertain \/ failed = "uncertain")
        /\ told' = [told EXCEPT ![op] = "error"]
        /\ Ends
  /\ UNCHANGED <<current, sent>>

\* An action reads the state again before it reports its error; a second error
\* leaves it unknown, unless the bridge was missing before anything was sent.
Fails(e) ==
  /\ \/ /\ op \notin Acts
        /\ uncertain' = (uncertain \/ (op = "refresh" /\ e = "uncertain"))
        /\ Ends /\ UNCHANGED told
     \/ /\ op \in Acts /\ failed = "no"
        /\ failed' = e /\ at' = "readState" /\ ask' = 0
        /\ UNCHANGED <<op, binding, seen, uncertain, told>>
     \/ /\ op \in Acts /\ failed # "no"
        /\ uncertain' = (uncertain \/ failed # "missing")
        /\ told' = [told EXCEPT ![op] = "error"]
        /\ Ends
  /\ UNCHANGED <<current, sent>>

\* The end of readCurrent, and what its caller does with the snapshot.
Installed ==
  /\ current' = seen
  /\ uncertain' = (failed = "uncertain")
  /\ \/ /\ op = "router"
        /\ at' = "routerDiscover" /\ binding' = seen.gen
        /\ UNCHANGED <<op, failed, ask, seen, told>>
     \/ op = "refresh" /\ Ends /\ UNCHANGED told
     \/ /\ op \in Acts
        /\ told' = [told EXCEPT ![op] = IF failed = "no" THEN "ok" ELSE "error"]
        /\ Ends
  /\ UNCHANGED sent

-----------------------------------------------------------------------------
(* What an operation awaits.                                               *)

\* get_state, before an action and before readCurrent: Pi must be idle.
State ==
  /\ at \in {"actState", "readState"} /\ ~closed
  /\ \/ /\ ~streaming
        /\ at' = IF at = "actState" THEN "actDiscover" ELSE "helloDiscover"
        /\ UNCHANGED <<op, failed, ask, binding, seen, current, uncertain, sent, told>>
     \/ streaming /\ Fails("clean")
  /\ UNCHANGED <<closed, pi>>

\* discover, then the command, which is not sent to a Pi without the bridge.
Ask(from, what, gen, to) ==
  /\ at = from /\ ~closed
  /\ \/ /\ registered
        /\ sent < MaxRequests
        /\ sent' = sent + 1 /\ ask' = sent + 1
        /\ cmds' = cmds \cup {[id |-> sent + 1, what |-> what, gen |-> gen, at |-> "inbox"]}
        /\ at' = to
        /\ UNCHANGED <<op, failed, binding, seen, current, uncertain, told>>
     \/ ~registered /\ Fails("missing") /\ UNCHANGED cmds
  /\ UNCHANGED <<closed, replies, registered, bound, lock, streaming, performed>>

Discover ==
  \/ Ask("actDiscover", op, binding, "actSent")
  \/ Ask("helloDiscover", "handshake", None, "helloSent")
  \/ Ask("inspectDiscover", "inspect", binding, "inspectSent")
  \/ Ask("routerDiscover", "router", binding, "routerSent")

IsReload(o) == o \in Acts /\ KindOf[o] = "reload"

\* A reload must change the generation, everything else must keep it.
Stale(r) ==
  at # "helloSent" /\ (IsReload(op) /\ at = "actSent") = (r.gen = binding)

Refusal(r) == ~r.ok

\* receive and the end of request: a reply is for the command with its id.
Receive(r) ==
  /\ r \in replies
  /\ replies' = replies \ {r}
  /\ \/ r.id # ask /\ UNCHANGED controller
     \/ r.id = ask /\ Refusal(r) /\ Fails("clean")
     \/ r.id = ask /\ ~Refusal(r) /\ Stale(r) /\ Fails("uncertain")
     \/ /\ r.id = ask /\ ~Refusal(r) /\ ~Stale(r)
        /\ \/ /\ at = "actSent" /\ at' = "readState" /\ ask' = 0
              /\ UNCHANGED <<op, failed, binding, seen, uncertain>>
           \/ /\ at = "helloSent" /\ at' = "inspectDiscover" /\ ask' = 0
              /\ binding' = r.gen
              /\ UNCHANGED <<op, failed, seen, uncertain>>
           \/ /\ at = "inspectSent" /\ at' = "tree" /\ ask' = 0
              /\ seen' = [gen |-> r.gen, done |-> r.done]
              /\ UNCHANGED <<op, failed, binding, uncertain>>
           \/ at = "routerSent" /\ Ends /\ UNCHANGED uncertain
        /\ UNCHANGED <<current, sent, told>>
  /\ UNCHANGED <<closed, cmds, registered, bound, lock, streaming, performed>>

\* get_tree, get_entries and get_state: Pi must still be idle.
Tree ==
  /\ at = "tree" /\ ~closed
  /\ \/ ~streaming /\ Installed
     \/ streaming /\ Fails("uncertain")
  /\ UNCHANGED <<closed, pi>>

\* Bug: nobody counts the time that a control takes.
UnansweredUntimed ==
  /\ op # None /\ at \notin Asking
  /\ Fails("uncertain")
  /\ UNCHANGED <<closed, pi>>

\* A request that is not answered, or not as it should be: the deadline of the
\* client or of the control, an exit, an incomplete result.
Unanswered ==
  /\ op # None
  /\ Fails("uncertain")
  /\ UNCHANGED <<closed, pi>>

\* Pi refuses a request: a command is then not begun.
Refused ==
  /\ op # None
  /\ Fails("clean")
  /\ at \in Asking =>
       \E c \in cmds : c.id = ask /\ c.at = "inbox" /\ cmds' = cmds \ {c}
  /\ at \notin Asking => UNCHANGED cmds
  /\ UNCHANGED <<closed, replies, registered, bound, lock, streaming, performed>>

\* dispose, when Pi exits.
Exit ==
  /\ ~closed
  /\ closed' = TRUE
  /\ cmds' = {} /\ replies' = {} /\ streaming' = FALSE
  /\ UNCHANGED <<controller, registered, bound, lock, performed>>

\* cancelNavigation: Pi aborts the navigation that runs.
CancelNavigation(c) ==
  /\ ~closed
  /\ at = "actSent" /\ KindOf[op] = "navigate"
  /\ c \in cmds /\ c.what = op /\ c.at = "run"
  /\ cmds' = (cmds \ {c}) \cup {[c EXCEPT !.at = "cancelled"]}
  /\ UNCHANGED <<controller, closed, replies, registered, bound, lock, streaming, performed>>

OperationStep ==
  State \/ Discover \/ Tree \/ Unanswered \/ Refused \/ \E r \in replies : Receive(r)

-----------------------------------------------------------------------------
(* The extension in Pi.                                                    *)

Move(c, stage) == cmds' = (cmds \ {c}) \cup {[c EXCEPT !.at = stage]}

\* The reply carries the generation that is bound, and what an inspect has read.
Reply(c, ok) ==
  /\ cmds' = cmds \ {c}
  /\ replies' = replies \cup {[id |-> c.id, ok |-> ok, gen |-> bound, done |-> performed]}

First(c) == c.at = "inbox" /\ \A d \in cmds : d.at = "inbox" => c.id <= d.id

\* The checks of the handler.  Without the bridge's command Pi takes the text for
\* a prompt of the user.
Begin(c) ==
  /\ c \in cmds /\ First(c)
  /\ \/ /\ ~registered
        /\ cmds' = cmds \ {c} /\ streaming' = TRUE
        /\ UNCHANGED <<replies, lock>>
     \/ /\ registered
        /\ bound = None \/ (c.what # "handshake" /\ (c.gen # bound \/ lock \/ streaming))
        /\ Reply(c, FALSE)
        /\ UNCHANGED <<lock, streaming>>
     \/ /\ registered /\ bound # None /\ c.what = "handshake"
        /\ Reply(c, TRUE)
        /\ UNCHANGED <<lock, streaming>>
     \/ /\ registered /\ bound # None /\ c.what # "handshake"
        /\ c.gen = bound /\ ~lock /\ ~streaming
        /\ lock' = TRUE
        /\ Move(c, "run")
        /\ UNCHANGED <<replies, streaming>>
  /\ UNCHANGED <<controller, closed, registered, bound, performed>>

\* The effect of an action takes place.
Perform(c) ==
  /\ c \in cmds /\ c.at = "run" /\ c.what \in Acts
  /\ performed' = performed \cup {c.what}
  /\ Move(c, "done")
  /\ UNCHANGED <<controller, closed, replies, registered, bound, lock, streaming>>

\* ctx.reload: session_shutdown, then session_start of the module evaluated anew.
Shutdown(c) ==
  /\ c \in cmds /\ c.at = "done" /\ IsReload(c.what)
  /\ bound' = None
  /\ Move(c, "reload")
  /\ UNCHANGED <<controller, closed, replies, registered, lock, streaming, performed>>

\* Bug: the lock belongs to the module, and a reload evaluates the module anew.
RebindUnlocked(c) ==
  /\ c \in cmds /\ c.at = "reload"
  /\ bound' = c.what /\ lock' = FALSE
  /\ Move(c, "fresh")
  /\ UNCHANGED <<controller, closed, replies, registered, streaming, performed>>

\* The bridge comes back with a generation of its own, or it does not come back.
Rebind(c) ==
  /\ c \in cmds /\ c.at = "reload"
  /\ \/ /\ bound' = c.what
        /\ Move(c, "fresh")
        /\ UNCHANGED registered
     \/ /\ registered' \in BOOLEAN
        /\ Move(c, "lost")
        /\ UNCHANGED bound
  /\ UNCHANGED <<controller, closed, replies, lock, streaming, performed>>

\* A reply, and the end of the frame that held the lock: what was read, what was
\* done, or an error at any point.
Succeeds(c) ==
  \/ c.at = "run" /\ c.what \in Reads
  \/ c.at \in {"cancelled", "fresh"}
  \/ c.at = "done" /\ ~IsReload(c.what)

Finish(c) ==
  /\ c \in cmds /\ c.at # "inbox"
  /\ \/ Succeeds(c) /\ Reply(c, TRUE)
     \/ c.at # "reload" /\ Reply(c, FALSE)
  /\ lock' = FALSE
  /\ UNCHANGED <<controller, closed, registered, bound, streaming, performed>>

\* The user, who prompts Pi when the supervisor lets him.
Prompt ==
  /\ ~blocksPrompt /\ ~closed /\ ~streaming
  /\ streaming' = TRUE
  /\ UNCHANGED <<controller, closed, cmds, replies, registered, bound, lock, performed>>

RunEnds ==
  /\ streaming
  /\ streaming' = FALSE
  /\ UNCHANGED <<controller, closed, cmds, replies, registered, bound, lock, performed>>

PiStep(c) == Begin(c) \/ Perform(c) \/ Shutdown(c) \/ Rebind(c) \/ Finish(c)

Next ==
  \/ Refresh \/ Router \/ \E a \in Acts : Act(a)
  \/ OperationStep
  \/ \E c \in cmds : CancelNavigation(c) \/ PiStep(c)
  \/ Exit \/ Prompt \/ RunEnds

Spec == Init /\ [][Next]_vars

\* Requests have deadlines, and Node delivers what arrives.
Fairness == WF_vars(OperationStep)

FairSpec == Spec /\ Fairness

-----------------------------------------------------------------------------
(* What the bridge promises.                                               *)

\* While an action may still change the session, in Pi's input or at work there,
\* no prompt is admitted, although the controller may long have given up on it and
\* have been asked to refresh (blocksPrompt and the lock of the extension).
PromptsWaitForControl ==
  ~blocksPrompt => \A c \in cmds : c.what \notin Acts

\* When prompts and actions are admitted, the snapshot shows what Pi has: every
\* effect of the actions so far, partial failures included, and the generation
\* that is bound (act's two readCurrent and its uncertain flag).
SnapshotTrue ==
  ~blocksPrompt /\ ~closed /\ current # None =>
    current = [gen |-> bound, done |-> performed]

\* An action reported as done was done, or is a navigation the user cancelled; and
\* the snapshot its caller was handed was read after it.
DoneIsDone ==
  \A a \in Acts : told[a] = "ok" /\ KindOf[a] # "navigate" =>
    a \in performed /\ a \in current.done

\* Both: what the controller tells its callers of the actions, at once and in the
\* snapshot, is what Pi has done.
ActionsTold == SnapshotTrue /\ DoneIsDone

\* Every operation comes to an end, whatever Pi leaves unanswered: busy never
\* blocks the session for good.
OperationEnds == (op # None) ~> (op = None)

=============================================================================
