------------------------ MODULE PiControlBridgeProofs ------------------------
(***************************************************************************)
(* Proofs about PiControlBridge, for any number of actions of any kinds    *)
(* and of requests: no prompt is admitted over a control that may still    *)
(* change the session, and what the controller tells of its actions is     *)
(* what Pi has done.                                                       *)
(***************************************************************************)
EXTENDS PiControlBridge, TLAPS

\* What the controller does determines where it is, and the request it awaits.
PlaceInv ==
  /\ op = None <=> at = "idle"
  /\ op \notin Acts => failed = "no"
  /\ at \in {"actState", "actDiscover", "actSent"} => op \in Acts /\ failed = "no"
  /\ at \in {"routerDiscover", "routerSent"} => op = "router"
  /\ IF at \in Asking THEN ask = sent /\ sent # 0 ELSE ask = 0
  /\ op \in Acts \cup {"router"} => ~uncertain

\* Every command has an id of its own, which its reply inherits.
IdsInv ==
  /\ \A c \in cmds : c.id \in 1..sent
  /\ \A r \in replies : r.id \in 1..sent
  /\ \A c, d \in cmds : c.id = d.id => c = d
  /\ \A c \in cmds : \A r \in replies : c.id # r.id

\* What a command that is at work has behind it.
AtWork(c) ==
  /\ lock
  /\ c.at # "run" => c.what \in Acts
  /\ c.at \in {"reload", "fresh", "lost"} => IsReload(c.what)
  /\ c.at = "cancelled" => KindOf[c.what] = "navigate"
  /\ c.at # "lost" => registered
  /\ c.at \in {"run", "done", "cancelled", "fresh"} => bound # None
  /\ c.at \in {"done", "reload", "fresh", "lost"} => c.what \in performed

\* One command is at work at a time, and those in the input came after it.
WorkInv ==
  \A c \in cmds : c.at # "inbox" =>
    /\ AtWork(c)
    /\ \A d \in cmds : IF d.at = "inbox" THEN c.id < d.id ELSE d = c

Quiet == \A c \in cmds : c.what \notin Acts
Shows(snapshot) == snapshot = [gen |-> bound, done |-> performed]
Shown == current # None => Shows(current)
Achieved == op \in performed \/ KindOf[op] = "navigate"

\* The command that is awaited is of the controller's operation.
AwaitedInv ==
  \A c \in cmds : c.id = ask =>
    /\ at = "actSent" => c.what = op
    /\ at = "helloSent" => c.what = "handshake"
    /\ at = "inspectSent" => c.what = "inspect"
    /\ at = "routerSent" => c.what = "router"

\* A reply without an error was made when the bridge was bound; an action that is
\* answered was done, and nothing is at work behind the answer to an inspect.
ReplyInv ==
  \A r \in replies : r.ok =>
    /\ r.gen # None
    /\ r.id = ask /\ at = "actSent" => registered /\ Achieved
    /\ r.id = ask /\ at = "inspectSent" =>
         cmds = {} /\ r.gen = bound /\ r.done = performed

\* What an inspect has seen is true until it is installed.
SeenInv == at = "tree" => cmds = {} /\ seen # None /\ Shows(seen)

\* Outside of an action nothing of one is at work, unless the state is uncertain; and
\* within one its own command is all there is, until the controller loses sight of it.
CalmInv ==
  /\ op \notin Acts /\ ~uncertain => Quiet /\ Shown
  /\ op \in Acts /\ (at \in {"actState", "actDiscover"} \/ failed = "missing") => Quiet /\ Shown
  /\ at = "actSent" => \A c \in cmds : c.what \in Acts => c.id = ask
  /\ op \in Acts /\ failed = "no" /\ at \notin {"actState", "actDiscover", "actSent"} =>
       Quiet /\ registered /\ Achieved

\* What was told stays true.
ToldInv ==
  \A a \in Acts : told[a] = "ok" /\ KindOf[a] # "navigate" =>
    a \in performed /\ current # None /\ a \in current.done

BridgeInv ==
  /\ TypeOK /\ PlaceInv /\ IdsInv /\ WorkInv /\ AwaitedInv
  /\ ReplyInv /\ SeenInv /\ CalmInv /\ ToldInv

\* Actions, operations and requests are told apart.
LEMMA Names ==
  /\ None \notin Acts \cup Generations \cup Snapshots \cup {"refresh", "router"}
  /\ Acts \cap (Reads \cup {"refresh", "router"}) = {}
  /\ KindOf \in [Acts -> Kinds] /\ MaxRequests \in Nat
BY BridgeAssumption DEF Operations, Snapshots

-----------------------------------------------------------------------------
(* Steps of the controller.                                                *)

\* What is said of commands and replies survives the loss of some.
LEMMA FewerStep ==
  ASSUME IdsInv, WorkInv, cmds' \subseteq cmds, replies' \subseteq replies,
         UNCHANGED <<sent, registered, bound, lock, performed>>
  PROVE  IdsInv' /\ WorkInv' /\ (Quiet => Quiet')
BY DEF IdsInv, WorkInv, AtWork, Quiet

\* An error ends an operation, or makes an action read the state again.
LEMMA FailsStep ==
  ASSUME BridgeInv, NEW e \in Errors, Fails(e), op # None,
         e = "missing" => ~registered /\ at # "actSent",
         cmds' \subseteq cmds, replies' \subseteq replies,
         UNCHANGED <<closed, registered, bound, lock, streaming, performed>>
  PROVE  BridgeInv'
<1> USE Names DEF BridgeInv
<1>1. TypeOK'
  <2>1. PiTypeOK'
    BY DEF TypeOK, PiTypeOK
  <2>2. HostTypeOK'
    <3> USE DEF TypeOK, HostTypeOK
    <3>1. uncertain' \in BOOLEAN
      BY DEF Fails
    <3>2. /\ op' \in Operations \cup {None} /\ at' \in Places /\ ask' \in Nat
          /\ binding' \in Generations \cup {None} /\ seen' \in Snapshots \cup {None}
          /\ sent' \in Nat /\ current' \in Snapshots \cup {None} /\ closed' \in BOOLEAN
      BY DEF Fails, Ends, Places
    <3>3. told' \in [Acts -> {"nothing", "ok", "error"}] /\ failed' \in Errors \cup {"no"}
      BY DEF Fails, Ends
    <3> QED BY <3>1, <3>2, <3>3
  <2> QED BY <2>1, <2>2 DEF TypeOK
<1>2. UNCHANGED sent
  BY DEF Fails
<1>3. IdsInv' /\ WorkInv' /\ (Quiet => Quiet')
  BY <1>2, FewerStep
<1>4. /\ at' \in {"idle", "readState"} /\ ask' = 0
      /\ op' = None <=> at' = "idle"
      /\ op' \in {op, None}
      /\ current' = current
  BY DEF Fails, Ends, PlaceInv
<1>5. PlaceInv'
  BY <1>4 DEF PlaceInv, Fails, Ends, Asking
<1>6. AwaitedInv' /\ SeenInv'
  BY <1>4 DEF AwaitedInv, SeenInv
<1>7. ReplyInv'
  BY <1>4 DEF ReplyInv
<1>8. CalmInv'
  <2>1. CASE op \notin Acts
    BY <2>1, <1>3, <1>4 DEF CalmInv, Fails, Ends, Shown, Shows, TypeOK, HostTypeOK
  <2>2. CASE op \in Acts /\ failed = "no"
    <3>1. failed' = e /\ at' = "readState" /\ op' = op
      BY <2>2 DEF Fails
    <3>2. e = "missing" => Quiet /\ Shown
      BY <2>2 DEF CalmInv
    <3> QED BY <2>2, <3>1, <3>2, <1>3, <1>4 DEF CalmInv, Shown, Shows, Errors
  <2>3. CASE op \in Acts /\ failed # "no"
    <3>1. op' = None /\ uncertain' = (uncertain \/ failed # "missing")
      BY <2>3 DEF Fails, Ends
    <3> QED BY <2>3, <3>1, <1>3, <1>4 DEF CalmInv, Shown, Shows
  <2> QED BY <2>1, <2>2, <2>3
<1>9. ToldInv'
  BY <1>4 DEF ToldInv, Fails, TypeOK, HostTypeOK
<1> QED BY <1>1, <1>3, <1>5, <1>6, <1>7, <1>8, <1>9

\* Pi does nothing.
LEMMA PiRests ==
  ASSUME PiTypeOK, IdsInv, WorkInv, UNCHANGED <<sent, pi>>
  PROVE  PiTypeOK' /\ IdsInv' /\ WorkInv' /\ Quiet' = Quiet
BY DEF pi, PiTypeOK, IdsInv, WorkInv, AtWork, Quiet

\* An operation begins; an action, only when nothing of another is at work.
LEMMA BeginsStep ==
  ASSUME BridgeInv, Refresh \/ Router \/ \E a \in Acts : Act(a)
  PROVE  BridgeInv'
<1> USE Names DEF BridgeInv
<1>1. /\ op = None /\ at = "idle" /\ ask = 0 /\ failed = "no"
      /\ UNCHANGED <<failed, ask, seen, current, uncertain, sent, told, closed, pi>>
  BY DEF Refresh, Router, Act, Enter, blocksPrompt, PlaceInv, Asking
<1>2. PiTypeOK' /\ IdsInv' /\ WorkInv' /\ Quiet' = Quiet
  BY <1>1, PiRests DEF TypeOK
<1>3. \/ op' \in {"refresh", "router"} /\ at' = "readState" /\ binding' = binding
      \/ op' \in Acts /\ at' = "actState" /\ current # None /\ binding' = current.gen
  BY DEF Refresh, Router, Act, Enter
<1>4. op' # "refresh" => ~uncertain
  BY DEF Refresh, Router, Act, Enter, blocksPrompt
<1>5. HostTypeOK'
  BY <1>1, <1>3 DEF TypeOK, HostTypeOK, Operations, Places, Snapshots
<1>6. PlaceInv'
  BY <1>1, <1>3, <1>4 DEF PlaceInv, Asking
<1>7. AwaitedInv' /\ SeenInv' /\ ReplyInv'
  BY <1>1, <1>3 DEF AwaitedInv, SeenInv, ReplyInv, pi
<1>8. CalmInv'
  BY <1>1, <1>2, <1>3, <1>4 DEF CalmInv, Shown, Shows, pi
<1>9. ToldInv'
  BY <1>1 DEF ToldInv, pi
<1> QED BY <1>2, <1>5, <1>6, <1>7, <1>8, <1>9 DEF TypeOK

\* Pi is idle, and the operation goes on.
LEMMA StateStep ==
  ASSUME BridgeInv, State
  PROVE  BridgeInv'
<1> USE Names DEF BridgeInv
<1>1. op # None /\ at \notin Asking /\ UNCHANGED <<closed, pi>>
  BY DEF State, PlaceInv, Asking
<1>2. CASE streaming /\ Fails("clean")
  BY <1>1, <1>2, FailsStep DEF Errors, pi
<1>3. CASE ~streaming /\ UNCHANGED <<op, failed, ask, binding, seen, current, uncertain, sent, told>>
  <2>1. at' = IF at = "actState" THEN "actDiscover" ELSE "helloDiscover"
    BY <1>3 DEF State
  <2>2. PiTypeOK' /\ IdsInv' /\ WorkInv' /\ Quiet' = Quiet
    BY <1>1, <1>3, PiRests DEF TypeOK
  <2>3. HostTypeOK' /\ PlaceInv'
    BY <1>1, <1>3, <2>1 DEF State, TypeOK, HostTypeOK, PlaceInv, Places, Discovering, Asking
  <2>4. AwaitedInv' /\ SeenInv' /\ ReplyInv'
    BY <1>1, <1>3, <2>1 DEF AwaitedInv, SeenInv, ReplyInv, pi
  <2>5. CalmInv'
    BY <1>1, <1>3, <2>1, <2>2 DEF State, CalmInv, Shown, Shows, Achieved, pi
  <2>6. ToldInv'
    BY <1>1, <1>3 DEF ToldInv, pi
  <2> QED BY <2>2, <2>3, <2>4, <2>5, <2>6 DEF TypeOK
<1> QED BY <1>2, <1>3 DEF State

\* A command is sent: the last in the input, and the one that is awaited.
LEMMA AskStep ==
  ASSUME BridgeInv, Discover
  PROVE  BridgeInv'
<1> USE Names DEF BridgeInv
<1>1. PICK what \in Acts \cup Reads, gen \in Generations \cup {None},
             from \in {"actDiscover", "helloDiscover", "inspectDiscover", "routerDiscover"},
             to \in {"actSent", "helloSent", "inspectSent", "routerSent"} :
        /\ Ask(from, what, gen, to)
        /\ \/ from = "actDiscover" /\ what = op /\ to = "actSent"
           \/ from = "helloDiscover" /\ what = "handshake" /\ to = "helloSent"
           \/ from = "inspectDiscover" /\ what = "inspect" /\ to = "inspectSent"
           \/ from = "routerDiscover" /\ what = "router" /\ to = "routerSent"
  <2>1. binding \in Generations \cup {None} /\ at \in {"actDiscover"} => op \in Acts
    BY DEF TypeOK, HostTypeOK, PlaceInv
  <2> QED BY <2>1 DEF Discover, Ask, Reads, TypeOK, HostTypeOK
<1>2. /\ at = from /\ at \notin Asking /\ op # None /\ ask = 0
      /\ UNCHANGED <<closed, replies, registered, bound, lock, streaming, performed>>
  BY <1>1 DEF Ask, PlaceInv, Asking
<1>3. CASE ~registered /\ Fails("missing") /\ UNCHANGED cmds
  BY <1>2, <1>3, FailsStep DEF Errors, Asking
<1>4. CASE registered /\ ask' = sent + 1
  <2> DEFINE c == [id |-> sent + 1, what |-> what, gen |-> gen, at |-> "inbox"]
  <2>1. /\ sent' = sent + 1 /\ cmds' = cmds \cup {c} /\ at' = to
        /\ UNCHANGED <<op, failed, binding, seen, current, uncertain, told>>
    BY <1>1, <1>2, <1>4 DEF Ask, Fails, Ends, TypeOK, HostTypeOK
  <2>2. c.id = sent + 1 /\ c.what = what /\ c.at = "inbox" /\ c \in Commands /\ sent \in Nat
    BY DEF TypeOK, HostTypeOK, Commands, Stages
  <2> HIDE DEF c
  <2>3. TypeOK'
    <3>1. PiTypeOK'
      BY <1>2, <2>1, <2>2 DEF TypeOK, PiTypeOK
    <3>2. HostTypeOK'
      BY <1>1, <1>2, <1>4, <2>1, <2>2 DEF TypeOK, HostTypeOK, Places, Asking
    <3> QED BY <3>1, <3>2 DEF TypeOK
  <2>4. PlaceInv'
    BY <1>1, <1>2, <1>4, <2>1, <2>2 DEF PlaceInv, Asking
  <2>5. IdsInv'
    BY <1>2, <2>1, <2>2 DEF IdsInv
  <2>6. WorkInv'
    BY <1>2, <2>1, <2>2 DEF WorkInv, AtWork, IdsInv
  <2>7. AwaitedInv'
    BY <1>1, <1>4, <2>1, <2>2 DEF AwaitedInv, IdsInv
  <2>8. ReplyInv'
    BY <1>2, <1>4, <2>1, <2>2 DEF ReplyInv, IdsInv
  <2>9. SeenInv'
    BY <1>1, <2>1 DEF SeenInv
  <2>10. CalmInv'
    <3>1. CASE to = "actSent"
      BY <3>1, <1>1, <1>2, <1>4, <2>1, <2>2 DEF CalmInv, Quiet, Shown, Shows, PlaceInv
    <3>2. CASE to # "actSent"
      <4>1. what \in Reads /\ to \notin {"actState", "actDiscover", "actSent"}
        BY <3>2, <1>1 DEF Reads
      <4>2. Quiet => Quiet'
        BY <4>1, <2>1, <2>2 DEF Quiet
      <4>3. Shown' = Shown /\ Achieved' = Achieved
        BY <1>2, <2>1 DEF Shown, Shows, Achieved
      <4> QED BY <4>1, <4>2, <4>3, <1>1, <1>2, <2>1 DEF CalmInv
    <3> QED BY <3>1, <3>2
  <2>11. ToldInv'
    BY <1>2, <2>1 DEF ToldInv
  <2> QED BY <2>3, <2>4, <2>5, <2>6, <2>7, <2>8, <2>9, <2>10, <2>11
<1> QED BY <1>1, <1>3, <1>4 DEF Ask

\* What the answer to a command makes of the operation that awaits it.
LEMMA ReceiveStep ==
  ASSUME BridgeInv, NEW r \in replies, Receive(r)
  PROVE  BridgeInv'
<1> USE Names DEF BridgeInv
<1>1. /\ replies' = replies \ {r}
      /\ UNCHANGED <<closed, cmds, registered, bound, lock, streaming, performed>>
  BY DEF Receive
<1>2. r.id = ask => op # None /\ at \in Asking
  BY DEF PlaceInv, IdsInv, Asking, TypeOK, HostTypeOK
<1>3. CASE r.id # ask /\ UNCHANGED controller
  <2> USE DEF controller
  <2>1. TypeOK'
    BY <1>1, <1>3 DEF TypeOK, HostTypeOK, PiTypeOK
  <2>2. IdsInv' /\ WorkInv' /\ Quiet' = Quiet
    BY <1>1, <1>3 DEF IdsInv, WorkInv, AtWork, Quiet
  <2>3. PlaceInv' /\ AwaitedInv' /\ ToldInv'
    BY <1>1, <1>3 DEF PlaceInv, AwaitedInv, ToldInv
  <2>4. ReplyInv' /\ SeenInv'
    BY <1>1, <1>3 DEF ReplyInv, SeenInv, Shows, Achieved
  <2>5. CalmInv'
    BY <1>1, <1>3, <2>2 DEF CalmInv, Shown, Shows, Achieved
  <2> QED BY <2>1, <2>2, <2>3, <2>4, <2>5
<1>4. CASE r.id = ask /\ (Fails("clean") \/ Fails("uncertain"))
  BY <1>1, <1>2, <1>4, FailsStep DEF Errors
<1>5. CASE r.id = ask /\ r.ok /\ ~Fails("clean") /\ ~Fails("uncertain")
  <2>1. ask' = 0 /\ UNCHANGED <<current, sent, told>>
    BY <1>5 DEF Receive, Refusal, Ends
  <2>2. \/ /\ at = "actSent" /\ at' = "readState"
           /\ UNCHANGED <<op, failed, binding, seen, uncertain>>
        \/ /\ at = "helloSent" /\ at' = "inspectDiscover" /\ binding' = r.gen
           /\ UNCHANGED <<op, failed, seen, uncertain>>
        \/ /\ at = "inspectSent" /\ at' = "tree"
           /\ seen' = [gen |-> r.gen, done |-> r.done]
           /\ UNCHANGED <<op, failed, binding, uncertain>>
        \/ at = "routerSent" /\ Ends /\ UNCHANGED uncertain
    BY <1>5 DEF Receive, Refusal
  <2>3. r.gen \in Generations /\ r.done \subseteq Acts
    BY <1>5 DEF ReplyInv, TypeOK, PiTypeOK, Replies
  <2>4. TypeOK'
    <3>1. PiTypeOK'
      BY <1>1 DEF TypeOK, PiTypeOK
    <3>2. HostTypeOK'
      BY <1>1, <2>1, <2>2, <2>3
      DEF TypeOK, HostTypeOK, Ends, Places, Discovering, Snapshots, Errors
    <3> QED BY <3>1, <3>2 DEF TypeOK
  <2>5. IdsInv' /\ WorkInv' /\ Quiet' = Quiet
    BY <1>1, <2>1 DEF IdsInv, WorkInv, AtWork, Quiet
  <2>6. PlaceInv'
    BY <2>1, <2>2, <1>2 DEF PlaceInv, Asking, Ends
  <2>7. AwaitedInv' /\ ToldInv' /\ ReplyInv'
    BY <1>1, <2>1, <2>2 DEF AwaitedInv, ToldInv, ReplyInv, Ends
  <2>8. SeenInv'
    BY <1>1, <1>5, <2>2, <2>3 DEF SeenInv, Shows, ReplyInv, Ends, Snapshots
  <2>9. CalmInv'
    <3>1. Shown' = Shown
      BY <1>1, <2>1 DEF Shown, Shows
    <3>2. CASE at = "actSent"
      <4>1. Quiet /\ registered /\ Achieved
        BY <3>2, <1>5 DEF CalmInv, Quiet, IdsInv, ReplyInv
      <4>2. op \in Acts /\ failed = "no"
        BY <3>2 DEF PlaceInv
      <4> QED BY <3>2, <4>1, <4>2, <1>1, <2>2, <2>5 DEF CalmInv, Achieved
    <3>3. CASE at # "actSent"
      BY <3>1, <3>3, <1>1, <2>2, <2>5 DEF CalmInv, PlaceInv, Achieved, Ends
    <3> QED BY <3>2, <3>3
  <2> QED BY <2>4, <2>5, <2>6, <2>7, <2>8, <2>9
<1> QED BY <1>3, <1>4, <1>5 DEF Receive, Refusal, TypeOK, PiTypeOK, Replies

\* The snapshot is installed, and its caller is told.
LEMMA TreeStep ==
  ASSUME BridgeInv, Tree
  PROVE  BridgeInv'
<1> USE Names DEF BridgeInv
<1>1. at = "tree" /\ op # None /\ ask = 0 /\ UNCHANGED <<closed, pi>>
  BY DEF Tree, PlaceInv, Asking
<1>2. CASE Fails("uncertain")
  BY <1>1, <1>2, FailsStep DEF Errors, pi
<1>3. CASE Installed
  <2>1. cmds = {} /\ seen \in Snapshots /\ Shows(seen)
    BY <1>1 DEF SeenInv, TypeOK, HostTypeOK
  <2>2. PiTypeOK' /\ IdsInv' /\ WorkInv' /\ Quiet' = Quiet
    BY <1>1, <1>3, PiRests DEF TypeOK, Installed
  <2>3. current' = seen /\ ask' = 0 /\ sent' = sent /\ uncertain' = (failed = "uncertain")
    BY <1>1, <1>3 DEF Installed, Ends
  <2>4. \/ /\ op = "router" /\ at' = "routerDiscover" /\ binding' = seen.gen
           /\ UNCHANGED <<op, failed, seen, told>>
        \/ op = "refresh" /\ Ends /\ UNCHANGED told
        \/ /\ op \in Acts /\ Ends
           /\ told' = [told EXCEPT ![op] = IF failed = "no" THEN "ok" ELSE "error"]
    BY <1>3 DEF Installed
  <2>5. HostTypeOK'
    BY <1>1, <2>1, <2>3, <2>4
    DEF TypeOK, HostTypeOK, Ends, Places, Discovering, Snapshots, Errors
  <2>6. PlaceInv' /\ SeenInv'
    BY <1>1, <2>3, <2>4 DEF PlaceInv, SeenInv, Ends, Asking
  <2>7. AwaitedInv' /\ ReplyInv'
    BY <1>1, <2>1, <2>3, <2>4 DEF AwaitedInv, ReplyInv, Ends, pi
  <2>8. CalmInv'
    <3>1. Quiet' /\ Shown' /\ op' \notin Acts
      BY <1>1, <2>1, <2>3, <2>4 DEF Quiet, Shown, Shows, pi, Ends
    <3>2. at' # "actSent"
      BY <2>4 DEF Ends
    <3> QED BY <3>1, <3>2 DEF CalmInv
  <2>9. ToldInv'
    <3> SUFFICES ASSUME NEW a \in Acts, told'[a] = "ok", KindOf[a] # "navigate"
                 PROVE  a \in performed /\ seen # None /\ a \in seen.done
      BY <1>1, <2>3 DEF ToldInv, pi
    <3>1. a \in performed
      <4>1. CASE told[a] = "ok"
        BY <4>1 DEF ToldInv
      <4>2. CASE told[a] # "ok"
        <5>1. a = op /\ failed = "no"
          BY <4>2, <2>4 DEF TypeOK, HostTypeOK
        <5> QED BY <5>1, <1>1 DEF CalmInv, Achieved
      <4> QED BY <4>1, <4>2
    <3> QED BY <3>1, <2>1 DEF Shows
  <2> QED BY <2>2, <2>5, <2>6, <2>7, <2>8, <2>9 DEF TypeOK
<1> QED BY <1>2, <1>3 DEF Tree

\* An operation goes on, or fails.
LEMMA OperationInv ==
  ASSUME BridgeInv, OperationStep
  PROVE  BridgeInv'
<1>1. CASE State
  BY <1>1, StateStep
<1>2. CASE Discover
  BY <1>2, AskStep
<1>3. CASE Tree
  BY <1>3, TreeStep
<1>4. CASE Unanswered
  BY <1>4, FailsStep DEF Unanswered, Errors, pi
<1>5. CASE Refused
  <2>1. cmds' \subseteq cmds
    BY <1>5 DEF Refused
  <2> QED BY <1>5, <2>1, FailsStep DEF Refused, Errors
<1>6. CASE \E r \in replies : Receive(r)
  BY <1>6, ReceiveStep
<1> QED BY <1>1, <1>2, <1>3, <1>4, <1>5, <1>6 DEF OperationStep

-----------------------------------------------------------------------------
(* Steps of Pi and of the user.                                            *)

\* The controller does nothing: its own places and types stay.
LEMMA ControllerRests ==
  ASSUME HostTypeOK, PlaceInv, UNCHANGED <<controller, closed>>
  PROVE  HostTypeOK' /\ PlaceInv'
BY DEF controller, HostTypeOK, PlaceInv

\* A command that is at work goes on to a later stage.
LEMMA MovesStep ==
  ASSUME BridgeInv, NEW c \in cmds, NEW stage \in Stages \ {"inbox"},
         c.at # "inbox", cmds' = (cmds \ {c}) \cup {[c EXCEPT !.at = stage]},
         UNCHANGED <<controller, closed, replies, lock, streaming>>,
         c.what \in Acts, stage # "run",
         stage \in {"reload", "fresh", "lost"} => IsReload(c.what),
         stage = "cancelled" => KindOf[c.what] = "navigate",
         stage # "lost" => registered' /\ registered,
         stage \in {"done", "cancelled", "fresh"} => bound' # None,
         stage \in {"done", "reload", "fresh", "lost"} => c.what \in performed',
         performed' = performed \/ performed' = performed \cup {c.what},
         registered' \in BOOLEAN, bound' \in Generations \cup {None}
  PROVE  BridgeInv'
<1> USE Names DEF BridgeInv
<1> DEFINE d == [c EXCEPT !.at = stage]
<1>1. /\ c \in Commands /\ d \in Commands /\ d.id = c.id /\ d.what = c.what /\ d.gen = c.gen
      /\ d.at = stage /\ cmds' = (cmds \ {c}) \cup {d}
  BY DEF TypeOK, PiTypeOK, Commands
<1> HIDE DEF d
<1>2. /\ lock /\ \A e \in cmds : IF e.at = "inbox" THEN c.id < e.id ELSE e = c
      /\ c.at # "lost" => registered
  BY DEF WorkInv, AtWork
<1>3. ~Quiet /\ ~Quiet' /\ cmds # {} /\ cmds' # {}
  BY <1>1 DEF Quiet
<1>4. TypeOK'
  <2>1. PiTypeOK'
    BY <1>1 DEF TypeOK, PiTypeOK
  <2> QED BY <2>1, ControllerRests DEF TypeOK
<1>5. PlaceInv'
  BY ControllerRests DEF TypeOK
<1>6. IdsInv'
  BY <1>1 DEF IdsInv, controller
<1>7. WorkInv'
  BY <1>1, <1>2 DEF WorkInv, AtWork
<1>8. AwaitedInv'
  BY <1>1 DEF AwaitedInv, controller
<1>9. ReplyInv'
  <2> SUFFICES ASSUME NEW r \in replies, r.ok PROVE ReplyInv!(r)'
    BY DEF ReplyInv
  <2>1. r.gen # None /\ ~(r.id = ask /\ at = "inspectSent")
    BY <1>3 DEF ReplyInv
  <2>2. ~(r.id = ask /\ at = "actSent")
    BY DEF CalmInv, IdsInv
  <2> QED BY <2>1, <2>2 DEF controller
<1>10. SeenInv'
  BY <1>3 DEF SeenInv, controller
<1>11. CalmInv'
  BY <1>1, <1>3 DEF CalmInv, controller
<1>12. ToldInv'
  BY DEF ToldInv, controller
<1> QED BY <1>4, <1>5, <1>6, <1>7, <1>8, <1>9, <1>10, <1>11, <1>12

\* A command leaves the input or its work, with a reply.
LEMMA RepliesStep ==
  ASSUME BridgeInv, NEW c \in cmds, NEW ok \in BOOLEAN, Reply(c, ok),
         UNCHANGED <<controller, closed, registered, bound, streaming, performed>>,
         lock' = lock \/ (lock' = FALSE /\ c.at # "inbox"),
         ok => bound # None,
         ok => \/ c.what = "handshake"
               \/ c.at # "inbox" /\ Succeeds(c)
  PROVE  BridgeInv'
<1> USE Names DEF BridgeInv
<1> DEFINE r == [id |-> c.id, ok |-> ok, gen |-> bound, done |-> performed]
<1>1. /\ c \in Commands /\ r \in Replies /\ r.id = c.id /\ r.ok = ok
      /\ r.gen = bound /\ r.done = performed
      /\ cmds' = cmds \ {c} /\ replies' = replies \cup {r}
  BY DEF TypeOK, PiTypeOK, Commands, Replies, Reply
<1> HIDE DEF r
<1>2. TypeOK'
  <2>1. PiTypeOK'
    BY <1>1 DEF TypeOK, PiTypeOK
  <2> QED BY <2>1, ControllerRests DEF TypeOK
<1>3. PlaceInv'
  BY ControllerRests DEF TypeOK
<1>4. IdsInv'
  BY <1>1 DEF IdsInv, controller
<1>5. WorkInv'
  BY <1>1 DEF WorkInv, AtWork
<1>6. AwaitedInv' /\ ToldInv'
  BY <1>1 DEF AwaitedInv, ToldInv, controller
<1>7. SeenInv'
  BY <1>1 DEF SeenInv, Shows, controller
<1>8. ReplyInv'
  <2> SUFFICES ASSUME NEW q \in replies', q.ok PROVE ReplyInv!(q)'
    BY DEF ReplyInv
  <2>1. CASE q # r
    BY <2>1, <1>1 DEF ReplyInv, Achieved, controller
  <2>2. CASE q = r
    <3>1. c.id = ask /\ at = "actSent" => registered /\ Achieved
      <4> SUFFICES ASSUME c.id = ask, at = "actSent" PROVE registered /\ Achieved
        OBVIOUS
      <4>1. c.what = op /\ op \in Acts /\ c.at # "inbox" /\ Succeeds(c)
        BY <1>1, <2>2 DEF AwaitedInv, PlaceInv, Reads
      <4>2. AtWork(c)
        BY <4>1 DEF WorkInv
      <4> QED BY <4>1, <4>2 DEF AtWork, Succeeds, Achieved
    <3>2. c.id = ask /\ at = "inspectSent" => cmds' = {}
      <4> SUFFICES ASSUME c.id = ask, at = "inspectSent", NEW e \in cmds, e # c PROVE FALSE
        BY <1>1
      <4>1. c.what = "inspect" /\ c.at # "inbox" /\ ask = sent
        BY <1>1, <2>2 DEF AwaitedInv, PlaceInv, Asking
      <4>2. c.id < e.id /\ e.id \in 1..sent
        BY <4>1 DEF WorkInv, IdsInv
      <4> QED BY <4>1, <4>2 DEF TypeOK, HostTypeOK
    <3> QED BY <2>2, <3>1, <3>2, <1>1 DEF controller, Achieved
  <2> QED BY <2>1, <2>2
<1>9. CalmInv'
  <2>1. (Quiet => Quiet') /\ Shown' = Shown /\ Achieved' = Achieved
    BY <1>1 DEF Quiet, Shown, Shows, Achieved, controller
  <2> QED BY <2>1, <1>1 DEF CalmInv, controller
<1> QED BY <1>2, <1>3, <1>4, <1>5, <1>6, <1>7, <1>8, <1>9

\* Pi begins a command: refuses it, answers it, or takes the lock for it.
LEMMA BeginStep ==
  ASSUME BridgeInv, NEW c \in cmds, Begin(c)
  PROVE  BridgeInv'
<1> USE Names DEF BridgeInv
<1>1. /\ c.at = "inbox" /\ \A d \in cmds : d.at = "inbox" => c.id <= d.id
      /\ UNCHANGED <<controller, closed, registered, bound, performed>>
  BY DEF Begin, First
<1>2. CASE ~registered /\ cmds' = cmds \ {c} /\ streaming' = TRUE /\ UNCHANGED <<replies, lock>>
  <2>1. TypeOK' /\ PlaceInv'
    BY <1>1, <1>2, ControllerRests DEF TypeOK, PiTypeOK
  <2>2. IdsInv' /\ WorkInv' /\ (Quiet => Quiet')
    BY <1>1, <1>2, FewerStep DEF controller
  <2>3. AwaitedInv' /\ ReplyInv' /\ SeenInv'
    BY <1>1, <1>2 DEF AwaitedInv, ReplyInv, SeenInv, Shows, Achieved, controller
  <2>4. CalmInv' /\ ToldInv'
    BY <1>1, <1>2, <2>2 DEF CalmInv, ToldInv, Shown, Shows, Achieved, controller
  <2> QED BY <2>1, <2>2, <2>3, <2>4
<1>3. CASE Reply(c, FALSE) /\ UNCHANGED <<lock, streaming>>
  BY <1>1, <1>3, RepliesStep
<1>4. CASE bound # None /\ c.what = "handshake" /\ Reply(c, TRUE) /\ UNCHANGED <<lock, streaming>>
  BY <1>1, <1>4, RepliesStep
<1>5. CASE /\ registered /\ bound # None /\ ~lock /\ lock' = TRUE
           /\ Move(c, "run") /\ UNCHANGED <<replies, streaming>>
  <2> DEFINE d == [c EXCEPT !.at = "run"]
  <2>1. /\ c \in Commands /\ d \in Commands /\ d.id = c.id /\ d.what = c.what
        /\ d.at = "run" /\ cmds' = (cmds \ {c}) \cup {d}
    BY <1>5 DEF TypeOK, PiTypeOK, Commands, Stages, Move
  <2> HIDE DEF d
  <2>2. TypeOK' /\ PlaceInv'
    BY <1>1, <1>5, <2>1, ControllerRests DEF TypeOK, PiTypeOK
  <2>3. IdsInv'
    BY <1>1, <1>5, <2>1 DEF IdsInv, controller
  <2>4. \A e \in cmds : e.at = "inbox"
    BY <1>5 DEF WorkInv, AtWork
  <2>5. WorkInv'
    <3>1. \A e \in cmds \ {c} : c.id < e.id
      BY <1>1, <2>1, <2>4 DEF IdsInv, TypeOK, PiTypeOK, Commands
    <3> QED BY <1>1, <1>5, <2>1, <2>4, <3>1 DEF WorkInv, AtWork
  <2>6. AwaitedInv' /\ ToldInv'
    BY <1>1, <1>5, <2>1 DEF AwaitedInv, ToldInv, controller
  <2>7. ReplyInv' /\ SeenInv'
    BY <1>1, <1>5 DEF ReplyInv, SeenInv, Shows, Achieved, controller
  <2>8. CalmInv'
    <3>1. Quiet' = Quiet /\ Shown' = Shown /\ Achieved' = Achieved
      BY <1>1, <2>1 DEF Quiet, Shown, Shows, Achieved, controller
    <3> QED BY <3>1, <1>1, <2>1 DEF CalmInv, controller
  <2> QED BY <2>2, <2>3, <2>5, <2>6, <2>7, <2>8
<1> QED BY <1>1, <1>2, <1>3, <1>4, <1>5 DEF Begin

\* Pi works on a command, or cancels it.
LEMMA WorkStep ==
  ASSUME BridgeInv, NEW c \in cmds, CancelNavigation(c) \/ Perform(c) \/ Shutdown(c) \/ Rebind(c)
  PROVE  BridgeInv'
<1> USE Names DEF BridgeInv
<1>1. c.at # "inbox" /\ AtWork(c) /\ TypeOK
  BY DEF CancelNavigation, Perform, Shutdown, Rebind, WorkInv
<1>2. CASE CancelNavigation(c)
  BY <1>1, <1>2, MovesStep DEF CancelNavigation, AtWork, Stages, TypeOK, PiTypeOK, PlaceInv
<1>3. CASE Perform(c)
  BY <1>1, <1>3, MovesStep DEF Perform, Move, AtWork, Stages, TypeOK, PiTypeOK
<1>4. CASE Shutdown(c)
  BY <1>1, <1>4, MovesStep DEF Shutdown, Move, AtWork, Stages, TypeOK, PiTypeOK
<1>5. CASE Rebind(c)
  <2>1. c.what \in Acts /\ IsReload(c.what) /\ c.what \in performed /\ registered
    BY <1>1, <1>5 DEF Rebind, AtWork
  <2>2. CASE bound' = c.what /\ Move(c, "fresh") /\ UNCHANGED registered
    BY <1>1, <1>5, <2>1, <2>2, MovesStep
    DEF Rebind, Move, Stages, TypeOK, PiTypeOK, Generations
  <2>3. CASE registered' \in BOOLEAN /\ Move(c, "lost") /\ UNCHANGED bound
    BY <1>1, <1>5, <2>1, <2>3, MovesStep DEF Rebind, Move, Stages, TypeOK, PiTypeOK
  <2> QED BY <1>5, <2>2, <2>3 DEF Rebind
<1> QED BY <1>2, <1>3, <1>4, <1>5

\* Pi answers the command it has worked on.
LEMMA FinishStep ==
  ASSUME BridgeInv, NEW c \in cmds, Finish(c)
  PROVE  BridgeInv'
<1>1. c.at # "inbox" /\ AtWork(c)
  BY DEF Finish, BridgeInv, WorkInv
<1>2. PICK ok \in BOOLEAN : Reply(c, ok) /\ (ok => Succeeds(c))
  BY DEF Finish
<1>3. ok => bound # None
  BY <1>1, <1>2 DEF AtWork, Succeeds
<1> QED BY <1>1, <1>2, <1>3, RepliesStep DEF Finish

\* Pi exits, is prompted, or ends a run.
LEMMA RunStep ==
  ASSUME BridgeInv, Exit \/ Prompt \/ RunEnds
  PROVE  BridgeInv'
<1> USE Names DEF BridgeInv
<1>1. /\ cmds' \subseteq cmds /\ replies' \subseteq replies
      /\ closed' \in BOOLEAN /\ streaming' \in BOOLEAN
      /\ UNCHANGED <<controller, registered, bound, lock, performed>>
  BY DEF Exit, Prompt, RunEnds, TypeOK, HostTypeOK, PiTypeOK
<1>2. TypeOK' /\ PlaceInv'
  BY <1>1 DEF TypeOK, HostTypeOK, PiTypeOK, PlaceInv, controller
<1>3. IdsInv' /\ WorkInv' /\ (Quiet => Quiet')
  BY <1>1, FewerStep DEF controller
<1>4. AwaitedInv' /\ ReplyInv' /\ SeenInv'
  BY <1>1 DEF AwaitedInv, ReplyInv, SeenInv, Shows, Achieved, controller
<1>5. CalmInv' /\ ToldInv'
  BY <1>1, <1>3 DEF CalmInv, ToldInv, Shown, Shows, Achieved, controller
<1> QED BY <1>2, <1>3, <1>4, <1>5

-----------------------------------------------------------------------------
(* The theorems.                                                           *)

\* The invariant holds of every state of the specification.
THEOREM BridgeInvariant == Spec => []BridgeInv
<1>1. Init => BridgeInv
  <2> SUFFICES ASSUME Init PROVE BridgeInv
    OBVIOUS
  <2>1. TypeOK
    BY DEF Init, TypeOK, HostTypeOK, PiTypeOK, Places, Errors, Generations
  <2>2. PlaceInv
    BY Names DEF Init, PlaceInv, Asking
  <2>3. IdsInv /\ WorkInv /\ AwaitedInv /\ ReplyInv /\ SeenInv /\ CalmInv /\ ToldInv
    BY Names DEF Init, IdsInv, WorkInv, AwaitedInv, ReplyInv, SeenInv, CalmInv, ToldInv, Quiet, Shown
  <2> QED BY <2>1, <2>2, <2>3 DEF BridgeInv
<1>2. BridgeInv /\ [Next]_vars => BridgeInv'
  <2> SUFFICES ASSUME BridgeInv, [Next]_vars PROVE BridgeInv'
    OBVIOUS
  <2>1. CASE Refresh \/ Router \/ \E a \in Acts : Act(a)
    BY <2>1, BeginsStep
  <2>2. CASE OperationStep
    BY <2>2, OperationInv
  <2>3. ASSUME NEW c \in cmds, CancelNavigation(c) \/ PiStep(c) PROVE BridgeInv'
    BY <2>3, BeginStep, WorkStep, FinishStep DEF PiStep
  <2>4. CASE Exit \/ Prompt \/ RunEnds
    BY <2>4, RunStep
  <2>5. CASE UNCHANGED vars
    BY <2>5
    DEF vars, controller, pi, BridgeInv, TypeOK, HostTypeOK, PiTypeOK, PlaceInv, IdsInv, WorkInv,
      AtWork, AwaitedInv, ReplyInv, SeenInv, CalmInv, ToldInv, Quiet, Shown, Shows, Achieved
  <2> QED BY <2>1, <2>2, <2>3, <2>4, <2>5 DEF Next
<1> QED BY <1>1, <1>2, PTL DEF Spec

\* While an action may still change the session no prompt is admitted (blocksPrompt of
\* the controller and the lock of the extension).
THEOREM PromptsWait == Spec => []PromptsWaitForControl
<1>1. BridgeInv => PromptsWaitForControl
  BY Names DEF BridgeInv, CalmInv, Quiet, PromptsWaitForControl, blocksPrompt
<1> QED BY <1>1, BridgeInvariant, PTL

\* When prompts and actions are admitted the snapshot shows what Pi has done, and an
\* action that was reported as done was done (readCurrent and act).
THEOREM ToldAsDone == Spec => []ActionsTold
<1>1. BridgeInv => SnapshotTrue
  BY Names DEF BridgeInv, CalmInv, Shown, Shows, SnapshotTrue, blocksPrompt
<1>2. BridgeInv => DoneIsDone
  BY DEF BridgeInv, ToldInv, DoneIsDone
<1> QED BY <1>1, <1>2, BridgeInvariant, PTL DEF ActionsTold

\* A lock of the extension is never left behind: one command is at work at a time, also
\* when a reload evaluates the extension anew (the handler, and its finally).
THEOREM OneAtWork ==
  Spec => [](\A c, d \in cmds : c.at # "inbox" /\ d.at # "inbox" => c = d)
<1>1. BridgeInv => \A c, d \in cmds : c.at # "inbox" /\ d.at # "inbox" => c = d
  BY DEF BridgeInv, WorkInv
<1> QED BY <1>1, BridgeInvariant, PTL

=============================================================================
