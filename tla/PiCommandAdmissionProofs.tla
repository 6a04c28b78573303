----------------------- MODULE PiCommandAdmissionProofs -----------------------
(* Proofs about PiCommandAdmission, for any Hosts, commands, calls and lanes. *)
EXTENDS PiCommandAdmission, TLAPS

\* The calls that hold the reservation of their command.
Owning == {"write", "lane", "run", "settle"}

\* Who follows has a first call to follow, and who settles an outcome to settle.
AwaitInv ==
  \A c \in Calls :
    /\ pc[c] = "follow" => First(c) # None
    /\ pc[c] = "settle" => outcome[CommandOf[c]] \in Outcomes

\* The reservation: one call of a command holds it, with the receipt on disk,
\* and the command has no effect before.
ReserveInv ==
  /\ \A c, d \in Calls :
       CommandOf[c] = CommandOf[d] /\ pc[c] \in Owning /\ pc[d] \in Owning => c = d
  /\ \A c \in Calls : pc[c] \in Owning => receipt[CommandOf[c]] # "none"
  /\ \A c \in Calls : pc[c] \in {"write", "lane"} => effects[CommandOf[c]] = 0
  /\ \A k \in Commands : receipt[k] = "none" => effects[k] = 0
  /\ AtMostOnce

\* What is told is what the dispatch answered, by way of the receipt and of the
\* first call on the Host.
OutcomeInv ==
  /\ \A c \in Calls : pc[c] \in {"write", "lane", "run"} => outcome[CommandOf[c]] = None
  /\ \A k \in Commands : receipt[k] = "none" => outcome[k] = None
  /\ \A k \in Commands : receipt[k] \in Outcomes => receipt[k] = outcome[k]
  /\ \A h \in Hosts, k \in Commands : results[h][k] # None => CommandOf[results[h][k]] = k
  /\ AnswersTruthful

\* A call that waits for its turn is in its lane, and a running one is its head.
InLane(c) == \E i \in 1..Len(Lane(c)) : Lane(c)[i] = c
LaneInv ==
  \A c \in Calls : Serialized(c) =>
    /\ pc[c] \in {"lane", "run"} => InLane(c)
    /\ pc[c] = "run" => Head(Lane(c)) = c

-----------------------------------------------------------------------------
(* Type correctness.                                                       *)

\* A map of maps with one entry replaced: the other entries stay.
LEMMA OneEntry ==
  ASSUME NEW A, NEW B, NEW V, NEW f \in [A -> [B -> V]], NEW a \in A, NEW b \in B, NEW v \in V
  PROVE  /\ [f EXCEPT ![a][b] = v] \in [A -> [B -> V]]
         /\ \A x \in A, y \in B :
              [f EXCEPT ![a][b] = v][x][y] = IF x = a /\ y = b THEN v ELSE f[x][y]
<1>1. [f[a] EXCEPT ![b] = v] \in [B -> V]
  OBVIOUS
<1>2. [f EXCEPT ![a][b] = v] = [f EXCEPT ![a] = [f[a] EXCEPT ![b] = v]]
  OBVIOUS
<1>3. [f EXCEPT ![a] = [f[a] EXCEPT ![b] = v]] \in [A -> [B -> V]]
  BY <1>1
<1>4. ASSUME NEW x \in A, NEW y \in B
      PROVE  [f EXCEPT ![a] = [f[a] EXCEPT ![b] = v]][x][y]
               = IF x = a /\ y = b THEN v ELSE f[x][y]
  <2>1. [f EXCEPT ![a] = [f[a] EXCEPT ![b] = v]][x]
          = IF x = a THEN [f[a] EXCEPT ![b] = v] ELSE f[x]
    OBVIOUS
  <2>2. f[a] \in [B -> V]
    OBVIOUS
  <2>3. [f[a] EXCEPT ![b] = v][y] = IF y = b THEN v ELSE f[a][y]
    BY <2>2
  <2>4. QED
    BY <2>1, <2>3
<1>5. QED
  BY <1>2, <1>3, <1>4

\* What await and answer do to the two variables of a call.
LEMMA CallMoves ==
  ASSUME TypeOK, NEW c \in Calls
  PROVE  /\ \A l \in Places : Goto(c, l) => /\ pc' \in [Calls -> Places]
                                            /\ answer' \in [Calls -> Answers \cup {None}]
         /\ \A a \in Answers : Told(c, a) => /\ pc' \in [Calls -> Places]
                                             /\ answer' \in [Calls -> Answers \cup {None}]
BY DEF TypeOK, Goto, Told, Places

\* A receipt is heard as an answer.
LEMMA HeardAnswers ==
  ASSUME TypeOK, NEW c \in Calls, Heard(c)
  PROVE  \E a \in Answers : Told(c, a)
BY AdmissionAssumption DEF TypeOK, Heard, Receipt, Again, Answers, Outcomes

\* Every step keeps the types.
LEMMA TypeStep == TypeOK /\ AwaitInv /\ LaneInv /\ [Next]_vars => TypeOK'
<1> SUFFICES ASSUME TypeOK, AwaitInv, LaneInv, [Next]_vars PROVE TypeOK'
  OBVIOUS
<1> DEFINE Moves == pc' \in [Calls -> Places] /\ answer' \in [Calls -> Answers \cup {None}]
<1>0. ASSUME NEW c \in Calls PROVE HostOf[c] \in Hosts /\ CommandOf[c] \in Commands
  BY AdmissionAssumption
<1>1. ASSUME NEW c \in Calls, Send(c) PROVE TypeOK'
  <2>1. results' \in [Hosts -> [Commands -> Calls \cup {None}]]
    <3>1. results' = results \/ results' = [results EXCEPT ![HostOf[c]][CommandOf[c]] = c]
      BY <1>1 DEF Send
    <3>2. [results EXCEPT ![HostOf[c]][CommandOf[c]] = c] \in [Hosts -> [Commands -> Calls \cup {None}]]
      <4>1. c \in Calls \cup {None} /\ results \in [Hosts -> [Commands -> Calls \cup {None}]]
        BY DEF TypeOK
      <4>2. QED
        BY <1>0, <4>1, OneEntry
    <3>3. QED
      BY <3>1, <3>2 DEF TypeOK
  <2>2. Moves
    BY <1>1, CallMoves DEF Send, Places, Answers
  <2>3. QED
    BY <1>1, <2>1, <2>2 DEF Send, TypeOK
<1>2. ASSUME NEW c \in Calls, Query(c) PROVE TypeOK'
  <2>1. Moves
    BY <1>2, CallMoves DEF Query, Places
  <2>2. QED
    BY <1>2, <2>1 DEF Query, TypeOK, host
<1>3. ASSUME NEW c \in Calls, Follow(c) PROVE TypeOK'
  <2>1. First(c) \in Calls
    BY <1>0, <1>3 DEF AwaitInv, Follow, At, First, TypeOK
  <2>2. Again(c, answer[First(c)]) \in Answers
    BY <1>3, <2>1 DEF Follow, Again, TypeOK, Answers
  <2>3. Moves
    BY <1>3, <2>2, CallMoves DEF Follow
  <2>4. QED
    BY <1>3, <2>3 DEF Follow, TypeOK, host
<1>4. ASSUME NEW c \in Calls, Read(c) PROVE TypeOK'
  <2>1. Moves
    BY <1>4, CallMoves, HeardAnswers DEF Read, Places, Answers
  <2>2. QED
    BY <1>4, <2>1 DEF Read, TypeOK, host
<1>5. ASSUME NEW c \in Calls, Create(c) PROVE TypeOK'
  <2>1. Moves
    BY <1>5, CallMoves DEF Create, Places, Answers
  <2>2. receipt' \in [Commands -> {"none", "torn", "pending"} \cup Outcomes]
    BY <1>5 DEF Create, TypeOK
  <2>3. QED
    BY <1>5, <2>1, <2>2 DEF Create, TypeOK, host
<1>6. ASSUME NEW c \in Calls, Reread(c) PROVE TypeOK'
  <2>1. Moves
    BY <1>6, CallMoves, HeardAnswers DEF Reread, Answers
  <2>2. QED
    BY <1>6, <2>1 DEF Reread, TypeOK, host
<1>7. ASSUME NEW c \in Calls, Write(c) PROVE TypeOK'
  <2>1. Moves
    BY <1>7, CallMoves DEF Write, Places, Answers
  <2>2. receipt' \in [Commands -> {"none", "torn", "pending"} \cup Outcomes]
    BY <1>7 DEF Write, TypeOK
  <2>3. lanes' \in [Hosts -> [Lanes -> Seq(Calls)]]
    <3>1. CASE Serialized(c)
      <4>1. Append(Lane(c), c) \in Seq(Calls)
        BY <1>0, <3>1, AdmissionAssumption DEF Lane, Serialized, TypeOK
      <4>2. QED
        <5>1. LaneOf[CommandOf[c]] \in Lanes /\ lanes \in [Hosts -> [Lanes -> Seq(Calls)]]
          BY <1>0, <3>1, AdmissionAssumption DEF Serialized, TypeOK
        <5>2. [lanes EXCEPT ![HostOf[c]][LaneOf[CommandOf[c]]] = Append(Lane(c), c)]
                \in [Hosts -> [Lanes -> Seq(Calls)]]
          BY <1>0, <4>1, <5>1, OneEntry
        <5>3. QED
          BY <1>7, <3>1, <5>1, <5>2 DEF Write, Lane
    <3>2. CASE ~Serialized(c)
      BY <1>7, <3>2 DEF Write, TypeOK
    <3>3. QED
      BY <3>1, <3>2
  <2>4. QED
    BY <1>7, <2>1, <2>2, <2>3 DEF Write, TypeOK
<1>8. ASSUME NEW c \in Calls, Dispatch(c) PROVE TypeOK'
  <2>1. Moves
    BY <1>8, CallMoves DEF Dispatch, Places
  <2>2. effects' \in [Commands -> Nat]
    BY <1>0, <1>8 DEF Dispatch, TypeOK
  <2>3. QED
    BY <1>8, <2>1, <2>2 DEF Dispatch, TypeOK, host
<1>9. ASSUME NEW c \in Calls, Return(c) PROVE TypeOK'
  <2>1. Moves
    BY <1>9, CallMoves DEF Return, Places, Answers
  <2>2. outcome' \in [Commands -> Outcomes \cup {None}]
    BY <1>9 DEF Return, TypeOK, Outcomes
  <2>3. lanes' \in [Hosts -> [Lanes -> Seq(Calls)]]
    <3>1. CASE Serialized(c)
      <4>1. Lane(c) \in Seq(Calls) /\ Lane(c) # <<>>
        BY <1>0, <1>9, <3>1, AdmissionAssumption
        DEF LaneInv, InLane, Return, At, Lane, Serialized, TypeOK
      <4>2. Tail(Lane(c)) \in Seq(Calls)
        BY <4>1
      <4>3. QED
        <5>1. LaneOf[CommandOf[c]] \in Lanes /\ lanes \in [Hosts -> [Lanes -> Seq(Calls)]]
          BY <1>0, <3>1, AdmissionAssumption DEF Serialized, TypeOK
        <5>2. [lanes EXCEPT ![HostOf[c]][LaneOf[CommandOf[c]]] = Tail(Lane(c))]
                \in [Hosts -> [Lanes -> Seq(Calls)]]
          BY <1>0, <4>2, <5>1, OneEntry
        <5>3. QED
          BY <1>9, <3>1, <5>2 DEF Return, Leave, Lane
    <3>2. CASE ~Serialized(c)
      BY <1>9, <3>2 DEF Return, Leave, TypeOK
    <3>3. QED
      BY <3>1, <3>2
  <2>4. QED
    BY <1>9, <2>1, <2>2, <2>3 DEF Return, TypeOK
<1>10. ASSUME NEW c \in Calls, Settle(c) PROVE TypeOK'
  <2>1. Moves
    <3>1. outcome[CommandOf[c]] \in Outcomes
      BY <1>10 DEF Settle, At, AwaitInv
    <3>2. QED
      BY <1>10, <3>1, CallMoves DEF Settle, SettleFails, Answers, Outcomes
  <2>2. receipt' \in [Commands -> {"none", "torn", "pending"} \cup Outcomes]
    BY <1>0, <1>10 DEF Settle, SettleFails, At, AwaitInv, TypeOK
  <2>3. QED
    BY <1>10, <2>1, <2>2 DEF Settle, TypeOK, host
<1>11. ASSUME NEW h \in Hosts, Crash(h) PROVE TypeOK'
  BY <1>11 DEF Crash, TypeOK
<1>12. CASE UNCHANGED vars
  BY <1>12 DEF vars, host, TypeOK
<1>13. QED
  BY <1>1, <1>2, <1>3, <1>4, <1>5, <1>6, <1>7, <1>8, <1>9, <1>10, <1>11, <1>12
  DEF Next, CallStep

\* Every step keeps a first call for who follows, and an outcome for who settles.
LEMMA AwaitStep == TypeOK /\ AwaitInv /\ [Next]_vars => AwaitInv'
<1> SUFFICES ASSUME TypeOK, AwaitInv, [Next]_vars, NEW d \in Calls
             PROVE  /\ pc'[d] = "follow" => First(d)' # None
                    /\ pc'[d] = "settle" => outcome'[CommandOf[d]] \in Outcomes
  BY DEF AwaitInv
<1> DEFINE Kept == /\ pc'[d] = "follow" => First(d)' # None
                   /\ pc'[d] = "settle" => outcome'[CommandOf[d]] \in Outcomes
<1> USE AdmissionAssumption DEF AwaitInv, First, At, Goto, Told
<1>0. HostOf[d] \in Hosts /\ CommandOf[d] \in Commands
  OBVIOUS
<1>1. ASSUME NEW c \in Calls, Send(c) PROVE Kept
  <2>1. First(d) # None => First(d)' # None
    <3>1. CASE UNCHANGED results
      BY <3>1
    <3>2. CASE results' = [results EXCEPT ![HostOf[c]][CommandOf[c]] = c]
      <4>1. HostOf[c] \in Hosts /\ CommandOf[c] \in Commands /\ c # None
        OBVIOUS
      <4>2. First(d)' = IF HostOf[d] = HostOf[c] /\ CommandOf[d] = CommandOf[c] THEN c ELSE First(d)
        BY <1>0, <3>2, <4>1, OneEntry DEF TypeOK
      <4>3. QED
        BY <4>1, <4>2
    <3>3. QED
      BY <1>1, <3>1, <3>2 DEF Send
  <2>2. UNCHANGED outcome /\ pc[c] = "idle" /\ pc \in [Calls -> Places]
    BY <1>1 DEF Send, TypeOK
  <2>3. PICK l \in {"follow", "done", "read"} : pc' = [pc EXCEPT ![c] = l]
    BY <1>1 DEF Send
  <2>4. pc'[d] = "follow" => pc[d] = "follow" \/ (d = c /\ First(c) # None)
    BY <1>1, <2>2 DEF Send
  <2>5. QED
    BY <2>1, <2>2, <2>3, <2>4
<1>2. ASSUME NEW c \in Calls, Query(c) PROVE Kept
  BY <1>2 DEF Query, TypeOK, host
<1>3. ASSUME NEW c \in Calls, Follow(c) \/ Read(c) \/ Reread(c) PROVE Kept
  BY <1>3 DEF Follow, Read, Reread, Heard, TypeOK, host
<1>4. ASSUME NEW c \in Calls, Create(c) \/ Write(c) PROVE Kept
  BY <1>4 DEF Create, Write, TypeOK, host
<1>5. ASSUME NEW c \in Calls, Dispatch(c) PROVE Kept
  BY <1>5 DEF Dispatch, TypeOK, host
<1>6. ASSUME NEW c \in Calls, Return(c) PROVE Kept
  BY <1>0, <1>6 DEF Return, TypeOK, Outcomes
<1>7. ASSUME NEW c \in Calls, Settle(c) PROVE Kept
  BY <1>7 DEF Settle, SettleFails, TypeOK, host
<1>8. ASSUME NEW h \in Hosts, Crash(h) PROVE Kept
  BY <1>8 DEF Crash
<1>9. CASE UNCHANGED vars
  BY <1>9 DEF vars, host
<1>10. QED
  BY <1>1, <1>2, <1>3, <1>4, <1>5, <1>6, <1>7, <1>8, <1>9 DEF Next, CallStep

\* Every step keeps the waiting calls in their lane, the running one first.
LEMMA LaneStep == TypeOK /\ LaneInv /\ [Next]_vars => LaneInv'
<1> SUFFICES ASSUME TypeOK, LaneInv, [Next]_vars PROVE LaneInv'
  OBVIOUS
<1>0. ASSUME NEW c \in Calls PROVE HostOf[c] \in Hosts /\ CommandOf[c] \in Commands
  BY AdmissionAssumption
<1>1. ASSUME NEW c \in Calls, UNCHANGED lanes, NEW l \in Places \ {"lane", "run"},
             pc' = [pc EXCEPT ![c] = l]
      PROVE  LaneInv'
  BY <1>1 DEF LaneInv, InLane, Lane, TypeOK
<1>2. ASSUME NEW c \in Calls, Write(c) PROVE LaneInv'
  <2>1. ASSUME Goto(c, "lane") PROVE LaneInv'
    <3> SUFFICES ASSUME NEW d \in Calls, Serialized(d), pc'[d] \in {"lane", "run"}
                 PROVE  InLane(d)' /\ (pc'[d] = "run" => Head(Lane(d))' = d)
      BY DEF LaneInv
    <3>1. d # c => pc'[d] = pc[d]
      BY <2>1 DEF Goto, TypeOK
    <3>2. pc'[c] = "lane"
      BY <2>1 DEF Goto, TypeOK
    <3>3. Lane(d) \in Seq(Calls)
      BY <1>0, AdmissionAssumption DEF Lane, Serialized, TypeOK
    <3>4. \/ Lane(d)' = Lane(d) /\ d # c
          \/ Lane(d)' = Append(Lane(d), c)
      <4>1. CASE Serialized(c)
        <5>1. /\ LaneOf[CommandOf[c]] \in Lanes /\ LaneOf[CommandOf[d]] \in Lanes
              /\ lanes \in [Hosts -> [Lanes -> Seq(Calls)]]
          BY <1>0, <4>1, AdmissionAssumption DEF Serialized, TypeOK
        <5>2. Append(Lane(c), c) \in Seq(Calls)
          BY <1>0, <5>1 DEF Lane
        <5>3. lanes' = [lanes EXCEPT ![HostOf[c]][LaneOf[CommandOf[c]]] = Append(Lane(c), c)]
          BY <1>2, <3>2, <4>1 DEF Write, Lane, Told, TypeOK
        <5>4. Lane(d)' = IF HostOf[d] = HostOf[c] /\ LaneOf[CommandOf[d]] = LaneOf[CommandOf[c]]
                           THEN Append(Lane(c), c) ELSE Lane(d)
          BY <1>0, <5>1, <5>2, <5>3, OneEntry DEF Lane
        <5>5. QED
          BY <5>4 DEF Lane
      <4>2. CASE ~Serialized(c)
        BY <1>2, <4>2 DEF Write, Lane
      <4>3. QED
        BY <4>1, <4>2
    <3>5. CASE d = c
      <4>1. Lane(d)' = Append(Lane(d), d)
        BY <3>4, <3>5
      <4>2. Len(Lane(d)') = Len(Lane(d)) + 1 /\ Lane(d)'[Len(Lane(d)) + 1] = d
        BY <3>3, <4>1
      <4>3. QED
        BY <3>2, <3>3, <3>5, <4>2 DEF InLane
    <3>6. CASE d # c
      <4>1. InLane(d) /\ (pc[d] = "run" => Head(Lane(d)) = d)
        BY <3>1, <3>6 DEF LaneInv
      <4>2. PICK i \in 1..Len(Lane(d)) : Lane(d)[i] = d
        BY <4>1 DEF InLane
      <4>3. i \in 1..Len(Lane(d)') /\ Lane(d)'[i] = d
        BY <3>3, <3>4, <4>2
      <4>4. Head(Lane(d)') = Head(Lane(d))
        BY <3>3, <3>4, <4>2
      <4>5. QED
        BY <3>1, <3>6, <4>1, <4>3, <4>4 DEF InLane
    <3>7. QED
      BY <3>5, <3>6
  <2>2. QED
    BY <1>1, <1>2, <2>1 DEF Write, Told, Places
<1>3. ASSUME NEW c \in Calls, Dispatch(c) PROVE LaneInv'
  <2>1. Serialized(c) => InLane(c) /\ Head(Lane(c)) = c
    BY <1>3 DEF Dispatch, At, LaneInv
  <2>2. QED
    BY <1>3, <2>1 DEF Dispatch, Goto, LaneInv, InLane, Lane, Serialized, TypeOK, host
<1>4. ASSUME NEW c \in Calls, Return(c) PROVE LaneInv'
  <2> SUFFICES ASSUME NEW d \in Calls, Serialized(d), pc'[d] \in {"lane", "run"}
               PROVE  InLane(d)' /\ (pc'[d] = "run" => Head(Lane(d))' = d)
    BY DEF LaneInv
  <2>1. d # c /\ pc'[d] = pc[d]
    BY <1>4 DEF Return, Goto, Told, TypeOK
  <2>2. Lane(d) \in Seq(Calls) /\ InLane(d) /\ (pc[d] = "run" => Head(Lane(d)) = d)
    BY <1>0, <2>1, AdmissionAssumption DEF LaneInv, Lane, Serialized, TypeOK
  <2>3. \/ Lane(d)' = Lane(d)
        \/ Lane(d)' = Tail(Lane(d)) /\ Head(Lane(d)) = c
    <3>1. CASE ~Serialized(c)
      BY <1>4, <3>1 DEF Return, Leave, Lane
    <3>2. CASE Serialized(c) /\ HostOf[c] = HostOf[d] /\ LaneOf[CommandOf[c]] = LaneOf[CommandOf[d]]
      <4>1. Lane(c) = Lane(d) /\ Head(Lane(c)) = c
        BY <1>4, <3>2 DEF Lane, LaneInv, Return, At
      <4>2. Lane(d)' = Tail(Lane(d))
        BY <1>0, <1>4, <3>2, AdmissionAssumption DEF Return, Leave, Lane, Serialized, TypeOK
      <4>3. QED
        BY <4>1, <4>2
    <3>3. CASE Serialized(c) /\ ~(HostOf[c] = HostOf[d] /\ LaneOf[CommandOf[c]] = LaneOf[CommandOf[d]])
      BY <1>0, <1>4, <3>3, AdmissionAssumption DEF Return, Leave, Lane, Serialized, TypeOK
    <3>4. QED
      BY <3>1, <3>2, <3>3
  <2>4. CASE Lane(d)' = Lane(d)
    BY <2>1, <2>2, <2>4 DEF InLane
  <2>5. CASE Lane(d)' = Tail(Lane(d)) /\ Head(Lane(d)) = c
    <3>1. PICK i \in 1..Len(Lane(d)) : Lane(d)[i] = d
      BY <2>2 DEF InLane
    <3>2. i # 1
      BY <2>1, <2>2, <2>5, <3>1
    <3>3. i - 1 \in 1..Len(Lane(d)') /\ Lane(d)'[i - 1] = d
      BY <2>2, <2>5, <3>1, <3>2
    <3>4. QED
      BY <2>1, <2>2, <2>5, <3>3 DEF InLane
  <2>6. QED
    BY <2>3, <2>4, <2>5
<1>5. ASSUME NEW c \in Calls, Send(c) \/ Query(c) PROVE LaneInv'
  BY <1>1, <1>5 DEF Send, Query, Goto, Told, Places, host
<1>6. ASSUME NEW c \in Calls, Follow(c) \/ Read(c) \/ Create(c) \/ Reread(c) \/ Settle(c)
      PROVE  LaneInv'
  BY <1>1, <1>6
  DEF Follow, Read, Create, Reread, Settle, SettleFails, Heard, Goto, Told, Places, host
<1>7. ASSUME NEW h \in Hosts, Crash(h) PROVE LaneInv'
  BY <1>7 DEF Crash, LaneInv, InLane, Lane
<1>8. CASE UNCHANGED vars
  BY <1>8 DEF vars, host, LaneInv, InLane, Lane
<1>9. QED
  BY <1>2, <1>3, <1>4, <1>5, <1>6, <1>7, <1>8 DEF Next, CallStep

\* The types hold together with what they rest on.
LEMMA TypeInvariant == Spec => [](TypeOK /\ AwaitInv /\ LaneInv)
<1>1. Init => TypeOK /\ AwaitInv /\ LaneInv
  BY AdmissionAssumption DEF Init, TypeOK, Places, AwaitInv, LaneInv
<1>2. QED
  BY <1>1, TypeStep, AwaitStep, LaneStep, PTL DEF Spec

\* The maps of the service and the receipts stay in their types.
THEOREM AdmissionTypeCorrect == Spec => []TypeOK
BY TypeInvariant, PTL

-----------------------------------------------------------------------------
(* One command at a time in a lane.                                        *)

\* The serialized commands of a session run one at a time.
THEOREM LaneExclusive == Spec => []OneAtATime
<1>1. LaneInv => OneAtATime
  BY DEF LaneInv, OneAtATime, Lane, Serialized
<1>2. QED
  BY <1>1, TypeInvariant, PTL

-----------------------------------------------------------------------------
(* One effect of a command.                                                *)

\* Every step keeps the reservation with one call.
LEMMA ReserveStep == TypeOK /\ AwaitInv /\ ReserveInv /\ [Next]_vars => ReserveInv'
<1> SUFFICES ASSUME TypeOK, AwaitInv, ReserveInv, [Next]_vars PROVE ReserveInv'
  OBVIOUS
<1>0. ASSUME NEW c \in Calls PROVE HostOf[c] \in Hosts /\ CommandOf[c] \in Commands
  BY AdmissionAssumption
<1> USE DEF ReserveInv, AtMostOnce, Owning
<1>1. ASSUME NEW c \in Calls, NEW l \in Places, pc' = [pc EXCEPT ![c] = l],
             l \notin Owning \/ (pc[c] \in {"run", "settle"} /\ l = "settle"),
             UNCHANGED <<receipt, effects>>
      PROVE  ReserveInv'
  BY <1>0, <1>1 DEF TypeOK
<1>2. ASSUME NEW c \in Calls, Send(c) \/ Query(c) PROVE ReserveInv'
  BY <1>1, <1>2 DEF Send, Query, Goto, Told, Places
<1>3. ASSUME NEW c \in Calls, Follow(c) \/ Read(c) \/ Reread(c) PROVE ReserveInv'
  BY <1>1, <1>3 DEF Follow, Read, Reread, Heard, Goto, Told, Places
<1>4. ASSUME NEW c \in Calls, Create(c) PROVE ReserveInv'
  <2>1. CASE Receipt(c) = "none" /\ receipt' = [receipt EXCEPT ![CommandOf[c]] = "torn"]
             /\ Goto(c, "write")
    <3>1. /\ pc' = [pc EXCEPT ![c] = "write"] /\ UNCHANGED effects
          /\ receipt[CommandOf[c]] = "none" /\ receipt' = [receipt EXCEPT ![CommandOf[c]] = "torn"]
      BY <1>4, <2>1 DEF Create, Goto, Receipt
    <3>2. \A d \in Calls : CommandOf[d] = CommandOf[c] => pc[d] \notin Owning
      BY <3>1
    <3>3. effects[CommandOf[c]] = 0
      BY <1>0, <3>1
    <3>4. QED
      BY <1>0, <3>1, <3>2, <3>3 DEF TypeOK
  <2>2. CASE UNCHANGED receipt /\ (Goto(c, "reread") \/ Told(c, "storage"))
    BY <1>1, <1>4, <2>2 DEF Create, Goto, Told, Places
  <2>3. QED
    BY <1>4, <2>1, <2>2 DEF Create
<1>5. ASSUME NEW c \in Calls, Write(c) PROVE ReserveInv'
  <2>1. CASE receipt' = [receipt EXCEPT ![CommandOf[c]] = "pending"] /\ Goto(c, "lane")
    BY <1>0, <1>5, <2>1 DEF Write, Goto, At, TypeOK
  <2>2. CASE Told(c, "storage") /\ UNCHANGED receipt
    BY <1>1, <1>5, <2>2 DEF Write, Told, Places
  <2>3. QED
    BY <1>5, <2>1, <2>2 DEF Write
<1>6. ASSUME NEW c \in Calls, Dispatch(c) PROVE ReserveInv'
  <2>1. /\ pc[c] = "lane" /\ pc' = [pc EXCEPT ![c] = "run"] /\ UNCHANGED receipt
        /\ effects' = [effects EXCEPT ![CommandOf[c]] = @ + 1]
    BY <1>6 DEF Dispatch, At, Goto
  <2>2. effects[CommandOf[c]] = 0 /\ receipt[CommandOf[c]] # "none"
    BY <2>1
  <2>3. effects'[CommandOf[c]] = 1
    BY <1>0, <2>1, <2>2 DEF TypeOK
  <2>4. \A d \in Calls : d # c /\ CommandOf[d] = CommandOf[c] => pc[d] \notin Owning
    BY <2>1
  <2>5. QED
    BY <1>0, <2>1, <2>2, <2>3, <2>4 DEF TypeOK
<1>7. ASSUME NEW c \in Calls, Return(c) PROVE ReserveInv'
  BY <1>1, <1>7 DEF Return, At, Goto, Told, Places
<1>8. ASSUME NEW c \in Calls, Settle(c) PROVE ReserveInv'
  <2>1. pc' = [pc EXCEPT ![c] = "done"] /\ UNCHANGED effects
    BY <1>8 DEF Settle, SettleFails, Told
  <2>2. \/ UNCHANGED receipt
        \/ /\ receipt' = [receipt EXCEPT ![CommandOf[c]] = outcome[CommandOf[c]]]
           /\ outcome[CommandOf[c]] # "none"
    BY <1>8 DEF Settle, SettleFails, At, AwaitInv, Outcomes
  <2>3. QED
    BY <1>0, <2>1, <2>2 DEF TypeOK
<1>9. ASSUME NEW h \in Hosts, Crash(h) PROVE ReserveInv'
  BY <1>9 DEF Crash
<1>10. CASE UNCHANGED vars
  BY <1>10 DEF vars
<1>11. QED
  BY <1>2, <1>3, <1>4, <1>5, <1>6, <1>7, <1>8, <1>9, <1>10 DEF Next, CallStep

\* One call of a command holds the reservation that ledger.reserve makes.
LEMMA ReserveInvariant == Spec => []ReserveInv
<1>1. Init => ReserveInv
  BY DEF Init, ReserveInv, AtMostOnce, Owning
<1>2. QED
  BY <1>1, ReserveStep, TypeInvariant, PTL DEF Spec

\* A command has its effects at most once, over all Hosts, calls and crashes.
THEOREM EffectsOnce == Spec => []AtMostOnce
<1>1. ReserveInv => AtMostOnce
  BY DEF ReserveInv
<1>2. QED
  BY <1>1, ReserveInvariant, PTL

-----------------------------------------------------------------------------
(* What the renderer is told.                                              *)

\* Every step keeps what is told, noted and awaited true of the one dispatch.
LEMMA OutcomeStep ==
  TypeOK /\ TypeOK' /\ AwaitInv /\ ReserveInv /\ OutcomeInv /\ [Next]_vars => OutcomeInv'
<1> SUFFICES ASSUME TypeOK, TypeOK', AwaitInv, ReserveInv, OutcomeInv, [Next]_vars
             PROVE  OutcomeInv'
  OBVIOUS
<1>0. ASSUME NEW c \in Calls PROVE HostOf[c] \in Hosts /\ CommandOf[c] \in Commands
  BY AdmissionAssumption
<1> USE DEF OutcomeInv, AnswersTruthful, Outcomes
<1>1. ASSUME NEW c \in Calls, NEW l \in Places \ {"write", "lane", "run"},
             pc' = [pc EXCEPT ![c] = l], UNCHANGED <<receipt, outcome, results, answer>>
      PROVE  OutcomeInv'
  BY <1>0, <1>1 DEF TypeOK
<1>2. ASSUME NEW c \in Calls, NEW a \in Answers, Told(c, a),
             UNCHANGED <<receipt, outcome, results>>,
             a \in {"accepted", "duplicate"} => outcome[CommandOf[c]] = "accepted",
             a = "failed" => outcome[CommandOf[c]] = "failed"
      PROVE  OutcomeInv'
  BY <1>0, <1>2 DEF Told, TypeOK
<1>3. ASSUME NEW c \in Calls, Send(c) \/ Query(c) PROVE OutcomeInv'
  <2>1. CASE UNCHANGED results
    BY <1>1, <1>2, <1>3, <2>1 DEF Send, Query, Goto, Places, Answers, host
  <2>2. CASE results' = [results EXCEPT ![HostOf[c]][CommandOf[c]] = c] /\ Goto(c, "read")
    <3>1. UNCHANGED <<receipt, outcome>>
      BY <1>3 DEF Send, Query, host
    <3>2. \A h \in Hosts, k \in Commands : results'[h][k] = results[h][k]
             \/ (k = CommandOf[c] /\ results'[h][k] = c)
      <4>1. c \in Calls \cup {None} /\ results \in [Hosts -> [Commands -> Calls \cup {None}]]
        BY DEF TypeOK
      <4>2. QED
        BY <1>0, <2>2, <4>1, OneEntry
    <3>3. UNCHANGED answer /\ pc' = [pc EXCEPT ![c] = "read"]
      BY <2>2 DEF Goto
    <3>4. QED
      BY <1>0, <3>1, <3>2, <3>3 DEF TypeOK
  <2>3. QED
    BY <1>3, <2>1, <2>2 DEF Send, Query, host
<1>4. ASSUME NEW c \in Calls, Follow(c) PROVE OutcomeInv'
  <2>1. First(c) \in Calls /\ CommandOf[First(c)] = CommandOf[c]
    BY <1>0, <1>4 DEF Follow, At, AwaitInv, First, TypeOK
  <2>2. Again(c, answer[First(c)]) \in Answers
    BY <1>4, <2>1 DEF Follow, Again, Answers, TypeOK
  <2>3. /\ Again(c, answer[First(c)]) \in {"accepted", "duplicate"} => outcome[CommandOf[c]] = "accepted"
        /\ Again(c, answer[First(c)]) = "failed" => outcome[CommandOf[c]] = "failed"
    BY <2>1 DEF Again
  <2>4. QED
    BY <1>2, <1>4, <2>2, <2>3 DEF Follow, host
<1>5. ASSUME NEW c \in Calls, Heard(c), UNCHANGED <<receipt, outcome, results>> PROVE OutcomeInv'
  <2>1. CASE Receipt(c) \in Outcomes /\ Told(c, Again(c, Receipt(c)))
    <3>1. Receipt(c) = outcome[CommandOf[c]]
      BY <1>0, <2>1 DEF Receipt
    <3>2. Again(c, Receipt(c)) \in Answers
      BY <2>1 DEF Again, Answers
    <3>3. QED
      BY <1>2, <1>5, <2>1, <3>1, <3>2 DEF Again
  <2>2. CASE Told(c, "unknown")
    BY <1>2, <1>5, <2>2 DEF Answers
  <2>3. QED
    BY <1>5, <2>1, <2>2 DEF Heard
<1>6. ASSUME NEW c \in Calls, Read(c) \/ Reread(c) PROVE OutcomeInv'
  <2>1. UNCHANGED <<receipt, outcome, results>>
    BY <1>6 DEF Read, Reread, host
  <2>2. CASE Goto(c, "create")
    BY <1>1, <2>1, <2>2 DEF Goto, Places
  <2>3. ASSUME NEW a \in {"unseen", "storage"}, Told(c, a) PROVE OutcomeInv'
    BY <1>2, <2>1, <2>3 DEF Answers
  <2>4. QED
    BY <1>5, <1>6, <2>1, <2>2, <2>3 DEF Read, Reread
<1>7. ASSUME NEW c \in Calls, Create(c) PROVE OutcomeInv'
  <2>1. CASE receipt[CommandOf[c]] = "none" /\ Goto(c, "write")
             /\ receipt' = [receipt EXCEPT ![CommandOf[c]] = "torn"]
    <3>1. outcome[CommandOf[c]] = None /\ UNCHANGED <<outcome, results>>
      BY <1>0, <1>7, <2>1 DEF Create, host
    <3>2. QED
      BY <1>0, <2>1, <3>1 DEF Goto, TypeOK
  <2>2. CASE UNCHANGED receipt /\ Goto(c, "reread")
    BY <1>1, <1>7, <2>2 DEF Create, Goto, Places, host
  <2>3. CASE UNCHANGED receipt /\ Told(c, "storage")
    BY <1>2, <1>7, <2>3 DEF Create, Answers, host
  <2>4. QED
    BY <1>7, <2>1, <2>2, <2>3 DEF Create, Receipt
<1>8. ASSUME NEW c \in Calls, Write(c) PROVE OutcomeInv'
  <2>1. CASE receipt' = [receipt EXCEPT ![CommandOf[c]] = "pending"] /\ Goto(c, "lane")
    <3>1. outcome[CommandOf[c]] = None /\ UNCHANGED <<outcome, results>>
      BY <1>8 DEF Write, At
    <3>2. QED
      BY <1>0, <2>1, <3>1 DEF Goto, TypeOK
  <2>2. CASE UNCHANGED receipt /\ Told(c, "storage")
    BY <1>2, <1>8, <2>2 DEF Write, Answers
  <2>3. QED
    BY <1>8, <2>1, <2>2 DEF Write
<1>9. ASSUME NEW c \in Calls, Dispatch(c) PROVE OutcomeInv'
  <2>1. /\ outcome[CommandOf[c]] = None /\ pc' = [pc EXCEPT ![c] = "run"]
        /\ UNCHANGED <<outcome, results, receipt, answer>>
    BY <1>9 DEF Dispatch, At, Goto, host
  <2>2. QED
    BY <1>0, <2>1 DEF TypeOK
<1>10. ASSUME NEW c \in Calls, Return(c) PROVE OutcomeInv'
  <2>1. /\ pc[c] = "run" /\ outcome[CommandOf[c]] = None /\ UNCHANGED <<results, receipt>>
        /\ \E o \in Outcomes : outcome' = [outcome EXCEPT ![CommandOf[c]] = o]
    BY <1>10 DEF Return, At
  <2>2. PICK l \in {"settle", "done"} : pc' = [pc EXCEPT ![c] = l]
    BY <1>10 DEF Return, Goto, Told
  <2>3. answer' = answer \/ answer' = [answer EXCEPT ![c] = "rejected"]
    BY <1>10 DEF Return, Goto, Told
  <2>4. \A d \in Calls : d # c /\ CommandOf[d] = CommandOf[c] => pc[d] \notin Owning
    BY <2>1 DEF ReserveInv, Owning
  <2>5. receipt[CommandOf[c]] \notin Outcomes \cup {"none"}
    BY <1>0, <2>1, AdmissionAssumption DEF ReserveInv, Owning, TypeOK, Answers
  <2>6. \A d \in Calls : CommandOf[d] = CommandOf[c] =>
           answer[d] \notin {"accepted", "duplicate", "failed"}
    BY <2>1, AdmissionAssumption DEF OutcomeInv, AnswersTruthful, Outcomes, Answers
  <2>7. QED
    BY <1>0, <2>1, <2>2, <2>3, <2>4, <2>5, <2>6 DEF TypeOK, Owning
<1>11. ASSUME NEW c \in Calls, Settle(c) PROVE OutcomeInv'
  <2>1. outcome[CommandOf[c]] \in Outcomes /\ UNCHANGED <<outcome, results>>
    BY <1>11 DEF Settle, At, AwaitInv, host
  <2>2. CASE SettleFails(c)
    BY <1>2, <2>1, <2>2 DEF SettleFails, Answers
  <2>3. CASE receipt' = [receipt EXCEPT ![CommandOf[c]] = outcome[CommandOf[c]]]
             /\ Told(c, outcome[CommandOf[c]])
    BY <1>0, <2>1, <2>3 DEF Told, TypeOK
  <2>4. QED
    BY <1>11, <2>2, <2>3 DEF Settle
<1>12. ASSUME NEW h \in Hosts, Crash(h) PROVE OutcomeInv'
  BY <1>12 DEF Crash
<1>13. CASE UNCHANGED vars
  BY <1>13 DEF vars, host
<1>14. QED
  BY <1>3, <1>4, <1>6, <1>7, <1>8, <1>9, <1>10, <1>11, <1>12, <1>13 DEF Next, CallStep

\* Receipts, first calls and answers agree with the one dispatch.
LEMMA OutcomeInvariant == Spec => []OutcomeInv
<1>1. Init => OutcomeInv
  BY AdmissionAssumption DEF Init, OutcomeInv, AnswersTruthful, Outcomes, Answers
<1>2. QED
  BY <1>1, OutcomeStep, TypeInvariant, ReserveInvariant, PTL DEF Spec

\* "accepted", "duplicate" and "failed" are said only when it is so.
THEOREM TruthfulAnswers == Spec => []AnswersTruthful
<1>1. OutcomeInv => AnswersTruthful
  BY DEF OutcomeInv
<1>2. QED
  BY <1>1, OutcomeInvariant, PTL

=============================================================================
