-------------------------- MODULE PiFeedAndAuthProofs --------------------------
(***************************************************************************)
(* Proofs about PiFeed, for any number of messages, records and commands:  *)
(* when everything has come to rest, the projection is the history of Pi,  *)
(* a settled read takes no newer message away, and the deltas sent rebuild *)
(* the rows.                                                               *)
(*                                                                         *)
(* Proofs about PiAuth, for any number of calls and inputs: operations on  *)
(* the credentials exclude each other, tell the truth about what they have *)
(* changed, and have the session to themselves while they synchronize it;  *)
(* and about PiAuthCatalog, for any number of views and starts: a start    *)
(* never goes on with a catalog that was read before its call.             *)
(***************************************************************************)
EXTENDS PiFeed, PiAuth, PiAuthCatalog, FiniteSetTheorems, SequenceTheorems, NaturalsInduction, WellFoundedInduction,
        TLAPS

-----------------------------------------------------------------------------
(* The rows and the history, for any number of messages and records.       *)

Msg == [n : Nat, role : Roles, size : Nat]

\* A projection knows messages and has one id for each.
IsRows(p) ==
  /\ p \in [messages : Seq(Msg), active : Nat, ids : {p.ids}, next : {p.next}]
  /\ p.active \in 0 .. Len(p.messages)
  /\ DOMAIN p.ids = DOMAIN p.messages

\* Building the rows gives ids and leaves the messages as they are.
LEMMA BuiltRows ==
  ASSUME NEW p, IsRows(p)
  PROVE  IsRows(Built(p)) /\ Built(p).messages = p.messages /\ Built(p).active = p.active
<1> DEFINE new  == {i \in DOMAIN p.messages : HasRow(p.messages[i]) /\ p.ids[i] = 0}
           rank(i) == Cardinality({j \in new : j < i})
           ids == [i \in DOMAIN p.messages |-> IF i \in new THEN p.next + rank(i) ELSE p.ids[i]]
           next == p.next + Cardinality(new)
           q == [p EXCEPT !.ids = ids, !.next = next]
<1>1. Built(p) = q
  BY DEF Built
<1>2. DOMAIN ids = DOMAIN p.messages
  OBVIOUS
<1> HIDE DEF new, rank, ids, next
<1>3. IsRows(q) /\ q.messages = p.messages /\ q.active = p.active
  BY <1>2 DEF IsRows
<1> HIDE DEF q
<1> QED BY <1>1, <1>3

\* A message that begins comes after the others.
LEMMA StartedRows ==
  ASSUME NEW p, IsRows(p), NEW m \in Msg
  PROVE  IsRows(Started(p, m)) /\ Started(p, m).messages = Append(p.messages, m)
<1> DEFINE more == Append(p.messages, m)
           ids == Append(p.ids, 0)
           q == [p EXCEPT !.messages = more, !.ids = ids, !.active = Len(p.messages) + 1]
<1>1. /\ more \in Seq(Msg) /\ Len(more) = Len(p.messages) + 1 /\ Len(p.messages) \in Nat
      /\ DOMAIN more = 1 .. Len(p.messages) + 1
  BY AppendProperties DEF IsRows
<1>2. DOMAIN ids = 1 .. Len(p.messages) + 1
  <2>1. DOMAIN p.ids = 1 .. Len(p.messages)
    BY DEF IsRows
  <2>2. Len(p.ids) = Len(p.messages)
    BY <1>1, <2>1
  <2> QED BY <1>1, <2>2
<1>3. Started(p, m) = Built(q)
  BY DEF Started, IsRows
<1> HIDE DEF more, ids
<1>4. IsRows(q) /\ q.messages = more
  <2>1. /\ q \in [messages : Seq(Msg), active : Nat, ids : {q.ids}, next : {q.next}]
        /\ q.messages = more /\ q.ids = ids /\ q.active = Len(p.messages) + 1
    <3>1. /\ p \in [messages : Seq(Msg), active : Nat, ids : {p.ids}, next : {p.next}]
          /\ Len(p.messages) + 1 \in Nat
      BY <1>1 DEF IsRows
    <3>2. q.messages = more /\ q.ids = ids /\ q.active = Len(p.messages) + 1 /\ q.next = p.next
      BY <3>1
    <3>3. q \in [messages : {more}, active : {Len(p.messages) + 1}, ids : {ids}, next : {p.next}]
      BY <3>1
    <3> HIDE DEF q
    <3> QED BY <1>1, <3>1, <3>2, <3>3
  <2> HIDE DEF q
  <2> QED BY <1>1, <1>2, <2>1 DEF IsRows
<1> HIDE DEF q
<1> QED BY <1>3, <1>4, BuiltRows DEF more

\* Text that streams changes the size of a message and no other.
LEMMA StreamedRows ==
  ASSUME NEW p, IsRows(p)
  PROVE  /\ IsRows(Streamed(p))
         /\ Len(Streamed(p).messages) = Len(p.messages)
         /\ \A i \in DOMAIN p.messages : Streamed(p).messages[i].n = p.messages[i].n
<1>1. CASE p.active = 0 \/ p.messages[p.active].role # "assistant"
  BY <1>1 DEF Streamed
<1>2. CASE ~(p.active = 0 \/ p.messages[p.active].role # "assistant")
  <2> DEFINE more == [p.messages EXCEPT ![p.active].size = @ + 1]
             q == [p EXCEPT !.messages = more]
  <2>1. Streamed(p) = Built(q)
    BY <1>2 DEF Streamed, IsRows
  <2>2. /\ p.active \in 1 .. Len(p.messages) /\ Len(p.messages) \in Nat
        /\ DOMAIN p.messages = 1 .. Len(p.messages) /\ p.messages[p.active] \in Msg
    BY <1>2 DEF IsRows
  <2>3. /\ [p.messages[p.active] EXCEPT !.size = @ + 1] \in Msg
        /\ [p.messages[p.active] EXCEPT !.size = @ + 1].n = p.messages[p.active].n
    BY <2>2 DEF Msg
  <2>4. /\ more \in Seq(Msg) /\ Len(more) = Len(p.messages) /\ DOMAIN more = DOMAIN p.messages
        /\ \A i \in DOMAIN p.messages : more[i].n = p.messages[i].n
    <3>1. p.messages \in Seq(Msg)
      BY DEF IsRows
    <3>2. \A i \in DOMAIN p.messages : more[i] \in Msg /\ more[i].n = p.messages[i].n
      BY <2>2, <2>3, <3>1
    <3>3. DOMAIN more = 1 .. Len(p.messages)
      BY <2>2
    <3>4. more \in [1 .. Len(p.messages) -> Msg]
      BY <2>2, <3>2
    <3> HIDE DEF more
    <3> QED BY <2>2, <3>2, <3>3, <3>4
  <2> HIDE DEF more
  <2>5. IsRows(q) /\ q.messages = more
    <3>1. /\ q \in [messages : Seq(Msg), active : Nat, ids : {q.ids}, next : {q.next}]
          /\ q.messages = more /\ q.ids = p.ids /\ q.active = p.active
      BY <2>4 DEF IsRows
    <3> HIDE DEF q
    <3> QED BY <2>2, <2>4, <3>1 DEF IsRows
  <2> HIDE DEF q
  <2>6. IsRows(Built(q)) /\ Built(q).messages = more
    BY <2>5, BuiltRows
  <2> QED BY <2>1, <2>4, <2>6
<1> QED BY <1>1, <1>2

\* A message that ends takes its place, or the last one.
LEMMA FinishedRows ==
  ASSUME NEW p, IsRows(p), NEW m \in Msg
  PROVE  /\ IsRows(Finished(p, m))
         /\ ToSet(Finished(p, m).messages) \subseteq ToSet(p.messages) \cup {m}
<1>0. p.messages \in Seq(Msg) /\ Len(p.messages) \in Nat /\ DOMAIN p.messages = 1 .. Len(p.messages)
  BY DEF IsRows
<1>1. CASE p.active = 0
  <2> DEFINE more == Append(p.messages, m)
             ids == Append(p.ids, 0)
             q == [p EXCEPT !.messages = more, !.ids = ids]
  <2>1. /\ more \in Seq(Msg) /\ Len(more) = Len(p.messages) + 1
        /\ DOMAIN more = 1 .. Len(p.messages) + 1
        /\ \A i \in 1 .. Len(p.messages) : more[i] = p.messages[i]
        /\ more[Len(p.messages) + 1] = m
    BY <1>0, AppendProperties
  <2>2. DOMAIN ids = 1 .. Len(p.messages) + 1
    <3>1. DOMAIN p.ids = 1 .. Len(p.messages)
      BY <1>0 DEF IsRows
    <3>2. Len(p.ids) = Len(p.messages)
      BY <1>0, <3>1
    <3> QED BY <1>0, <3>2
  <2>3. Finished(p, m) = Built(q)
    BY <1>1 DEF Finished, IsRows
  <2> HIDE DEF more, ids
  <2>4. ToSet(more) \subseteq ToSet(p.messages) \cup {m}
    <3>1. \A i \in 1 .. Len(p.messages) + 1 : i \in 1 .. Len(p.messages) \/ i = Len(p.messages) + 1
      BY <1>0
    <3> QED BY <1>0, <2>1, <3>1 DEF ToSet
  <2>5. IsRows(q) /\ q.messages = more
    <3>1. /\ q \in [messages : Seq(Msg), active : Nat, ids : {q.ids}, next : {q.next}]
          /\ q.messages = more /\ q.ids = ids /\ q.active = 0
      BY <1>1, <2>1 DEF IsRows
    <3> HIDE DEF q
    <3> QED BY <1>0, <2>1, <2>2, <3>1 DEF IsRows
  <2> HIDE DEF q
  <2> QED BY <2>3, <2>4, <2>5, BuiltRows
<1>2. CASE p.active # 0
  <2> DEFINE more == [p.messages EXCEPT ![p.active] = m]
             q == [p EXCEPT !.messages = more, !.active = 0]
  <2>1. Finished(p, m) = Built(q)
    BY <1>2 DEF Finished, IsRows
  <2>2. p.active \in 1 .. Len(p.messages)
    BY <1>2 DEF IsRows
  <2>3. /\ more \in Seq(Msg) /\ Len(more) = Len(p.messages) /\ DOMAIN more = DOMAIN p.messages
        /\ \A i \in DOMAIN p.messages : more[i] = p.messages[i] \/ more[i] = m
    BY <1>0, <2>2
  <2> HIDE DEF more
  <2>4. ToSet(more) \subseteq ToSet(p.messages) \cup {m}
    BY <2>3 DEF ToSet
  <2>5. IsRows(q) /\ q.messages = more
    <3>1. /\ q \in [messages : Seq(Msg), active : Nat, ids : {q.ids}, next : {q.next}]
          /\ q.messages = more /\ q.ids = p.ids /\ q.active = 0
      BY <2>3 DEF IsRows
    <3> HIDE DEF q
    <3> QED BY <1>0, <2>3, <3>1 DEF IsRows
  <2> HIDE DEF q
  <2> QED BY <2>1, <2>4, <2>5, BuiltRows
<1> QED BY <1>1, <1>2

\* A read of the history makes its messages those of the projection.
LEMMA ReconciledRows ==
  ASSUME NEW p, IsRows(p), NEW read \in Seq(Msg)
  PROVE  IsRows(Reconciled(p, read)) /\ Reconciled(p, read).messages = read
<1> DEFINE ids == IF SamePositions(read, p.messages) THEN p.ids ELSE [i \in DOMAIN read |-> 0]
           q == [messages |-> read, active |-> 0, next |-> p.next, ids |-> ids]
<1>1. Reconciled(p, read) = Built(q)
  BY DEF Reconciled
<1>2. DOMAIN ids = DOMAIN read
  BY DEF SamePositions, IsRows
<1> HIDE DEF ids
<1>3. IsRows(q) /\ q.messages = read
  BY <1>2 DEF IsRows
<1> HIDE DEF q
<1> QED BY <1>1, <1>3, BuiltRows
-----------------------------------------------------------------------------
(* Sequences of the feed.                                                  *)

\* One more at the end.
LEMMA OneMore ==
  ASSUME NEW S, NEW s \in Seq(S), NEW e \in S
  PROVE  /\ Append(s, e) \in Seq(S) /\ Len(s) \in Nat /\ DOMAIN s = 1 .. Len(s)
         /\ Len(Append(s, e)) = Len(s) + 1 /\ DOMAIN Append(s, e) = 1 .. Len(s) + 1
         /\ \A i \in 1 .. Len(s) : Append(s, e)[i] = s[i]
         /\ Append(s, e)[Len(s) + 1] = e
         /\ ToSet(Append(s, e)) = ToSet(s) \cup {e}
<1>1. /\ Append(s, e) \in Seq(S) /\ Len(s) \in Nat /\ DOMAIN s = 1 .. Len(s)
      /\ Len(Append(s, e)) = Len(s) + 1 /\ DOMAIN Append(s, e) = 1 .. Len(s) + 1
      /\ \A i \in 1 .. Len(s) : Append(s, e)[i] = s[i]
      /\ Append(s, e)[Len(s) + 1] = e
  BY AppendProperties
<1> DEFINE t == Append(s, e)
           n == Len(s)
<1> HIDE DEF t, n
<1>2. ToSet(t) = ToSet(s) \cup {e}
  <2>1. /\ DOMAIN s = 1 .. n /\ DOMAIN t = 1 .. n + 1 /\ n \in Nat
        /\ \A i \in 1 .. n : t[i] = s[i]
        /\ t[n + 1] = e
    BY <1>1 DEF t, n
  <2>2. \A i \in 1 .. n + 1 : i \in 1 .. n \/ i = n + 1
    BY <2>1
  <2>3. \A i \in 1 .. n : i \in 1 .. n + 1
    BY <2>1
  <2>4. n + 1 \in 1 .. n + 1
    BY <2>1
  <2> QED BY <2>1, <2>2, <2>3, <2>4 DEF ToSet
<1> QED BY <1>1, <1>2 DEF t

\* The first is gone, the others move up.
LEMMA FirstGone ==
  ASSUME NEW S, NEW s \in Seq(S), s # <<>>
  PROVE  /\ Tail(s) \in Seq(S) /\ Len(s) \in Nat /\ Len(s) > 0 /\ DOMAIN s = 1 .. Len(s)
         /\ Len(Tail(s)) = Len(s) - 1 /\ DOMAIN Tail(s) = 1 .. Len(s) - 1
         /\ \A i \in 1 .. Len(s) - 1 : Tail(s)[i] = s[i + 1]
         /\ Head(s) = s[1] /\ 1 \in DOMAIN s
OBVIOUS

\* The last is gone.
LEMMA LastGone ==
  ASSUME NEW S, NEW s \in Seq(S), s # <<>>
  PROVE  Front(s) \in Seq(S) /\ ToSet(Front(s)) \subseteq ToSet(s)
<1>1. /\ Len(s) \in Nat /\ Len(s) > 0 /\ DOMAIN s = 1 .. Len(s)
  OBVIOUS
<1>2. /\ Front(s) \in Seq(S) /\ Len(Front(s)) = Len(s) - 1
      /\ \A i \in 1 .. Len(s) - 1 : Front(s)[i] = s[i]
  BY <1>1, SubSeqProperties DEF Front
<1> HIDE DEF Front
<1>3. DOMAIN Front(s) = 1 .. Len(s) - 1
  BY <1>1, <1>2
<1>4. \A i \in 1 .. Len(s) - 1 : i \in 1 .. Len(s)
  BY <1>1
<1> QED BY <1>1, <1>2, <1>3, <1>4 DEF ToSet

\* A job, with whatever deltas it holds.
JobSet(deltas) ==
  [version : Nat, generation : Nat, stage : {"queued", "reading", "saving"}, deltas : deltas]

IsJobs(js) == \E D : js \in Seq(JobSet(D))

\* What a sequence of jobs holds.
LEMMA JobsAre ==
  ASSUME NEW js, IsJobs(js)
  PROVE  /\ Len(js) \in Nat /\ DOMAIN js = 1 .. Len(js)
         /\ js = <<>> <=> Len(js) = 0
         /\ js # <<>> => Len(js) > 0 /\ Head(js) = js[1] /\ 1 \in DOMAIN js
         /\ \A k \in DOMAIN js : /\ js[k] \in JobSet({js[k].deltas})
                                 /\ js[k].version \in Nat /\ js[k].generation \in Nat
<1>1. PICK D : js \in Seq(JobSet(D))
  BY DEF IsJobs
<1>2. \A k \in DOMAIN js : js[k] \in JobSet(D)
  BY <1>1
<1>3. \A k \in DOMAIN js : /\ js[k] \in JobSet({js[k].deltas})
                           /\ js[k].version \in Nat /\ js[k].generation \in Nat
  BY <1>2 DEF JobSet
<1> DEFINE S == JobSet(D)
<1> HIDE DEF S
<1>4. js \in Seq(S)
  BY <1>1 DEF S
<1>5. /\ Len(js) \in Nat /\ DOMAIN js = 1 .. Len(js)
      /\ js = <<>> <=> Len(js) = 0
  BY <1>4
<1>6. js # <<>> => Len(js) > 0 /\ Head(js) = js[1] /\ 1 \in DOMAIN js
  BY <1>4, FirstGone
<1> QED BY <1>3, <1>5, <1>6

\* Jobs with other deltas are jobs.
LEMMA MoreDeltas ==
  ASSUME NEW D, NEW E, D \subseteq E, NEW js \in Seq(JobSet(D))
  PROVE  js \in Seq(JobSet(E))
<1>1. \A j \in JobSet(D) : j \in JobSet(E)
  BY DEF JobSet
<1> QED BY <1>1

\* One more job in the queue.
LEMMA JobsMore ==
  ASSUME NEW js, IsJobs(js), NEW j, j \in JobSet({j.deltas})
  PROVE  /\ IsJobs(Append(js, j))
         /\ Len(Append(js, j)) = Len(js) + 1 /\ DOMAIN Append(js, j) = 1 .. Len(js) + 1
         /\ \A k \in 1 .. Len(js) : Append(js, j)[k] = js[k]
         /\ Append(js, j)[Len(js) + 1] = j
         /\ Append(js, j) # <<>>
<1>1. PICK D : js \in Seq(JobSet(D))
  BY DEF IsJobs
<1> DEFINE E == D \cup {j.deltas}
<1>2. js \in Seq(JobSet(E)) /\ j \in JobSet(E)
  <2>1. js \in Seq(JobSet(E))
    BY <1>1, MoreDeltas
  <2>2. j \in JobSet(E)
    BY DEF JobSet
  <2> QED BY <2>1, <2>2
<1> DEFINE S == JobSet(E)
           t == Append(js, j)
<1>3. js \in Seq(S) /\ j \in S
  BY <1>2
<1> HIDE DEF E, S, t
<1>4. /\ t \in Seq(S) /\ Len(js) \in Nat
      /\ Len(t) = Len(js) + 1 /\ DOMAIN t = 1 .. Len(js) + 1
      /\ \A k \in 1 .. Len(js) : t[k] = js[k]
      /\ t[Len(js) + 1] = j
  BY <1>3, OneMore DEF t
<1>5. t # <<>>
  BY <1>4
<1>6. IsJobs(t)
  BY <1>4 DEF IsJobs, S
<1> QED BY <1>4, <1>5, <1>6 DEF t

\* The first job is over.
LEMMA JobsTail ==
  ASSUME NEW js, IsJobs(js), js # <<>>
  PROVE  /\ IsJobs(Tail(js))
         /\ Len(js) > 0 /\ Len(Tail(js)) = Len(js) - 1 /\ DOMAIN Tail(js) = 1 .. Len(js) - 1
         /\ \A k \in 1 .. Len(js) - 1 : Tail(js)[k] = js[k + 1]
         /\ Tail(js) = <<>> <=> Len(js) = 1
<1>1. PICK D : js \in Seq(JobSet(D))
  BY DEF IsJobs
<1>2. Tail(js) \in Seq(JobSet(D))
  BY <1>1
<1> DEFINE S == JobSet(D)
<1>3. js \in Seq(S) /\ Tail(js) \in Seq(S)
  BY <1>1, <1>2
<1>4. IsJobs(Tail(js))
  BY <1>2 DEF IsJobs
<1> HIDE DEF S
<1>5. /\ Len(js) > 0 /\ Len(js) \in Nat /\ Len(Tail(js)) = Len(js) - 1
      /\ DOMAIN Tail(js) = 1 .. Len(js) - 1
      /\ \A k \in 1 .. Len(js) - 1 : Tail(js)[k] = js[k + 1]
  BY <1>3, FirstGone
<1>6. Tail(js) = <<>> <=> Len(Tail(js)) = 0
  <2> DEFINE t == Tail(js)
  <2>1. t \in Seq(S)
    BY <1>3
  <2> HIDE DEF t
  <2>2. t = <<>> <=> Len(t) = 0
    BY <2>1
  <2> QED BY <2>2 DEF t
<1> QED BY <1>4, <1>5, <1>6

\* The first job goes on.
LEMMA JobsFirst ==
  ASSUME NEW js, IsJobs(js), js # <<>>, NEW j, j \in JobSet({j.deltas})
  PROVE  /\ IsJobs([js EXCEPT ![1] = j]) /\ [js EXCEPT ![1] = j] # <<>>
         /\ Len([js EXCEPT ![1] = j]) = Len(js) /\ DOMAIN [js EXCEPT ![1] = j] = DOMAIN js
         /\ [js EXCEPT ![1] = j][1] = j
         /\ \A k \in DOMAIN js : k # 1 => [js EXCEPT ![1] = j][k] = js[k]
<1>1. PICK D : js \in Seq(JobSet(D))
  BY DEF IsJobs
<1> DEFINE E == D \cup {j.deltas}
           t == [js EXCEPT ![1] = j]
<1>2. js \in Seq(JobSet(E)) /\ j \in JobSet(E)
  <2>1. js \in Seq(JobSet(E))
    BY <1>1, MoreDeltas
  <2>2. j \in JobSet(E)
    BY DEF JobSet
  <2> QED BY <2>1, <2>2
<1> HIDE DEF E
<1>3. /\ t \in Seq(JobSet(E)) /\ Len(t) = Len(js) /\ DOMAIN t = DOMAIN js /\ 1 \in DOMAIN js
  BY <1>2
<1>4. /\ t[1] = j
      /\ \A k \in DOMAIN js : k # 1 => t[k] = js[k]
  BY <1>3
<1>5. t # <<>>
  BY <1>2, <1>3
<1> QED BY <1>3, <1>4, <1>5 DEF IsJobs

-----------------------------------------------------------------------------
(* What the service has still to read.                                     *)

ReadSet == [for : {"shell", "settled"}, answered : BOOLEAN, messages : Seq(Msg)]

FeedTypes ==
  /\ history \in Seq(Msg)
  /\ current = <<>> \/ \E m \in Msg : current = <<m>>
  /\ running \in BOOLEAN /\ count \in 0 .. MaxMessages
  /\ phase \in Phases /\ commands \in 0 .. MaxCommands
  /\ version \in 0 .. MaxRecords /\ generation \in Nat /\ settledAt \in Nat
  /\ IsRows(projection) /\ IsJobs(jobs) /\ reads \in Seq(ReadSet)

Below(messages, limit) == \A m \in ToSet(messages) : m.n <= limit
Without(messages, n) == \A m \in ToSet(messages) : m.n # n

\* Numbers are given once: none known is above the count, and nobody has read
\* the message that streams.
NumbersInv ==
  /\ Below(history, count) /\ Below(current, count) /\ Below(projection.messages, count)
  /\ \A i \in DOMAIN reads : Below(reads[i].messages, count)
  /\ current # <<>> =>
       /\ Without(history, current[1].n)
       /\ \A i \in DOMAIN reads : Without(reads[i].messages, current[1].n)

\* Who is where: the first job alone has left the queue, it reads while a settled
\* read is under way, the last one is of the last run that settled, and
\* answers come in order.
PlacesInv ==
  /\ current # <<>> => running
  /\ settledAt <= generation
  /\ phase \in {"accepted", "running"} => generation # settledAt
  /\ \A k \in DOMAIN jobs : /\ jobs[k].generation <= settledAt /\ jobs[k].version <= version
                            /\ k > 1 => jobs[k].stage = "queued"
  /\ jobs # <<>> => jobs[Len(jobs)].generation = settledAt
  /\ \A i \in DOMAIN reads : reads[i].for = "settled" => jobs # <<>> /\ jobs[1].stage = "reading"
  /\ \A i, j \in DOMAIN reads : reads[i].for = "settled" /\ reads[j].for = "settled" => i = j
  /\ \A i, j \in DOMAIN reads : i < j /\ reads[j].answered => reads[i].answered

Queued == \E k \in DOMAIN jobs : jobs[k].stage = "queued"
Pending == \E k \in DOMAIN jobs : jobs[k].stage \in {"queued", "reading"}

\* An answer that is no longer the history will not be the last: Pi runs, a
\* later read is under way, or a job has still to read.
AnswersInv ==
  \A i \in DOMAIN reads :
    reads[i].answered /\ reads[i].messages # history =>
      running \/ Queued \/ \E j \in DOMAIN reads : i < j

\* A projection that is not the history will be read again, or the exception
\* is marked.
CoverInv ==
  projection.messages # history =>
    \/ running \/ unread \/ givenUp \/ generation # settledAt
    \/ Pending \/ \E i \in DOMAIN reads : reads[i].for = "shell"

\* Later answers have what is left of earlier ones.
LaterInv ==
  \A i, j \in DOMAIN reads : i < j /\ reads[j].answered =>
    ToSet(reads[i].messages) \cap ToSet(history) \subseteq ToSet(reads[j].messages)

\* As long as no record came, the answer has what is left of the projection.
NewestInv ==
  \A i \in DOMAIN reads :
    reads[i].for = "settled" /\ reads[i].answered /\ jobs[1].version = version =>
      ToSet(projection.messages) \cap ToSet(history) \subseteq ToSet(reads[i].messages)

FeedInv ==
  FeedTypes /\ NumbersInv /\ PlacesInv /\ AnswersInv /\ CoverInv /\ LaterInv /\ NewestInv

\* The reads are a sequence of reads.
LEMMA ReadsAre ==
  ASSUME FeedTypes
  PROVE  /\ Len(reads) \in Nat /\ DOMAIN reads = 1 .. Len(reads)
         /\ \A i \in DOMAIN reads : /\ reads[i].for \in {"shell", "settled"}
                                    /\ reads[i].answered \in BOOLEAN
                                    /\ reads[i].messages \in Seq(Msg)
         /\ reads # <<>> => Head(reads) = reads[1] /\ 1 \in DOMAIN reads
<1>1. reads \in Seq(ReadSet)
  BY DEF FeedTypes
<1>2. \A i \in DOMAIN reads : reads[i] \in ReadSet
  BY <1>1
<1>3. \A i \in DOMAIN reads : /\ reads[i].for \in {"shell", "settled"}
                              /\ reads[i].answered \in BOOLEAN
                              /\ reads[i].messages \in Seq(Msg)
  BY <1>2 DEF ReadSet
<1> HIDE DEF ReadSet
<1> QED BY <1>1, <1>3, FirstGone

\* A change of the phase, or a record without messages.
LEMMA QuietStep ==
  ASSUME FeedInv, UNCHANGED <<history, current, count, projection, jobs, reads, settledAt, unread>>,
         phase' \in Phases, commands' \in 0 .. MaxCommands,
         version' \in 0 .. MaxRecords, version <= version', version' \in Nat,
         generation' \in Nat, generation <= generation',
         running => running', running' \in BOOLEAN, givenUp' = givenUp,
         phase' \in {"accepted", "running"} => generation' # settledAt
  PROVE  FeedInv'
<1> USE DEF FeedInv
<1>0. /\ \A k \in DOMAIN jobs : jobs[k].version \in Nat
      /\ version \in Nat /\ settledAt \in Nat /\ generation \in Nat
  <2>1. IsJobs(jobs)
    BY DEF FeedTypes
  <2>2. \A k \in DOMAIN jobs : jobs[k].version \in Nat
    BY <2>1, JobsAre
  <2>3. version \in Nat /\ settledAt \in Nat /\ generation \in Nat
    BY FeedAssumption DEF FeedTypes
  <2> QED BY <2>2, <2>3
<1>1. FeedTypes'
  BY DEF FeedTypes
<1>2. NumbersInv'
  BY DEF NumbersInv, Below, Without
<1>3. PlacesInv'
  BY <1>0 DEF PlacesInv
<1>4. AnswersInv'
  BY DEF AnswersInv, Queued
<1>5. CoverInv'
  BY <1>0 DEF CoverInv, Pending, PlacesInv
<1>6. LaterInv'
  BY DEF LaterInv
<1>7. NewestInv'
  <2>1. ASSUME NEW i \in DOMAIN reads, reads[i].for = "settled", jobs[1].version = version'
        PROVE  jobs[1].version = version
    <3>1. 1 \in DOMAIN jobs
      BY <2>1, JobsAre DEF PlacesInv, FeedTypes
    <3>2. jobs[1].version <= version /\ jobs[1].version \in Nat
      BY <3>1, <1>0 DEF PlacesInv
    <3> QED BY <1>0, <2>1, <3>2
  <2> QED BY <2>1 DEF NewestInv
<1> QED BY <1>1, <1>2, <1>3, <1>4, <1>5, <1>6, <1>7

\* A record of a message, while Pi runs: what it changes will be read again.
LEMMA MessageStep ==
  ASSUME FeedInv, running, running' = running,
         UNCHANGED <<phase, commands, generation, settledAt, jobs, reads, unread, givenUp>>,
         version' = version + 1, version' \in 0 .. MaxRecords,
         history' \in Seq(Msg), current' = <<>> \/ \E m \in Msg : current' = <<m>>,
         count' \in 0 .. MaxMessages, count <= count', IsRows(projection'),
         Below(history', count'), Below(current', count'), Below(projection'.messages, count'),
         current' # <<>> => /\ Without(history', current'[1].n)
                            /\ \A i \in DOMAIN reads : Without(reads[i].messages, current'[1].n),
         \A i \in DOMAIN reads :
           ToSet(reads[i].messages) \cap ToSet(history') \subseteq ToSet(history)
  PROVE  FeedInv'
<1> USE DEF FeedInv
<1>1. FeedTypes'
  BY DEF FeedTypes
<1>2. version \in Nat /\ count \in Nat /\ count' \in Nat
  BY FeedAssumption DEF FeedTypes
<1>3. NumbersInv'
  <2>1. ASSUME NEW i \in DOMAIN reads PROVE Below(reads[i].messages, count')
    <3>1. \A m \in ToSet(reads[i].messages) : m \in Msg /\ m.n <= count
      BY ReadsAre DEF NumbersInv, Below, ToSet
    <3>2. \A m \in Msg : m.n \in Nat
      BY DEF Msg
    <3> QED BY <1>2, <3>1, <3>2 DEF Below
  <2> QED BY <2>1 DEF NumbersInv
<1>4. IsJobs(jobs) /\ \A k \in DOMAIN jobs : jobs[k].version \in Nat
  BY JobsAre DEF FeedTypes
<1>5. PlacesInv'
  BY <1>2, <1>4 DEF PlacesInv
<1>6. AnswersInv' /\ CoverInv'
  BY DEF AnswersInv, CoverInv
<1>7. LaterInv'
  BY DEF LaterInv
<1>8. NewestInv'
  <2>1. ASSUME NEW i \in DOMAIN reads, reads[i].for = "settled" PROVE jobs[1].version # version'
    <3>1. 1 \in DOMAIN jobs
      BY <1>4, <2>1, JobsAre DEF PlacesInv
    <3>2. jobs[1].version <= version /\ jobs[1].version \in Nat
      BY <3>1, <1>4 DEF PlacesInv
    <3> QED BY <1>2, <3>2
  <2> QED BY <2>1 DEF NewestInv
<1> QED BY <1>1, <1>3, <1>5, <1>6, <1>7, <1>8

\* What is said of the messages known.
LEMMA Known ==
  ASSUME FeedInv
  PROVE  /\ count \in Nat /\ version \in Nat
         /\ \A m \in ToSet(history) : m \in Msg /\ m.n <= count /\ m.n \in Nat
         /\ \A m \in ToSet(projection.messages) : m \in Msg /\ m.n <= count /\ m.n \in Nat
         /\ \A i \in DOMAIN reads : \A m \in ToSet(reads[i].messages) :
              m \in Msg /\ m.n <= count /\ m.n \in Nat
         /\ current # <<>> => current[1] \in Msg /\ current[1].n <= count /\ current = <<current[1]>>
<1>1. \A m \in Msg : m.n \in Nat
  BY DEF Msg
<1>2. history \in Seq(Msg) /\ projection.messages \in Seq(Msg)
  BY DEF FeedInv, FeedTypes, IsRows
<1>3. /\ \A m \in ToSet(history) : m \in Msg
      /\ \A m \in ToSet(projection.messages) : m \in Msg
      /\ \A i \in DOMAIN reads : \A m \in ToSet(reads[i].messages) : m \in Msg
  BY <1>2, ReadsAre DEF ToSet, FeedInv
<1>4. current # <<>> => current[1] \in Msg /\ current = <<current[1]>>
  BY DEF FeedInv, FeedTypes
<1>5. current # <<>> => current[1] \in ToSet(current)
  BY <1>4 DEF ToSet
<1>6. count \in Nat /\ version \in Nat
  BY FeedAssumption DEF FeedInv, FeedTypes
<1> QED BY <1>1, <1>3, <1>4, <1>5, <1>6 DEF FeedInv, NumbersInv, Below

\* A message begins: its number is new.
LEMMA StartStep == ASSUME FeedInv, NEW role \in Roles, MessageStart(role) PROVE FeedInv'
<1> DEFINE m == Message(count + 1, role, 0)
<1>1. /\ running /\ current = <<>> /\ count < MaxMessages /\ version < MaxRecords
      /\ version' = version + 1 /\ count' = count + 1 /\ current' = <<m>>
      /\ projection' = Started(projection, m)
      /\ UNCHANGED <<history, running, phase, commands, generation, jobs, reads, settledAt,
                     unread, givenUp>>
  BY DEF MessageStart, Counted, Project
<1>2. m \in Msg /\ m.n = count + 1
  BY Known DEF Message, Msg
<1>3. /\ version' \in 0 .. MaxRecords /\ count' \in 0 .. MaxMessages /\ count <= count'
      /\ count \in Nat
  BY <1>1, Known, FeedAssumption
<1> HIDE DEF m
<1>4. projection.messages \in Seq(Msg) /\ IsRows(projection)
  BY DEF FeedInv, FeedTypes, IsRows
<1>5. IsRows(projection') /\ ToSet(projection'.messages) = ToSet(projection.messages) \cup {m}
  <2>1. IsRows(projection') /\ projection'.messages = Append(projection.messages, m)
    BY <1>1, <1>2, <1>4, StartedRows
  <2>2. ToSet(Append(projection.messages, m)) = ToSet(projection.messages) \cup {m}
    BY <1>2, <1>4, OneMore
  <2> QED BY <2>1, <2>2
<1>6. Below(history', count') /\ Below(projection'.messages, count')
  BY <1>1, <1>2, <1>3, <1>5, Known DEF Below
<1>7. ToSet(current') = {m} /\ current'[1] = m
  BY <1>1 DEF ToSet
<1>8. Below(current', count')
  BY <1>1, <1>2, <1>3, <1>7 DEF Below
<1>9. /\ Without(history', current'[1].n)
      /\ \A i \in DOMAIN reads : Without(reads[i].messages, current'[1].n)
  BY <1>1, <1>2, <1>3, <1>7, Known DEF Without
<1>10. history \in Seq(Msg)
  BY DEF FeedInv, FeedTypes
<1> QED BY <1>1, <1>2, <1>3, <1>5, <1>6, <1>8, <1>9, <1>10, MessageStep

\* A message streams: it keeps its number.
LEMMA UpdateStep == ASSUME FeedInv, MessageUpdate PROVE FeedInv'
<1>1. /\ current # <<>> /\ version < MaxRecords /\ version' = version + 1
      /\ current' = [current EXCEPT ![1] = [current[1] EXCEPT !.size = @ + 1]]
      /\ projection' = Streamed(projection)
      /\ UNCHANGED <<history, running, count, phase, commands, generation, jobs, reads,
                     settledAt, unread, givenUp>>
  BY DEF MessageUpdate, Counted, Project
<1>2. current[1] \in Msg /\ current[1].n <= count /\ current = <<current[1]>>
  BY <1>1, Known
<1> DEFINE m == [current[1] EXCEPT !.size = @ + 1]
<1>3. m \in Msg /\ m.n = current[1].n
  BY <1>2 DEF Msg
<1> HIDE DEF m
<1>4. current' = <<m>> /\ current'[1] = m /\ ToSet(current') = {m}
  <2>1. current' = <<m>>
    BY <1>1, <1>2 DEF m
  <2> QED BY <2>1 DEF ToSet
<1>5. running /\ IsRows(projection) /\ history \in Seq(Msg)
  BY <1>1 DEF FeedInv, FeedTypes, PlacesInv
<1>6. /\ version' \in 0 .. MaxRecords /\ count' \in 0 .. MaxMessages /\ count <= count'
      /\ count \in Nat
  BY <1>1, Known, FeedAssumption DEF FeedInv, FeedTypes
<1>7. /\ IsRows(projection') /\ DOMAIN projection'.messages = DOMAIN projection.messages
      /\ \A i \in DOMAIN projection.messages :
           projection'.messages[i].n = projection.messages[i].n
  <2>1. /\ IsRows(projection')
        /\ Len(projection'.messages) = Len(projection.messages)
        /\ \A i \in DOMAIN projection.messages :
             projection'.messages[i].n = projection.messages[i].n
    BY <1>1, <1>5, StreamedRows
  <2>2. /\ DOMAIN projection'.messages = 1 .. Len(projection'.messages)
        /\ DOMAIN projection.messages = 1 .. Len(projection.messages)
    BY <1>5, <2>1 DEF IsRows
  <2> QED BY <2>1, <2>2
<1>8. Below(projection'.messages, count')
  BY <1>1, <1>7, Known DEF Below, ToSet
<1>9. Below(history', count') /\ Below(current', count')
  BY <1>1, <1>2, <1>3, <1>4, Known DEF Below
<1>10. /\ Without(history', current'[1].n)
       /\ \A i \in DOMAIN reads : Without(reads[i].messages, current'[1].n)
  BY <1>1, <1>3, <1>4 DEF FeedInv, NumbersInv
<1> QED BY <1>1, <1>3, <1>4, <1>5, <1>6, <1>7, <1>8, <1>9, <1>10, MessageStep

\* A message ends: nobody has read it before.
LEMMA EndStep == ASSUME FeedInv, MessageEnd PROVE FeedInv'
<1> DEFINE m == current[1]
<1>1. /\ current # <<>> /\ version < MaxRecords /\ version' = version + 1
      /\ history' = Append(history, m) /\ current' = <<>>
      /\ projection' = Finished(projection, m)
      /\ UNCHANGED <<running, count, phase, commands, generation, jobs, reads,
                     settledAt, unread, givenUp>>
  BY DEF MessageEnd, Counted, Project
<1>2. m \in Msg /\ m.n <= count
  BY <1>1, Known
<1>3. \A i \in DOMAIN reads : m \notin ToSet(reads[i].messages)
  BY <1>1 DEF FeedInv, NumbersInv, Without
<1> HIDE DEF m
<1>4. running /\ IsRows(projection) /\ history \in Seq(Msg)
  BY <1>1 DEF FeedInv, FeedTypes, PlacesInv
<1>5. /\ version' \in 0 .. MaxRecords /\ count' \in 0 .. MaxMessages /\ count <= count'
  BY <1>1, Known, FeedAssumption DEF FeedInv, FeedTypes
<1>6. /\ IsRows(projection')
      /\ ToSet(projection'.messages) \subseteq ToSet(projection.messages) \cup {m}
  BY <1>1, <1>2, <1>4, FinishedRows
<1>7. history' \in Seq(Msg) /\ ToSet(history') = ToSet(history) \cup {m}
  BY <1>1, <1>2, <1>4, OneMore
<1>8. Below(history', count') /\ Below(projection'.messages, count') /\ Below(current', count')
  <2>1. ToSet(current') = {}
    BY <1>1 DEF ToSet
  <2>2. Below(history', count')
    BY <1>1, <1>2, <1>7, Known DEF Below
  <2>3. Below(projection'.messages, count')
    BY <1>1, <1>2, <1>6, Known DEF Below
  <2> QED BY <2>1, <2>2, <2>3 DEF Below
<1>9. \A i \in DOMAIN reads :
        ToSet(reads[i].messages) \cap ToSet(history') \subseteq ToSet(history)
  BY <1>3, <1>7
<1> QED BY <1>1, <1>4, <1>5, <1>6, <1>7, <1>8, <1>9, MessageStep

\* Pi drops an answer that failed.
LEMMA RetryStep == ASSUME FeedInv, Retry PROVE FeedInv'
<1>1. /\ running /\ current = <<>> /\ history # <<>> /\ version < MaxRecords
      /\ version' = version + 1 /\ history' = Front(history)
      /\ UNCHANGED <<current, running, count, phase, commands, generation, projection, jobs,
                     reads, settledAt, unread, givenUp>>
  BY DEF Retry, Counted, ghosts
<1>2. history \in Seq(Msg) /\ IsRows(projection)
  BY DEF FeedInv, FeedTypes
<1>3. history' \in Seq(Msg) /\ ToSet(history') \subseteq ToSet(history)
  BY <1>1, <1>2, LastGone
<1>4. /\ version' \in 0 .. MaxRecords /\ count' \in 0 .. MaxMessages /\ count <= count'
  BY <1>1, Known, FeedAssumption DEF FeedInv, FeedTypes
<1>5. Below(history', count') /\ Below(projection'.messages, count') /\ Below(current', count')
  <2>1. Below(history', count')
    BY <1>1, <1>3, Known DEF Below
  <2>2. Below(projection'.messages, count')
    BY <1>1, Known DEF Below
  <2>3. Below(current', count')
    BY <1>1 DEF FeedInv, NumbersInv
  <2> QED BY <2>1, <2>2, <2>3
<1> QED BY <1>1, <1>2, <1>3, <1>4, <1>5, MessageStep

\* A run settles: its job has still to read.
LEMMA SettleStep == ASSUME FeedInv, Settle PROVE FeedInv'
<1> DEFINE j == Job(version + 1, generation)
<1>1. /\ running /\ running' = FALSE /\ current = <<>> /\ version < MaxRecords
      /\ version' = version + 1 /\ settledAt' = generation
      /\ phase' = IF phase \in {"accepted", "running"} THEN "settled" ELSE phase
      /\ jobs' = Append(jobs, j)
      /\ UNCHANGED <<history, current, count, commands, generation, projection, reads, unread,
                     givenUp>>
  BY DEF Settle, Counted
<1>2. /\ version \in Nat /\ version' \in 0 .. MaxRecords /\ version' \in Nat
      /\ generation \in Nat /\ settledAt \in Nat /\ settledAt <= generation
  BY <1>1, Known, FeedAssumption DEF FeedInv, FeedTypes, PlacesInv
<1>3. /\ j \in JobSet({j.deltas}) /\ j.version = version' /\ j.generation = generation
      /\ j.stage = "queued"
  BY <1>1, <1>2 DEF Job, JobSet
<1> HIDE DEF j
<1>4. /\ IsJobs(jobs) /\ Len(jobs) \in Nat /\ DOMAIN jobs = 1 .. Len(jobs)
      /\ jobs # <<>> => 1 \in DOMAIN jobs
      /\ \A k \in DOMAIN jobs : jobs[k].version \in Nat /\ jobs[k].generation \in Nat
  BY JobsAre DEF FeedInv, FeedTypes
<1>5. /\ IsJobs(jobs') /\ Len(jobs') = Len(jobs) + 1 /\ DOMAIN jobs' = 1 .. Len(jobs) + 1
      /\ \A k \in DOMAIN jobs : jobs'[k] = jobs[k]
      /\ jobs'[Len(jobs) + 1] = j /\ jobs' # <<>>
  BY <1>1, <1>3, <1>4, JobsMore
<1>6. /\ \A k \in DOMAIN jobs' : k \in DOMAIN jobs \/ k = Len(jobs) + 1
      /\ \A k \in DOMAIN jobs : k \in DOMAIN jobs'
      /\ Len(jobs) + 1 \in DOMAIN jobs'
  BY <1>4, <1>5
<1>7. FeedTypes'
  BY <1>1, <1>2, <1>5 DEF FeedInv, FeedTypes, Phases
<1>8. NumbersInv' /\ LaterInv'
  BY <1>1 DEF FeedInv, NumbersInv, Below, Without, LaterInv
<1>9. Queued' /\ Pending'
  BY <1>3, <1>5, <1>6 DEF Queued, Pending
<1>10. AnswersInv' /\ CoverInv'
  BY <1>9 DEF AnswersInv, CoverInv
<1>11. PlacesInv'
  <2>1. \A k \in DOMAIN jobs' : jobs'[k].generation <= settledAt' /\ jobs'[k].version <= version'
    BY <1>1, <1>2, <1>3, <1>4, <1>5, <1>6 DEF FeedInv, PlacesInv
  <2>2. \A k \in DOMAIN jobs' : k > 1 => jobs'[k].stage = "queued"
    BY <1>3, <1>5, <1>6 DEF FeedInv, PlacesInv
  <2>3. jobs'[Len(jobs')].generation = settledAt'
    BY <1>1, <1>3, <1>5
  <2>4. \A i \in DOMAIN reads : reads[i].for = "settled" => jobs'[1].stage = "reading"
    BY <1>4, <1>5 DEF FeedInv, PlacesInv
  <2>5. phase' \notin {"accepted", "running"} /\ settledAt' <= generation'
    BY <1>1, <1>2
  <2> QED BY <1>1, <1>5, <2>1, <2>2, <2>3, <2>4, <2>5 DEF FeedInv, PlacesInv
<1>12. NewestInv'
  <2>1. ASSUME NEW i \in DOMAIN reads, reads[i].for = "settled" PROVE jobs'[1].version # version'
    <3>1. 1 \in DOMAIN jobs
      BY <1>4, <2>1 DEF FeedInv, PlacesInv
    <3>2. jobs[1].version <= version /\ jobs[1].version \in Nat /\ jobs'[1] = jobs[1]
      BY <1>4, <1>5, <3>1 DEF FeedInv, PlacesInv
    <3> QED BY <1>1, <1>2, <3>2
  <2> QED BY <1>1, <2>1 DEF NewestInv
<1> QED BY <1>7, <1>8, <1>10, <1>11, <1>12 DEF FeedInv

\* A read that is asked comes last, and has no answer.
LEMMA AskedRead ==
  ASSUME FeedInv, NEW kind \in {"shell", "settled"}, reads' = Append(reads, Read(kind))
  PROVE  /\ reads' \in Seq(ReadSet) /\ Len(reads) \in Nat
         /\ DOMAIN reads = 1 .. Len(reads) /\ DOMAIN reads' = 1 .. Len(reads) + 1
         /\ \A i \in DOMAIN reads : i \in DOMAIN reads' /\ reads'[i] = reads[i]
         /\ \A i \in DOMAIN reads' : i \in DOMAIN reads \/ i = Len(reads) + 1
         /\ \A i \in DOMAIN reads : i < Len(reads) + 1
         /\ Len(reads) + 1 \in DOMAIN reads'
         /\ reads'[Len(reads) + 1].for = kind /\ ~reads'[Len(reads) + 1].answered
         /\ ToSet(reads'[Len(reads) + 1].messages) = {}
<1>1. /\ Read(kind) \in ReadSet /\ Read(kind).for = kind /\ ~Read(kind).answered
      /\ ToSet(Read(kind).messages) = {}
  BY DEF Read, ReadSet, ToSet
<1>2. reads \in Seq(ReadSet)
  BY DEF FeedInv, FeedTypes
<1>3. /\ reads' \in Seq(ReadSet) /\ Len(reads) \in Nat
      /\ DOMAIN reads = 1 .. Len(reads) /\ DOMAIN reads' = 1 .. Len(reads) + 1
      /\ \A i \in 1 .. Len(reads) : reads'[i] = reads[i]
      /\ reads'[Len(reads) + 1] = Read(kind)
  BY <1>1, <1>2, OneMore
<1> QED BY <1>1, <1>3

\* A shell command adds to the history what no read has, and asks for one.
LEMMA ShellStep == ASSUME FeedInv, ShellEnds PROVE FeedInv'
<1> DEFINE m == Message(count + 1, "bash", 0)
<1>1. /\ phase' = "settled" /\ count < MaxMessages /\ count' = count + 1
      /\ history' = Append(history, m) /\ reads' = Append(reads, Read("shell"))
      /\ UNCHANGED <<current, running, commands, version, generation, projection, jobs,
                     settledAt, unread, givenUp>>
  BY DEF ShellEnds, ghosts
<1>2. m \in Msg /\ m.n = count + 1 /\ count \in Nat
  BY Known DEF Message, Msg, Roles
<1>3. history \in Seq(Msg) /\ count' \in 0 .. MaxMessages
  BY <1>1, <1>2, FeedAssumption DEF FeedInv, FeedTypes
<1> HIDE DEF m
<1>4. history' \in Seq(Msg) /\ ToSet(history') = ToSet(history) \cup {m}
  BY <1>1, <1>2, <1>3, OneMore
<1>5. /\ m \notin ToSet(projection.messages)
      /\ \A i \in DOMAIN reads : m \notin ToSet(reads[i].messages)
  BY <1>2, Known
<1>6. /\ reads' \in Seq(ReadSet) /\ Len(reads) \in Nat
      /\ DOMAIN reads = 1 .. Len(reads) /\ DOMAIN reads' = 1 .. Len(reads) + 1
      /\ \A i \in DOMAIN reads : i \in DOMAIN reads' /\ reads'[i] = reads[i]
      /\ \A i \in DOMAIN reads' : i \in DOMAIN reads \/ i = Len(reads) + 1
      /\ \A i \in DOMAIN reads : i < Len(reads) + 1
      /\ Len(reads) + 1 \in DOMAIN reads'
      /\ reads'[Len(reads) + 1].for = "shell" /\ ~reads'[Len(reads) + 1].answered
      /\ ToSet(reads'[Len(reads) + 1].messages) = {}
  BY <1>1, AskedRead
<1>7. FeedTypes'
  BY <1>1, <1>3, <1>4, <1>6 DEF FeedInv, FeedTypes, Phases
<1>8. NumbersInv'
  <2>1. Below(history', count') /\ Below(projection'.messages, count')
    BY <1>1, <1>2, <1>4, Known DEF Below
  <2>2. ASSUME current # <<>>
        PROVE  Below(current, count') /\ Without(history', current[1].n)
    <3>1. /\ current[1] \in Msg /\ current[1].n \in Nat /\ current[1].n <= count
          /\ ToSet(current) = {current[1]}
      BY <2>2, Known DEF Msg, ToSet
    <3> QED BY <1>1, <1>2, <1>4, <2>2, <3>1 DEF FeedInv, NumbersInv, Below, Without
  <2>3. Below(current, count')
    <3>1. CASE current = <<>>
      <4>1. ToSet(current) = {}
        BY <3>1 DEF ToSet
      <4> QED BY <4>1 DEF Below
    <3>2. CASE current # <<>>
      BY <2>2, <3>2
    <3> QED BY <3>1, <3>2
  <2>4. \A i \in DOMAIN reads' : Below(reads'[i].messages, count')
    <3>1. ASSUME NEW i \in DOMAIN reads PROVE Below(reads[i].messages, count')
      BY <1>1, <1>2, Known DEF Below
    <3>2. Below(reads'[Len(reads) + 1].messages, count')
      BY <1>6 DEF Below
    <3> QED BY <1>6, <3>1, <3>2
  <2>5. current # <<>> => \A i \in DOMAIN reads' : Without(reads'[i].messages, current[1].n)
    BY <1>6 DEF FeedInv, NumbersInv, Without
  <2> QED BY <1>1, <2>1, <2>2, <2>3, <2>4, <2>5 DEF NumbersInv
<1>9. PlacesInv'
  <2>1. \A i \in DOMAIN reads' : reads'[i].for = "settled" =>
          i \in DOMAIN reads /\ reads'[i] = reads[i]
    BY <1>6
  <2>2. \A i \in DOMAIN reads' : reads'[i].answered => i \in DOMAIN reads /\ reads'[i] = reads[i]
    BY <1>6
  <2>3. \A i, k \in DOMAIN reads' : i < k /\ reads'[k].answered =>
          i \in DOMAIN reads /\ k \in DOMAIN reads /\ reads'[k] = reads[k] /\ reads'[i] = reads[i]
    BY <1>6
  <2> QED BY <1>1, <2>1, <2>3 DEF FeedInv, PlacesInv
<1>10. AnswersInv' /\ CoverInv'
  BY <1>6 DEF AnswersInv, CoverInv
<1>11. LaterInv'
  BY <1>4, <1>5, <1>6 DEF FeedInv, LaterInv
<1>12. NewestInv'
  BY <1>1, <1>4, <1>5, <1>6 DEF FeedInv, NewestInv
<1> QED BY <1>7, <1>8, <1>9, <1>10, <1>11, <1>12 DEF FeedInv

\* The first job asks.
LEMMA AskStep == ASSUME FeedInv, Ask PROVE FeedInv'
<1>1. /\ jobs # <<>> /\ Head(jobs).stage = "queued"
      /\ jobs' = [jobs EXCEPT ![1] = [jobs[1] EXCEPT !.stage = "reading"]]
      /\ reads' = Append(reads, Read("settled"))
      /\ UNCHANGED <<history, current, running, count, phase, commands, version, generation,
                     projection, settledAt, unread, givenUp>>
  BY DEF Ask, pi, ghosts
<1>2. /\ IsJobs(jobs) /\ Len(jobs) \in Nat /\ DOMAIN jobs = 1 .. Len(jobs)
      /\ Head(jobs) = jobs[1] /\ 1 \in DOMAIN jobs /\ Len(jobs) > 0
      /\ jobs[1] \in JobSet({jobs[1].deltas})
  BY <1>1, JobsAre DEF FeedInv, FeedTypes
<1> DEFINE j == [jobs[1] EXCEPT !.stage = "reading"]
<1>3. /\ j \in JobSet({j.deltas}) /\ j.version = jobs[1].version
      /\ j.generation = jobs[1].generation /\ j.stage = "reading"
  BY <1>2 DEF JobSet
<1> HIDE DEF j
<1>4. jobs' = [jobs EXCEPT ![1] = j]
  BY <1>1 DEF j
<1>5. /\ IsJobs(jobs') /\ jobs' # <<>> /\ Len(jobs') = Len(jobs) /\ DOMAIN jobs' = DOMAIN jobs
      /\ jobs'[1] = j /\ \A k \in DOMAIN jobs : k # 1 => jobs'[k] = jobs[k]
  <2> DEFINE t == [jobs EXCEPT ![1] = j]
  <2>1. IsJobs(jobs) /\ jobs # <<>> /\ j \in JobSet({j.deltas})
    BY <1>1, <1>2, <1>3
  <2>2. /\ IsJobs(t) /\ t # <<>> /\ Len(t) = Len(jobs) /\ DOMAIN t = DOMAIN jobs
        /\ t[1] = j /\ \A k \in DOMAIN jobs : k # 1 => t[k] = jobs[k]
    BY <2>1, JobsFirst
  <2> HIDE DEF t
  <2>3. jobs' = t
    BY <1>4 DEF t
  <2> QED BY <2>2, <2>3
<1>6. \A i \in DOMAIN reads : reads[i].for # "settled"
  BY <1>1, <1>2 DEF FeedInv, PlacesInv
<1>7. /\ reads' \in Seq(ReadSet) /\ Len(reads) \in Nat
      /\ DOMAIN reads = 1 .. Len(reads) /\ DOMAIN reads' = 1 .. Len(reads) + 1
      /\ \A i \in DOMAIN reads : i \in DOMAIN reads' /\ reads'[i] = reads[i]
      /\ \A i \in DOMAIN reads' : i \in DOMAIN reads \/ i = Len(reads) + 1
      /\ \A i \in DOMAIN reads : i < Len(reads) + 1
      /\ Len(reads) + 1 \in DOMAIN reads'
      /\ reads'[Len(reads) + 1].for = "settled" /\ ~reads'[Len(reads) + 1].answered
      /\ ToSet(reads'[Len(reads) + 1].messages) = {}
  BY <1>1, AskedRead
<1>8. FeedTypes'
  BY <1>1, <1>5, <1>7 DEF FeedInv, FeedTypes
<1>9. NumbersInv'
  BY <1>1, <1>7 DEF FeedInv, NumbersInv, Below, Without
<1>10. PlacesInv'
  <2>1. \A k \in DOMAIN jobs' :
          /\ jobs'[k].generation = jobs[k].generation /\ jobs'[k].version = jobs[k].version
          /\ k > 1 => jobs'[k].stage = "queued"
    BY <1>3, <1>5 DEF FeedInv, PlacesInv
  <2>2. jobs'[Len(jobs')].generation = settledAt
    <3>1. Len(jobs) \in DOMAIN jobs
      BY <1>2
    <3> QED BY <1>1, <1>5, <2>1, <3>1 DEF FeedInv, PlacesInv
  <2>3. \A i \in DOMAIN reads' : reads'[i].for = "settled" => i = Len(reads) + 1
    BY <1>6, <1>7
  <2>4. \A i, k \in DOMAIN reads' : i < k /\ reads'[k].answered =>
          i \in DOMAIN reads /\ k \in DOMAIN reads /\ reads'[k] = reads[k] /\ reads'[i] = reads[i]
    BY <1>7
  <2> QED BY <1>1, <1>3, <1>5, <2>1, <2>2, <2>3, <2>4 DEF FeedInv, PlacesInv
<1>11. AnswersInv'
  BY <1>7 DEF AnswersInv
<1>12. CoverInv'
  BY <1>2, <1>3, <1>5 DEF CoverInv, Pending
<1>13. LaterInv'
  BY <1>1, <1>7 DEF FeedInv, LaterInv
<1>14. NewestInv'
  BY <1>6, <1>7 DEF NewestInv
<1> QED BY <1>8, <1>9, <1>10, <1>11, <1>12, <1>13, <1>14 DEF FeedInv

\* Pi answers the first read without an answer, with the history as it is.
LEMMA AnswerStep == ASSUME FeedInv, Answer PROVE FeedInv'
<1>1. UNCHANGED <<history, current, running, count, phase, commands, version, generation,
                  projection, jobs, settledAt, unread, givenUp>>
  BY DEF Answer, pi, ghosts
<1>2. PICK a \in DOMAIN reads :
        /\ ~reads[a].answered /\ \A i \in 1 .. a - 1 : reads[i].answered
        /\ reads' = [reads EXCEPT ![a] =
                       [for |-> reads[a].for, answered |-> TRUE, messages |-> history]]
  BY DEF Answer
<1>3. history \in Seq(Msg) /\ reads \in Seq(ReadSet)
  BY DEF FeedInv, FeedTypes
<1> DEFINE r == [for |-> reads[a].for, answered |-> TRUE, messages |-> history]
<1>4. /\ r \in ReadSet /\ r.for = reads[a].for /\ r.answered /\ r.messages = history
  BY <1>3, ReadsAre DEF ReadSet, FeedInv
<1> HIDE DEF r
<1>5. /\ reads' \in Seq(ReadSet) /\ DOMAIN reads' = DOMAIN reads
      /\ reads'[a] = r /\ \A i \in DOMAIN reads : i # a => reads'[i] = reads[i]
  <2>1. reads' = [reads EXCEPT ![a] = r]
    BY <1>2 DEF r
  <2> QED BY <1>3, <1>4, <2>1
<1>6. \A i \in DOMAIN reads : reads'[i].for = reads[i].for
  BY <1>4, <1>5
<1>7. /\ \A i \in DOMAIN reads : i < a => reads[i].answered
      /\ \A i \in DOMAIN reads : i > a => ~reads[i].answered
  BY <1>2, ReadsAre DEF FeedInv, PlacesInv
<1>8. FeedTypes'
  BY <1>1, <1>5 DEF FeedInv, FeedTypes
<1>9. NumbersInv'
  BY <1>1, <1>4, <1>5 DEF FeedInv, NumbersInv, Below, Without
<1>10. PlacesInv'
  <2>1. \A i, k \in DOMAIN reads' : i < k /\ reads'[k].answered => reads'[i].answered
    <3> SUFFICES ASSUME NEW i \in DOMAIN reads, NEW k \in DOMAIN reads, i < k,
                        reads'[k].answered
                 PROVE  reads'[i].answered
      BY <1>5
    <3>1. CASE i = a
      BY <1>4, <1>5, <3>1
    <3>2. CASE k = a
      BY <1>5, <1>7, <3>2
    <3>3. CASE i # a /\ k # a
      BY <1>5, <3>3 DEF FeedInv, PlacesInv
    <3> QED BY <3>1, <3>2, <3>3
  <2> QED BY <1>1, <1>5, <1>6, <2>1 DEF FeedInv, PlacesInv
<1>11. AnswersInv'
  BY <1>1, <1>4, <1>5 DEF FeedInv, AnswersInv, Queued
<1>12. CoverInv'
  BY <1>1, <1>5, <1>6 DEF FeedInv, CoverInv, Pending
<1>13. LaterInv'
  <2> SUFFICES ASSUME NEW i \in DOMAIN reads, NEW k \in DOMAIN reads, i < k, reads'[k].answered
               PROVE  ToSet(reads'[i].messages) \cap ToSet(history) \subseteq ToSet(reads'[k].messages)
    BY <1>1, <1>5 DEF LaterInv
  <2>1. CASE k = a
    BY <1>4, <1>5, <2>1
  <2>2. CASE k # a
    <3>1. i # a
      BY <1>5, <1>7, <2>2
    <3> QED BY <1>5, <2>2, <3>1 DEF FeedInv, LaterInv
  <2> QED BY <2>1, <2>2
<1>14. NewestInv'
  BY <1>1, <1>4, <1>5, <1>6 DEF FeedInv, NewestInv
<1> QED BY <1>8, <1>9, <1>10, <1>11, <1>12, <1>13, <1>14 DEF FeedInv

\* The first job is over: what was queued still is, and what is left is queued.
LEMMA JobOver ==
  ASSUME FeedInv, jobs # <<>>, jobs[1].stage # "queued", jobs' = Tail(jobs),
         UNCHANGED <<version, settledAt>>
  PROVE  /\ IsJobs(jobs') /\ Len(jobs) > 0 /\ (jobs' = <<>> <=> Len(jobs) = 1)
         /\ \A k \in DOMAIN jobs' : /\ jobs'[k].generation <= settledAt
                                    /\ jobs'[k].version <= version
                                    /\ jobs'[k].stage = "queued"
         /\ jobs' # <<>> => jobs'[Len(jobs')].generation = settledAt
         /\ jobs' # <<>> => Queued' /\ Pending'
         /\ Queued => Queued'
<1>1. /\ IsJobs(jobs) /\ Len(jobs) \in Nat /\ DOMAIN jobs = 1 .. Len(jobs)
  BY JobsAre DEF FeedInv, FeedTypes
<1>2. /\ IsJobs(jobs') /\ Len(jobs) > 0 /\ Len(jobs') = Len(jobs) - 1
      /\ DOMAIN jobs' = 1 .. Len(jobs) - 1
      /\ \A k \in 1 .. Len(jobs) - 1 : jobs'[k] = jobs[k + 1]
      /\ jobs' = <<>> <=> Len(jobs) = 1
  BY <1>1, JobsTail
<1>3. \A k \in DOMAIN jobs' : k + 1 \in DOMAIN jobs /\ k + 1 > 1 /\ jobs'[k] = jobs[k + 1]
  BY <1>1, <1>2
<1>4. \A k \in DOMAIN jobs' : /\ jobs'[k].generation <= settledAt
                              /\ jobs'[k].version <= version
                              /\ jobs'[k].stage = "queued"
  BY <1>3 DEF FeedInv, PlacesInv
<1>5. jobs' # <<>> => Len(jobs') \in DOMAIN jobs' /\ jobs'[Len(jobs')] = jobs[Len(jobs)]
  BY <1>1, <1>2
<1>6. jobs' # <<>> => jobs'[Len(jobs')].generation = settledAt
  BY <1>5 DEF FeedInv, PlacesInv
<1>7. jobs' # <<>> => Queued' /\ Pending'
  BY <1>4, <1>5 DEF Queued, Pending
<1>8. Queued => Queued'
  <2>1. ASSUME NEW k \in DOMAIN jobs, jobs[k].stage = "queued" PROVE jobs' # <<>>
    <3>1. k # 1
      BY <2>1
    <3> QED BY <1>1, <1>2, <3>1
  <2> QED BY <1>7, <2>1 DEF Queued
<1> QED BY <1>2, <1>4, <1>6, <1>7, <1>8

\* What waited for the first read goes on.
LEMMA TakenStep ==
  ASSUME FeedInv, reads # <<>>, reads' = Tail(reads),
         UNCHANGED <<history, current, running, count, phase, commands, version, generation,
                     settledAt>>,
         IsRows(projection'), IsJobs(jobs'),
         projection'.messages \in {projection.messages, Head(reads).messages},
         \A k \in DOMAIN jobs' : /\ jobs'[k].generation <= settledAt /\ jobs'[k].version <= version
                                 /\ k > 1 => jobs'[k].stage = "queued",
         jobs' # <<>> => jobs'[Len(jobs')].generation = settledAt,
         Head(reads).for = "settled" \/ UNCHANGED jobs,
         Queued => Queued',
         CoverInv'
  PROVE  FeedInv'
<1>1. /\ reads \in Seq(ReadSet) /\ reads' \in Seq(ReadSet) /\ Len(reads) \in Nat
      /\ DOMAIN reads = 1 .. Len(reads) /\ DOMAIN reads' = 1 .. Len(reads) - 1
      /\ \A i \in 1 .. Len(reads) - 1 : reads'[i] = reads[i + 1]
      /\ Head(reads) = reads[1] /\ 1 \in DOMAIN reads
  <2>1. reads \in Seq(ReadSet)
    BY DEF FeedInv, FeedTypes
  <2> HIDE DEF ReadSet
  <2> QED BY <2>1, FirstGone
<1>2. /\ \A i \in DOMAIN reads' : i + 1 \in DOMAIN reads /\ i + 1 > 1 /\ reads'[i] = reads[i + 1]
      /\ \A i \in DOMAIN reads : i # 1 => i - 1 \in DOMAIN reads' /\ reads'[i - 1] = reads[i]
      /\ \A i, j \in DOMAIN reads' : i < j => i + 1 < j + 1
      /\ \A i, j \in DOMAIN reads' : i + 1 = j + 1 => i = j
      /\ \A i \in DOMAIN reads' : \A j \in DOMAIN reads : i + 1 < j => j # 1 /\ i < j - 1
  BY <1>1
<1>3. \A i \in DOMAIN reads' : reads'[i].for = "settled" => UNCHANGED jobs
  BY <1>1, <1>2 DEF FeedInv, PlacesInv
<1>4. FeedTypes'
  BY <1>1 DEF FeedInv, FeedTypes
<1>5. NumbersInv'
  <2>1. Below(projection'.messages, count)
    BY <1>1 DEF FeedInv, NumbersInv
  <2> QED BY <1>2, <2>1 DEF FeedInv, NumbersInv, Below, Without
<1>6. PlacesInv'
  <2>1. \A i \in DOMAIN reads' : reads'[i].for = "settled" => jobs' # <<>> /\ jobs'[1].stage = "reading"
    BY <1>2, <1>3 DEF FeedInv, PlacesInv
  <2>2. \A i, j \in DOMAIN reads' : reads'[i].for = "settled" /\ reads'[j].for = "settled" => i = j
    <3> SUFFICES ASSUME NEW i \in DOMAIN reads', NEW j \in DOMAIN reads',
                        reads'[i].for = "settled", reads'[j].for = "settled"
                 PROVE  i = j
      OBVIOUS
    <3>1. i + 1 = j + 1
      BY <1>2 DEF FeedInv, PlacesInv
    <3> QED BY <1>2, <3>1
  <2>3. \A i, j \in DOMAIN reads' : i < j /\ reads'[j].answered => reads'[i].answered
    BY <1>2 DEF FeedInv, PlacesInv
  <2> QED BY <2>1, <2>2, <2>3 DEF FeedInv, PlacesInv
<1>7. AnswersInv'
  <2> SUFFICES ASSUME NEW i \in DOMAIN reads', reads'[i].answered, reads'[i].messages # history
               PROVE  running \/ Queued' \/ \E j \in DOMAIN reads' : i < j
    BY DEF AnswersInv
  <2>1. running \/ Queued \/ \E j \in DOMAIN reads : i + 1 < j
    BY <1>2 DEF FeedInv, AnswersInv
  <2> QED BY <1>2, <2>1
<1>8. LaterInv'
  <2> SUFFICES ASSUME NEW i \in DOMAIN reads', NEW j \in DOMAIN reads', i < j, reads'[j].answered
               PROVE  ToSet(reads'[i].messages) \cap ToSet(history) \subseteq ToSet(reads'[j].messages)
    BY DEF LaterInv
  <2>1. /\ i + 1 \in DOMAIN reads /\ j + 1 \in DOMAIN reads /\ i + 1 < j + 1
        /\ reads'[i] = reads[i + 1] /\ reads'[j] = reads[j + 1]
    BY <1>2
  <2> QED BY <2>1 DEF FeedInv, LaterInv
<1>9. NewestInv'
  <2> SUFFICES ASSUME NEW i \in DOMAIN reads', reads'[i].for = "settled", reads'[i].answered,
                      jobs'[1].version = version
               PROVE  ToSet(projection'.messages) \cap ToSet(history) \subseteq ToSet(reads'[i].messages)
    BY DEF NewestInv
  <2>1. i + 1 \in DOMAIN reads /\ 1 < i + 1 /\ reads'[i] = reads[i + 1] /\ jobs' = jobs
    BY <1>2, <1>3
  <2>2. CASE projection'.messages = projection.messages
    BY <2>1, <2>2 DEF FeedInv, NewestInv
  <2>3. CASE projection'.messages = Head(reads).messages
    BY <1>1, <2>1, <2>3 DEF FeedInv, LaterInv
  <2> QED BY <2>2, <2>3
<1> QED BY <1>4, <1>5, <1>6, <1>7, <1>8, <1>9 DEF FeedInv

\* A read that is not answered marks the session.
LEMMA UnansweredStep == ASSUME FeedInv, Unanswered PROVE FeedInv'
<1>1. /\ reads # <<>> /\ reads' = Tail(reads)
      /\ jobs' = IF Head(reads).for = "settled" THEN Tail(jobs) ELSE jobs
      /\ unread' = TRUE
      /\ UNCHANGED <<history, current, running, count, phase, commands, version, generation,
                     projection, settledAt>>
  BY DEF Unanswered, pi
<1>2. IsRows(projection) /\ IsJobs(jobs)
  BY DEF FeedInv, FeedTypes
<1>3. CoverInv'
  BY <1>1 DEF CoverInv
<1>4. Head(reads) = reads[1] /\ 1 \in DOMAIN reads
  BY <1>1, ReadsAre DEF FeedInv
<1>5. CASE Head(reads).for = "settled"
  <2>1. jobs # <<>> /\ jobs[1].stage # "queued" /\ jobs' = Tail(jobs)
    BY <1>1, <1>4, <1>5 DEF FeedInv, PlacesInv
  <2>2. /\ IsJobs(jobs')
        /\ \A k \in DOMAIN jobs' : /\ jobs'[k].generation <= settledAt
                                   /\ jobs'[k].version <= version
                                   /\ jobs'[k].stage = "queued"
        /\ jobs' # <<>> => jobs'[Len(jobs')].generation = settledAt
        /\ Queued => Queued'
    BY <1>1, <2>1, JobOver
  <2> QED BY <1>1, <1>2, <1>3, <1>5, <2>2, TakenStep
<1>6. CASE Head(reads).for # "settled"
  <2>1. jobs' = jobs /\ (Queued => Queued')
    BY <1>1, <1>6 DEF Queued
  <2> QED BY <1>1, <1>2, <1>3, <2>1, TakenStep DEF FeedInv, PlacesInv
<1> QED BY <1>5, <1>6

\* What a settled read finds: its job reads, and the other reads are of shell commands.
LEMMA SettledTaken ==
  ASSUME FeedInv, SettledRead
  PROVE  /\ reads # <<>> /\ reads' = Tail(reads)
         /\ UNCHANGED <<history, current, running, count, phase, commands, version, generation,
                        settledAt>>
         /\ Head(reads) = reads[1] /\ 1 \in DOMAIN reads
         /\ Head(reads).for = "settled" /\ Head(reads).answered
         /\ Head(reads).messages \in Seq(Msg)
         /\ IsJobs(jobs) /\ jobs # <<>> /\ Head(jobs) = jobs[1] /\ 1 \in DOMAIN jobs
         /\ jobs[1].stage = "reading"
         /\ jobs[1] \in JobSet({jobs[1].deltas})
         /\ jobs[1].generation \in Nat /\ jobs[1].version \in Nat
         /\ Len(jobs) \in Nat /\ Len(jobs) > 0 /\ DOMAIN jobs = 1 .. Len(jobs)
         /\ \A i \in DOMAIN reads : i # 1 => /\ reads[i].for = "shell"
                                             /\ i - 1 \in DOMAIN reads'
                                             /\ reads'[i - 1] = reads[i]
<1>1. /\ reads # <<>> /\ reads' = Tail(reads)
      /\ Head(reads).for = "settled" /\ Head(reads).answered
      /\ UNCHANGED <<history, current, running, count, phase, commands, version, generation,
                     settledAt>>
  BY DEF SettledRead, pi
<1>2. /\ Head(reads) = reads[1] /\ 1 \in DOMAIN reads /\ Head(reads).messages \in Seq(Msg)
      /\ \A i \in DOMAIN reads : reads[i].for \in {"shell", "settled"}
  BY <1>1, ReadsAre DEF FeedInv
<1>3. jobs # <<>> /\ jobs[1].stage = "reading"
  BY <1>1, <1>2 DEF FeedInv, PlacesInv
<1>4. IsJobs(jobs)
  BY DEF FeedInv, FeedTypes
<1>5. /\ Head(jobs) = jobs[1] /\ 1 \in DOMAIN jobs
      /\ jobs[1] \in JobSet({jobs[1].deltas})
      /\ jobs[1].generation \in Nat /\ jobs[1].version \in Nat
      /\ Len(jobs) \in Nat /\ Len(jobs) > 0 /\ DOMAIN jobs = 1 .. Len(jobs)
  BY <1>3, <1>4, JobsAre
<1>6. /\ reads \in Seq(ReadSet)
  BY DEF FeedInv, FeedTypes
<1>7. \A i \in DOMAIN reads : i # 1 => /\ i - 1 \in DOMAIN reads' /\ reads'[i - 1] = reads[i]
  <2> HIDE DEF ReadSet
  <2>1. /\ Len(reads) \in Nat /\ DOMAIN reads = 1 .. Len(reads)
        /\ DOMAIN reads' = 1 .. Len(reads) - 1
        /\ \A i \in 1 .. Len(reads) - 1 : reads'[i] = reads[i + 1]
    BY <1>1, <1>6, FirstGone
  <2> QED BY <2>1
<1>8. \A i \in DOMAIN reads : i # 1 => reads[i].for = "shell"
  BY <1>1, <1>2 DEF FeedInv, PlacesInv
<1> QED BY <1>1, <1>2, <1>3, <1>4, <1>5, <1>7, <1>8

\* A settled read that is current becomes the projection.
LEMMA ReconcileStep == ASSUME FeedInv, Reconcile PROVE FeedInv'
<1>1. /\ SettledRead
      /\ projection' = Reconciled(projection, Head(reads).messages)
      /\ unread' = FALSE /\ givenUp' = FALSE
  BY DEF Reconcile
<1>2. PICK d : jobs' = [jobs EXCEPT ![1] = [jobs[1] EXCEPT !.stage = "saving", !.deltas = d]]
  BY DEF Reconcile
<1>3. IsRows(projection') /\ projection'.messages = Head(reads).messages
  BY <1>1, SettledTaken, ReconciledRows DEF FeedInv, FeedTypes
<1> DEFINE j == [jobs[1] EXCEPT !.stage = "saving", !.deltas = d]
<1>4. j \in JobSet({j.deltas}) /\ j.version = jobs[1].version /\ j.generation = jobs[1].generation
  BY <1>1, SettledTaken DEF JobSet
<1> HIDE DEF j
<1>5. /\ IsJobs(jobs') /\ jobs' # <<>> /\ Len(jobs') = Len(jobs) /\ DOMAIN jobs' = DOMAIN jobs
      /\ jobs'[1] = j /\ \A k \in DOMAIN jobs : k # 1 => jobs'[k] = jobs[k]
  <2> DEFINE t == [jobs EXCEPT ![1] = j]
  <2>1. IsJobs(jobs) /\ jobs # <<>>
    BY <1>1, SettledTaken
  <2>2. /\ IsJobs(t) /\ t # <<>> /\ Len(t) = Len(jobs) /\ DOMAIN t = DOMAIN jobs
        /\ t[1] = j /\ \A k \in DOMAIN jobs : k # 1 => t[k] = jobs[k]
    BY <1>4, <2>1, JobsFirst
  <2> HIDE DEF t
  <2>3. jobs' = t
    BY <1>2 DEF t, j
  <2> QED BY <2>2, <2>3
<1>6. /\ \A k \in DOMAIN jobs' : /\ jobs'[k].generation <= settledAt
                                 /\ jobs'[k].version <= version
                                 /\ k > 1 => jobs'[k].stage = "queued"
      /\ jobs'[Len(jobs')].generation = settledAt
  <2>1. \A k \in DOMAIN jobs' :
          /\ jobs'[k].generation = jobs[k].generation /\ jobs'[k].version = jobs[k].version
          /\ k > 1 => jobs'[k].stage = jobs[k].stage
    BY <1>4, <1>5
  <2>2. Len(jobs) \in DOMAIN jobs /\ jobs # <<>>
    BY <1>1, SettledTaken
  <2> QED BY <1>5, <2>1, <2>2 DEF FeedInv, PlacesInv
<1>7. Queued => Queued' /\ Pending'
  <2>1. ASSUME NEW k \in DOMAIN jobs, jobs[k].stage = "queued" PROVE jobs'[k].stage = "queued" /\ k \in DOMAIN jobs'
    <3>1. k # 1
      BY <1>1, <2>1, SettledTaken
    <3> QED BY <1>5, <2>1, <3>1
  <2> QED BY <2>1 DEF Queued, Pending
<1>8. CoverInv'
  <2> SUFFICES ASSUME projection'.messages # history
               PROVE  running \/ Pending' \/ \E i \in DOMAIN reads' : reads'[i].for = "shell"
    BY <1>1, SettledTaken DEF CoverInv
  <2>1. running \/ Queued \/ \E i \in DOMAIN reads : 1 < i
    BY <1>1, <1>3, SettledTaken DEF FeedInv, AnswersInv
  <2>2. \A i \in DOMAIN reads : 1 < i => i # 1
    BY <1>1, ReadsAre DEF FeedInv
  <2> QED BY <1>1, <1>7, <2>1, <2>2, SettledTaken
<1> QED BY <1>1, <1>3, <1>5, <1>6, <1>7, <1>8, SettledTaken, TakenStep

\* A read that is repeated: its job goes to the end of the queue, where all wait.
LEMMA RepeatedJobs ==
  ASSUME FeedInv, ReadAgain
  PROVE  /\ IsJobs(jobs')
         /\ \A k \in DOMAIN jobs' : /\ jobs'[k].generation <= settledAt
                                    /\ jobs'[k].version <= version
                                    /\ jobs'[k].stage = "queued"
         /\ jobs'[Len(jobs')].generation = settledAt
         /\ Queued' /\ Pending'
<1> DEFINE j == [RepeatedJob EXCEPT !.stage = "queued"]
           rest == Tail(jobs)
<1>1. /\ SettledRead /\ Head(jobs).generation = generation
      /\ jobs' = Append(rest, j)
  BY DEF ReadAgain, Repeated
<1>2. /\ IsJobs(jobs) /\ jobs # <<>> /\ jobs[1].stage = "reading" /\ Head(jobs) = jobs[1]
      /\ 1 \in DOMAIN jobs /\ Len(jobs) \in Nat
  BY <1>1, SettledTaken
<1>3. generation = settledAt /\ generation \in Nat /\ version \in Nat
  <2>1. generation \in Nat /\ settledAt \in Nat /\ version \in Nat
    BY Known DEF FeedInv, FeedTypes
  <2>2. jobs[1].generation <= settledAt /\ settledAt <= generation
    BY <1>2 DEF FeedInv, PlacesInv
  <2> QED BY <1>1, <1>2, <2>1, <2>2
<1>4. /\ j \in JobSet({j.deltas}) /\ j.version = version /\ j.generation = settledAt
      /\ j.stage = "queued"
  BY <1>1, <1>2, <1>3 DEF RepeatedJob, Job, JobSet
<1> HIDE DEF j
<1>5. /\ IsJobs(rest) /\ DOMAIN rest = 1 .. Len(rest) /\ Len(rest) \in Nat
      /\ \A k \in DOMAIN rest : k + 1 \in DOMAIN jobs /\ k + 1 > 1 /\ rest[k] = jobs[k + 1]
  <2>1. /\ IsJobs(rest) /\ DOMAIN jobs = 1 .. Len(jobs) /\ Len(jobs) > 0
        /\ Len(rest) = Len(jobs) - 1 /\ DOMAIN rest = 1 .. Len(jobs) - 1
        /\ \A k \in 1 .. Len(jobs) - 1 : rest[k] = jobs[k + 1]
    BY <1>2, JobsTail, JobsAre
  <2> HIDE DEF rest
  <2> QED BY <1>2, <2>1
<1> HIDE DEF rest
<1>6. /\ IsJobs(jobs') /\ Len(jobs') = Len(rest) + 1 /\ DOMAIN jobs' = 1 .. Len(rest) + 1
      /\ \A k \in 1 .. Len(rest) : jobs'[k] = rest[k]
      /\ jobs'[Len(rest) + 1] = j
  BY <1>1, <1>4, <1>5, JobsMore
<1>7. \A k \in DOMAIN jobs' : k \in DOMAIN rest \/ k = Len(rest) + 1
  BY <1>5, <1>6
<1>8. \A k \in DOMAIN jobs' : /\ jobs'[k].generation <= settledAt
                              /\ jobs'[k].version <= version
                              /\ jobs'[k].stage = "queued"
  <2>1. \A k \in DOMAIN rest : /\ rest[k].generation <= settledAt /\ rest[k].version <= version
                               /\ rest[k].stage = "queued"
    BY <1>5 DEF FeedInv, PlacesInv
  <2> QED BY <1>3, <1>4, <1>5, <1>6, <1>7, <2>1
<1>9. jobs'[Len(jobs')].generation = settledAt
  BY <1>4, <1>6
<1>10. Queued' /\ Pending'
  <2>1. Len(rest) + 1 \in DOMAIN jobs'
    BY <1>5, <1>6
  <2> QED BY <1>4, <1>6, <2>1 DEF Queued, Pending
<1> QED BY <1>6, <1>8, <1>9, <1>10

\* A settled read that a late record made stale is asked for again.
LEMMA ReadAgainStep == ASSUME FeedInv, ReadAgain PROVE FeedInv'
<1>1. SettledRead /\ UNCHANGED <<projection, unread, givenUp>>
  BY DEF ReadAgain
<1>2. CoverInv'
  BY RepeatedJobs DEF CoverInv
<1>3. IsRows(projection)
  BY DEF FeedInv, FeedTypes
<1> QED BY <1>1, <1>2, <1>3, RepeatedJobs, SettledTaken, TakenStep

\* A settled read that is given up: a later run, or a read to come, or the mark, is left.
LEMMA GiveUpStep == ASSUME FeedInv, GiveUp PROVE FeedInv'
<1>1. /\ SettledRead /\ ~Current /\ ~Repeated /\ jobs' = Tail(jobs)
      /\ givenUp' = (givenUp \/ phase \in {"shell", "compact"})
      /\ UNCHANGED <<projection, unread>>
  BY DEF GiveUp
<1>2. /\ jobs # <<>> /\ jobs[1].stage = "reading" /\ Head(jobs) = jobs[1]
      /\ UNCHANGED <<history, running, version, settledAt, generation, phase>>
      /\ reads[1].for = "settled"
      /\ \A i \in DOMAIN reads : i # 1 => i - 1 \in DOMAIN reads' /\ reads'[i - 1] = reads[i]
  BY <1>1, SettledTaken
<1>3. /\ IsJobs(jobs') /\ (jobs' = <<>> <=> Len(jobs) = 1)
      /\ \A k \in DOMAIN jobs' : /\ jobs'[k].generation <= settledAt
                                 /\ jobs'[k].version <= version
                                 /\ jobs'[k].stage = "queued"
      /\ jobs' # <<>> => jobs'[Len(jobs')].generation = settledAt
      /\ jobs' # <<>> => Queued' /\ Pending'
      /\ Queued => Queued'
  BY <1>1, <1>2, JobOver
<1>4. ASSUME jobs' = <<>>, generation = settledAt PROVE givenUp'
  <2>1. jobs[1].generation = settledAt
    BY <1>2, <1>3, <1>4 DEF FeedInv, PlacesInv
  <2>2. phase # "settled"
    BY <1>1, <1>2, <1>4, <2>1 DEF Current, Repeated, SettledPhases
  <2>3. phase \notin {"accepted", "running"} /\ phase \in Phases
    BY <1>4 DEF FeedInv, PlacesInv, FeedTypes
  <2> QED BY <1>1, <2>2, <2>3 DEF Phases
<1>5. CoverInv'
  <2> SUFFICES ASSUME projection'.messages # history', ~running', ~unread', ~givenUp',
                      generation' = settledAt', ~Pending'
               PROVE  \E i \in DOMAIN reads' : reads'[i].for = "shell"
    BY DEF CoverInv
  <2>1. jobs' # <<>>
    BY <1>2, <1>4
  <2> QED BY <1>3, <2>1
<1>6. IsRows(projection)
  BY DEF FeedInv, FeedTypes
<1> QED BY <1>1, <1>3, <1>5, <1>6, SettledTaken, TakenStep

\* A settled read has been saved: it was not one that has still to read.
LEMMA SavedStep == ASSUME FeedInv, Saved PROVE FeedInv'
<1>1. /\ jobs # <<>> /\ Head(jobs).stage = "saving" /\ jobs' = Tail(jobs)
      /\ UNCHANGED <<history, current, running, count, phase, commands, version, generation,
                     projection, reads, settledAt, unread, givenUp>>
  BY DEF Saved, pi, ghosts
<1>2. Head(jobs) = jobs[1] /\ jobs[1].stage # "queued" /\ jobs[1].stage # "reading"
  BY <1>1, JobsAre DEF FeedInv, FeedTypes
<1>3. /\ IsJobs(jobs')
      /\ \A k \in DOMAIN jobs' : /\ jobs'[k].generation <= settledAt
                                 /\ jobs'[k].version <= version
                                 /\ jobs'[k].stage = "queued"
      /\ jobs' # <<>> => jobs'[Len(jobs')].generation = settledAt
      /\ jobs' # <<>> => Queued' /\ Pending'
      /\ Queued => Queued'
  BY <1>1, <1>2, JobOver
<1>4. \A i \in DOMAIN reads : reads[i].for # "settled"
  BY <1>2 DEF FeedInv, PlacesInv
<1>5. FeedTypes' /\ NumbersInv' /\ LaterInv'
  BY <1>1, <1>3 DEF FeedInv, FeedTypes, NumbersInv, Below, Without, LaterInv
<1>6. PlacesInv'
  BY <1>1, <1>3, <1>4 DEF FeedInv, PlacesInv
<1>7. AnswersInv' /\ NewestInv'
  BY <1>1, <1>3, <1>4 DEF FeedInv, AnswersInv, NewestInv
<1>8. Pending => Pending'
  <2>1. Pending => Queued
    BY <1>2, JobsAre DEF Pending, Queued, FeedInv, PlacesInv, FeedTypes
  <2>2. Queued' => Pending'
    BY DEF Queued, Pending
  <2> QED BY <1>3, <2>1, <2>2
<1>9. CoverInv'
  BY <1>1, <1>8 DEF FeedInv, CoverInv
<1> QED BY <1>5, <1>6, <1>7, <1>9 DEF FeedInv

\* The read of a shell command becomes the projection.
LEMMA ShellShowsStep == ASSUME FeedInv, ShellShows PROVE FeedInv'
<1>1. /\ reads # <<>> /\ Head(reads).for = "shell" /\ Head(reads).answered
      /\ reads' = Tail(reads)
      /\ projection' = Reconciled(projection, Head(reads).messages)
      /\ UNCHANGED <<history, current, running, count, phase, commands, version, generation,
                     jobs, settledAt>>
  BY DEF ShellShows, Project, pi
<1>2. /\ Head(reads) = reads[1] /\ 1 \in DOMAIN reads /\ Head(reads).messages \in Seq(Msg)
      /\ \A i \in DOMAIN reads : reads[i].for \in {"shell", "settled"}
  BY <1>1, ReadsAre DEF FeedInv
<1>3. IsRows(projection') /\ projection'.messages = Head(reads).messages
  BY <1>1, <1>2, ReconciledRows DEF FeedInv, FeedTypes
<1>4. \A i \in DOMAIN reads : 1 < i => i - 1 \in DOMAIN reads' /\ reads'[i - 1] = reads[i]
  <2> HIDE DEF ReadSet
  <2>1. reads \in Seq(ReadSet)
    BY DEF FeedInv, FeedTypes
  <2>2. /\ Len(reads) \in Nat /\ DOMAIN reads = 1 .. Len(reads)
        /\ DOMAIN reads' = 1 .. Len(reads) - 1
        /\ \A i \in 1 .. Len(reads) - 1 : reads'[i] = reads[i + 1]
    BY <1>1, <2>1, FirstGone
  <2> QED BY <2>2
<1>5. Queued => Queued' /\ Pending'
  BY <1>1 DEF Queued, Pending
<1>6. CoverInv'
  <2> SUFFICES ASSUME projection'.messages # history
               PROVE  running \/ Pending' \/ \E i \in DOMAIN reads' : reads'[i].for = "shell"
    BY <1>1 DEF CoverInv
  <2>1. running \/ Queued \/ \E i \in DOMAIN reads : 1 < i
    BY <1>1, <1>2, <1>3 DEF FeedInv, AnswersInv
  <2>2. ASSUME NEW i \in DOMAIN reads, reads[i].for = "settled" PROVE Pending'
    <3>1. jobs # <<>> /\ jobs[1].stage = "reading"
      BY <2>2 DEF FeedInv, PlacesInv
    <3>2. 1 \in DOMAIN jobs
      BY <3>1, JobsAre DEF FeedInv, FeedTypes
    <3> QED BY <1>1, <3>1, <3>2 DEF Pending
  <2> QED BY <1>2, <1>4, <1>5, <2>1, <2>2
<1>7. IsJobs(jobs)
  BY DEF FeedInv, FeedTypes
<1> QED BY <1>1, <1>3, <1>5, <1>6, <1>7, TakenStep DEF FeedInv, PlacesInv

\* Nothing is known at first.
LEMMA FeedInit == Init => FeedInv
<1> SUFFICES ASSUME Init PROVE FeedInv
  OBVIOUS
<1>1. /\ DOMAIN history = {} /\ DOMAIN jobs = {} /\ DOMAIN reads = {}
      /\ ToSet(history) = {} /\ ToSet(current) = {} /\ current = <<>>
  BY DEF Init, ToSet
<1>2. projection = [messages |-> <<>>, active |-> 0, ids |-> <<>>, next |-> 1]
  BY DEF Init, NewRows
<1>3. IsRows(projection) /\ ToSet(projection.messages) = {} /\ projection.messages = history
  BY <1>2 DEF IsRows, Init, ToSet
<1>4. IsJobs(jobs)
  <2>1. jobs \in Seq(JobSet({}))
    BY DEF Init
  <2> QED BY <2>1 DEF IsJobs
<1>5. FeedTypes
  <2>1. history \in Seq(Msg) /\ reads \in Seq(ReadSet)
    BY DEF Init
  <2>2. /\ current = <<>> /\ running \in BOOLEAN /\ phase \in Phases /\ generation \in Nat
        /\ settledAt \in Nat
    BY DEF Init, Phases
  <2>3. count \in 0 .. MaxMessages /\ commands \in 0 .. MaxCommands /\ version \in 0 .. MaxRecords
    BY FeedAssumption DEF Init
  <2> QED BY <1>3, <1>4, <2>1, <2>2, <2>3 DEF FeedTypes
<1>6. NumbersInv /\ AnswersInv /\ CoverInv /\ LaterInv /\ NewestInv
  BY <1>1, <1>3 DEF NumbersInv, AnswersInv, CoverInv, LaterInv, NewestInv, Below
<1>7. PlacesInv
  BY <1>1, <1>4, JobsAre DEF PlacesInv, Init
<1> QED BY <1>5, <1>6, <1>7 DEF FeedInv

\* The steps that change a phase, count a record or begin a run.
LEMMA QuietSteps ==
  ASSUME FeedInv,
         \/ Start \/ Other \/ Admit \/ NoRun \/ CommandFails \/ CompactEnds
         \/ \E kind \in {"shell", "compact"} : Command(kind)
         \/ UNCHANGED vars
  PROVE  FeedInv'
<1>1. /\ phase \in Phases /\ commands \in 0 .. MaxCommands /\ version \in 0 .. MaxRecords
      /\ version \in Nat /\ commands \in Nat /\ generation \in Nat /\ settledAt \in Nat
      /\ settledAt <= generation /\ running \in BOOLEAN
      /\ phase \in {"accepted", "running"} => generation # settledAt
      /\ MaxCommands \in Nat /\ MaxRecords \in Nat
  BY FeedAssumption DEF FeedInv, FeedTypes, PlacesInv
<1>2. CASE Start
  <2>1. /\ UNCHANGED <<history, current, count, projection, jobs, reads, settledAt, unread, givenUp,
                       commands, generation>>
        /\ running' = TRUE /\ version' = version + 1 /\ version < MaxRecords
        /\ phase' = IF phase = "accepted" THEN "running" ELSE phase
    BY <1>2 DEF Start, Counted, ghosts
  <2> QED BY <1>1, <2>1, QuietStep DEF Phases
<1>3. CASE Other
  <2>1. /\ UNCHANGED <<history, current, running, count, projection, jobs, reads, settledAt, unread,
                       givenUp, commands, generation, phase>>
        /\ version' = version + 1 /\ version < MaxRecords
    BY <1>3 DEF Other, Counted, ghosts, pi
  <2> QED BY <1>1, <2>1, QuietStep
<1>4. CASE Admit
  <2>1. /\ UNCHANGED <<history, current, running, count, projection, jobs, reads, settledAt, unread,
                       givenUp, commands>>
        /\ version' = version + 1 /\ version < MaxRecords
        /\ generation' = generation + 1 /\ phase' = "accepted"
    BY <1>4 DEF Admit, Counted, ghosts, pi
  <2> QED BY <1>1, <2>1, QuietStep DEF Phases
<1>5. CASE NoRun \/ CommandFails \/ CompactEnds
  <2>1. /\ UNCHANGED <<history, current, running, count, projection, jobs, reads, settledAt, unread,
                       givenUp, commands, version, generation>>
        /\ phase' = "settled"
    BY <1>5 DEF NoRun, CommandFails, CompactEnds, ghosts, pi
  <2> QED BY <1>1, <2>1, QuietStep DEF Phases
<1>6. ASSUME NEW kind \in {"shell", "compact"}, Command(kind) PROVE FeedInv'
  <2>1. /\ UNCHANGED <<history, current, running, count, projection, jobs, reads, settledAt, unread,
                       givenUp, version, generation>>
        /\ phase' = kind /\ commands' = commands + 1 /\ commands < MaxCommands
    BY <1>6 DEF Command, ghosts, pi
  <2>2. phase' \in Phases /\ phase' \notin {"accepted", "running"}
    BY <2>1 DEF Phases
  <2> QED BY <1>1, <2>1, <2>2, QuietStep
<1>7. CASE UNCHANGED vars
  <2>1. UNCHANGED <<history, current, running, count, projection, jobs, reads, settledAt, unread,
                    givenUp, phase, commands, version, generation>>
    BY <1>7 DEF vars, ghosts, pi, service
  <2> QED BY <1>1, <2>1, QuietStep
<1> QED BY <1>2, <1>3, <1>4, <1>5, <1>6, <1>7

\* Every step keeps the invariant.
LEMMA FeedStep == FeedInv /\ [Next]_vars => FeedInv'
<1> SUFFICES ASSUME FeedInv, [Next]_vars PROVE FeedInv'
  OBVIOUS
<1>1. CASE RecordStep
  BY <1>1, QuietSteps, StartStep, UpdateStep, EndStep, RetryStep, SettleStep DEF RecordStep
<1>2. CASE UserStep
  BY <1>2, QuietSteps, ShellStep DEF UserStep
<1>3. CASE ReadStep
  BY <1>3, AskStep, AnswerStep, UnansweredStep, ReconcileStep, ReadAgainStep, GiveUpStep, SavedStep,
     ShellShowsStep DEF ReadStep
<1>4. CASE UNCHANGED vars
  BY <1>4, QuietSteps
<1> QED BY <1>1, <1>2, <1>3, <1>4 DEF Next

\* The invariant of the feed.
THEOREM FeedInvariant == Spec => []FeedInv
<1> QED BY FeedInit, FeedStep, PTL DEF Spec

\* The feed's variables have the values they are meant to have, and the
\* projection has an id for each of its messages.
THEOREM FeedTypeCorrect == Spec => []TypeOK
<1>1. FeedInv => TypeOK
  <2> SUFFICES ASSUME FeedInv PROVE TypeOK
    OBVIOUS
  <2>1. IsRows(projection)
    BY DEF FeedInv, FeedTypes
  <2>2. Len(projection.ids) = Len(projection.messages)
    <3>1. DOMAIN projection.ids = 1 .. Len(projection.messages) /\ Len(projection.messages) \in Nat
      BY <2>1 DEF IsRows
    <3> QED BY <3>1
  <2> QED BY <2>1, <2>2 DEF FeedInv, FeedTypes, IsRows, TypeOK
<1> QED BY <1>1, FeedInvariant, PTL

\* reconcileSettled: when the last run has settled, no read is under way and
\* none was refused or given up, the projection is Pi's history.
THEOREM RestReached == Spec => []RestIsHistory
<1>1. FeedInv => RestIsHistory
  <2> SUFFICES ASSUME FeedInv, AtRest, ~givenUp PROVE projection.messages = history
    BY DEF RestIsHistory
  <2>1. DOMAIN jobs = {} /\ DOMAIN reads = {}
    BY DEF AtRest, Idle
  <2> QED BY <2>1 DEF FeedInv, CoverInv, Pending, AtRest
<1> QED BY <1>1, FeedInvariant, PTL

\* reconcileSettled's check of the version: a settled read never takes away a
\* message that Pi ended after it answered.
THEOREM NewerMessagesKept == Spec => NewerKept
<1>1. FeedInv /\ Reconcile =>
        \A i \in DOMAIN projection.messages :
          projection.messages[i] \in ToSet(history) => projection.messages[i] \in ToSet(projection'.messages)
  <2> SUFFICES ASSUME FeedInv, Reconcile,
                      NEW i \in DOMAIN projection.messages, projection.messages[i] \in ToSet(history)
               PROVE  projection.messages[i] \in ToSet(projection'.messages)
    OBVIOUS
  <2>1. /\ SettledRead /\ Current
        /\ projection' = Reconciled(projection, Head(reads).messages)
    BY DEF Reconcile
  <2>2. /\ Head(reads) = reads[1] /\ 1 \in DOMAIN reads /\ reads[1].for = "settled"
        /\ reads[1].answered /\ reads[1].messages \in Seq(Msg)
        /\ jobs[1].version = version
    BY <2>1, SettledTaken DEF Current
  <2>3. projection'.messages = reads[1].messages
    BY <2>1, <2>2, ReconciledRows DEF FeedInv, FeedTypes
  <2>4. ToSet(projection.messages) \cap ToSet(history) \subseteq ToSet(reads[1].messages)
    BY <2>2 DEF FeedInv, NewestInv
  <2>5. projection.messages[i] \in ToSet(projection.messages)
    BY DEF ToSet
  <2> QED BY <2>3, <2>4, <2>5
<1>2. FeedInv /\ [Next]_vars =>
        [Reconcile => \A i \in DOMAIN projection.messages :
          projection.messages[i] \in ToSet(history) => projection.messages[i] \in ToSet(projection'.messages)]_vars
  BY <1>1
<1> QED BY <1>2, FeedInvariant, PTL DEF Spec, NewerKept

-----------------------------------------------------------------------------
(* Deltas: induction over the rows of a list and over the deltas to the    *)
(* next one.  The library's induction theorems take an operator; a set of  *)
(* numbers does as well.                                                   *)

\* Every set of numbers has a least one.
LEMMA Least ==
  ASSUME NEW T, T \subseteq Nat, T # {}
  PROVE  \E x \in T : \A y \in T : x <= y
<1>1. PICK x \in T : \A y \in T : ~ (<<y, x>> \in OpToRel(<, Nat))
  BY NatLessThanWellFounded, WFMin, Zenon
<1>2. \A y \in T : ~(y < x)
  BY <1>1 DEF OpToRel
<1> QED BY <1>2

\* What is in 0, and in each number after one that has it, is in all numbers.
LEMMA SetInduction ==
  ASSUME NEW S, 0 \in S, \A n \in Nat : n \in S => n + 1 \in S
  PROVE  Nat \subseteq S
<1> SUFFICES ASSUME Nat \ S # {} PROVE FALSE
  OBVIOUS
<1>1. PICK x \in Nat \ S : \A y \in Nat \ S : x <= y
  BY Least
<1>2. x # 0 /\ x - 1 \in Nat /\ x - 1 \in S
  BY <1>1
<1> QED BY <1>1, <1>2

\* What is selected from s, one position after the other (the function of Selected).
UpTo(s, I, N, f) ==
  f = [n \in 0..N |-> IF n = 0 THEN <<>> ELSE IF n \in I THEN Append(f[n - 1], s[n]) ELSE f[n - 1]]

\* Such a function exists: it is built one position after the other.
LEMMA UpToExists ==
  ASSUME NEW s, NEW I, NEW N \in Nat
  PROVE  \E f : UpTo(s, I, N, f)
<1> DEFINE S == {m \in Nat : \E f : UpTo(s, I, m, f)}
<1>1. 0 \in S
  <2>1. UpTo(s, I, 0, [n \in 0..0 |-> <<>>])
    BY DEF UpTo
  <2> QED BY <2>1
<1>2. ASSUME NEW n \in Nat, n \in S PROVE n + 1 \in S
  <2>1. PICK f : UpTo(s, I, n, f)
    BY <1>2
  <2> DEFINE last == IF n + 1 \in I THEN Append(f[n], s[n + 1]) ELSE f[n]
             g == [m \in 0..(n + 1) |-> IF m = n + 1 THEN last ELSE f[m]]
  <2>2. ASSUME NEW m \in 0..(n + 1)
        PROVE  g[m] = IF m = 0 THEN <<>> ELSE IF m \in I THEN Append(g[m - 1], s[m]) ELSE g[m - 1]
    <3>1. CASE m = n + 1
      <4>1. g[m] = last /\ g[m - 1] = f[n] /\ m # 0
        BY <3>1
      <4> QED BY <3>1, <4>1
    <3>2. CASE m # n + 1 /\ m # 0
      <4>1. m \in 0..n /\ m - 1 \in 0..(n + 1) /\ m - 1 # n + 1
        BY <3>2
      <4>2. g[m] = f[m] /\ g[m - 1] = f[m - 1]
        BY <3>2, <4>1
      <4> HIDE DEF g
      <4> QED BY <2>1, <3>2, <4>1, <4>2 DEF UpTo
    <3>3. CASE m = 0
      <4>1. g[m] = f[0] /\ f[0] = <<>>
        BY <2>1, <3>3 DEF UpTo
      <4> QED BY <4>1, <3>3
    <3> QED BY <3>1, <3>2, <3>3
  <2>3. UpTo(s, I, n + 1, g)
    <3> DEFINE h == [m \in 0..(n + 1) |-> IF m = 0 THEN <<>> ELSE IF m \in I THEN Append(g[m - 1], s[m]) ELSE g[m - 1]]
    <3>1. DOMAIN g = 0..(n + 1)
      OBVIOUS
    <3>2. g = [m \in 0..(n + 1) |-> g[m]]
      OBVIOUS
    <3>3. g = h
      <4> HIDE DEF g
      <4> QED BY <2>2, <3>2
    <3> HIDE DEF g
    <3> QED BY <3>3 DEF UpTo
  <2> QED BY <2>3
<1> HIDE DEF S
<1>3. Nat \subseteq S
  BY <1>1, <1>2, SetInduction
<1> QED BY <1>3 DEF S

\* Selected is its value at the end.
LEMMA SelectedUnfolds ==
  ASSUME NEW s, NEW I, Len(s) \in Nat
  PROVE  \E f : UpTo(s, I, Len(s), f) /\ Selected(s, I) = f[Len(s)]
<1> DEFINE f == CHOOSE f : UpTo(s, I, Len(s), f)
<1>1. UpTo(s, I, Len(s), f)
  BY UpToExists, Zenon
<1>2. Selected(s, I) = f[Len(s)]
  BY Zenon DEF Selected, UpTo
<1> QED BY <1>1, <1>2

\* What is selected up to each position, from what is selected before it.
Selects(s, I, f) ==
  /\ Selected(s, I) = f[Len(s)] /\ f[0] = <<>>
  /\ \A n \in 1..Len(s) : f[n] = IF n \in I THEN Append(f[n - 1], s[n]) ELSE f[n - 1]

\* Selected, position by position.
LEMMA SelectedStep ==
  ASSUME NEW s, NEW I, Len(s) \in Nat
  PROVE  \E f : Selects(s, I, f)
<1>1. PICK f : UpTo(s, I, Len(s), f) /\ Selected(s, I) = f[Len(s)]
  BY SelectedUnfolds
<1>2. f[0] = <<>>
  BY <1>1 DEF UpTo
<1>3. ASSUME NEW n \in 1..Len(s) PROVE f[n] = IF n \in I THEN Append(f[n - 1], s[n]) ELSE f[n - 1]
  <2>1. n \in 0..Len(s) /\ n # 0
    OBVIOUS
  <2>2. f = [m \in 0..Len(s) |-> IF m = 0 THEN <<>> ELSE IF m \in I THEN Append(f[m - 1], s[m]) ELSE f[m - 1]]
    BY <1>1 DEF UpTo
  <2> QED BY <2>1, <2>2, Zenon
<1> QED BY <1>1, <1>2, <1>3, Zenon DEF Selects

\* The first positions select a prefix.
LEMMA SelectedPrefix ==
  ASSUME NEW X, NEW s \in Seq(X), NEW k \in 0..Len(s)
  PROVE  Selected(s, 1..k) = SubSeq(s, 1, k)
<1>1. PICK f : /\ Selected(s, 1..k) = f[Len(s)] /\ f[0] = <<>>
               /\ \A n \in 1..Len(s) : f[n] = IF n \in 1..k THEN Append(f[n - 1], s[n]) ELSE f[n - 1]
  <2>1. Len(s) \in Nat
    OBVIOUS
  <2>2. \E f : Selects(s, 1..k, f)
    BY <2>1, SelectedStep, Zenon
  <2> QED BY <2>2, Zenon DEF Selects
<1> DEFINE least(n) == IF n <= k THEN n ELSE k
           S == {n \in Nat : n <= Len(s) => f[n] = SubSeq(s, 1, least(n))}
<1>2. 0 \in S
  <2>1. SubSeq(s, 1, 0) = <<>> /\ least(0) = 0
    OBVIOUS
  <2> QED BY <1>1, <2>1
<1>3. ASSUME NEW n \in Nat, n \in S PROVE n + 1 \in S
  <2> SUFFICES ASSUME n + 1 <= Len(s) PROVE f[n + 1] = SubSeq(s, 1, least(n + 1))
    OBVIOUS
  <2>1. f[n] = SubSeq(s, 1, least(n))
    BY <1>3
  <2>2. n + 1 \in 1..Len(s) /\ (n + 1) - 1 = n
    OBVIOUS
  <2>3. f[n + 1] = IF n + 1 \in 1..k THEN Append(f[n], s[n + 1]) ELSE f[n]
    BY <1>1, <2>2
  <2>4. CASE n + 1 <= k
    <3>1. Append(SubSeq(s, 1, n), s[n + 1]) = SubSeq(s, 1, n + 1)
      BY <2>2
    <3> QED BY <2>1, <2>3, <2>4, <3>1
  <2>5. CASE ~(n + 1 <= k)
    <3>1. least(n + 1) = k /\ least(n) = k
      BY <2>5
    <3> QED BY <2>1, <2>3, <2>5, <3>1
  <2> QED BY <2>4, <2>5
<1> HIDE DEF S
<1>4. Len(s) \in S
  BY <1>2, <1>3, SetInduction
<1> QED BY <1>1, <1>4 DEF S

\* The snapshot after each of the deltas (the function of Applied).
After(w, ds, N, f) ==
  f = [n \in 0..N |-> IF n = 0 THEN w ELSE AppliedDelta(f[n - 1], ds[n])]

\* Such a function exists.
LEMMA AfterExists ==
  ASSUME NEW w, NEW ds, NEW N \in Nat
  PROVE  \E f : After(w, ds, N, f)
<1> DEFINE S == {m \in Nat : \E f : After(w, ds, m, f)}
<1>1. 0 \in S
  <2>1. After(w, ds, 0, [n \in 0..0 |-> w])
    BY DEF After
  <2> QED BY <2>1
<1>2. ASSUME NEW n \in Nat, n \in S PROVE n + 1 \in S
  <2>1. PICK f : After(w, ds, n, f)
    BY <1>2
  <2> DEFINE g == [m \in 0..(n + 1) |-> IF m = n + 1 THEN AppliedDelta(f[n], ds[n + 1]) ELSE f[m]]
  <2>2. ASSUME NEW m \in 0..(n + 1)
        PROVE  g[m] = IF m = 0 THEN w ELSE AppliedDelta(g[m - 1], ds[m])
    <3>1. CASE m = n + 1
      <4>1. g[m] = AppliedDelta(f[n], ds[n + 1]) /\ g[m - 1] = f[n] /\ m # 0
        BY <3>1
      <4> QED BY <3>1, <4>1
    <3>2. CASE m # n + 1 /\ m # 0
      <4>1. m \in 0..n /\ m - 1 \in 0..(n + 1) /\ m - 1 # n + 1
        BY <3>2
      <4>2. g[m] = f[m] /\ g[m - 1] = f[m - 1]
        BY <3>2, <4>1
      <4> HIDE DEF g
      <4> QED BY <2>1, <3>2, <4>1, <4>2 DEF After
    <3>3. CASE m = 0
      <4>1. g[m] = f[0] /\ f[0] = w
        BY <2>1, <3>3 DEF After
      <4> QED BY <4>1, <3>3
    <3> QED BY <3>1, <3>2, <3>3
  <2>3. After(w, ds, n + 1, g)
    <3>1. g = [m \in 0..(n + 1) |-> g[m]]
      OBVIOUS
    <3> HIDE DEF g
    <3>2. g = [m \in 0..(n + 1) |-> IF m = 0 THEN w ELSE AppliedDelta(g[m - 1], ds[m])]
      BY <2>2, <3>1
    <3> QED BY <3>2 DEF After
  <2> QED BY <2>3
<1> HIDE DEF S
<1>3. Nat \subseteq S
  BY <1>1, <1>2, SetInduction
<1> QED BY <1>3 DEF S

\* Applied is its value at the end, each value is the one before with one more delta.
LEMMA AppliedUnfolds ==
  ASSUME NEW w, NEW ds, Len(ds) \in Nat
  PROVE  \E f : /\ Applied(w, ds) = f[Len(ds)] /\ f[0] = w
                /\ \A n \in 1..Len(ds) : f[n] = AppliedDelta(f[n - 1], ds[n])
<1> DEFINE f == CHOOSE f : After(w, ds, Len(ds), f)
<1>1. After(w, ds, Len(ds), f)
  BY AfterExists, Zenon
<1>2. Applied(w, ds) = f[Len(ds)]
  BY Zenon DEF Applied, After
<1> HIDE DEF f
<1>3. f[0] = w
  BY <1>1 DEF After
<1>4. \A n \in 1..Len(ds) : f[n] = AppliedDelta(f[n - 1], ds[n])
  BY <1>1 DEF After
<1> QED BY <1>2, <1>3, <1>4

\* No deltas change nothing.
LEMMA AppliedNone ==
  ASSUME NEW w PROVE Applied(w, <<>>) = w
<1>1. Len(<<>>) = 0
  OBVIOUS
<1> QED BY <1>1, AppliedUnfolds

\* One more delta is applied to what the others have made.
LEMMA AppliedAppend ==
  ASSUME NEW D, NEW w, NEW ds \in Seq(D), NEW d \in D
  PROVE  Applied(w, Append(ds, d)) = AppliedDelta(Applied(w, ds), d)
<1> DEFINE es == Append(ds, d)
<1>1. /\ Len(ds) \in Nat /\ Len(es) = Len(ds) + 1 /\ Len(es) \in Nat /\ es[Len(es)] = d
      /\ \A n \in 1..Len(ds) : es[n] = ds[n]
  OBVIOUS
<1> HIDE DEF es
<1>2. PICK f : /\ Applied(w, ds) = f[Len(ds)] /\ f[0] = w
               /\ \A n \in 1..Len(ds) : f[n] = AppliedDelta(f[n - 1], ds[n])
  BY <1>1, AppliedUnfolds
<1>3. PICK g : /\ Applied(w, es) = g[Len(es)] /\ g[0] = w
               /\ \A n \in 1..Len(es) : g[n] = AppliedDelta(g[n - 1], es[n])
  BY <1>1, AppliedUnfolds
<1> DEFINE S == {n \in Nat : n <= Len(ds) => g[n] = f[n]}
<1>4. 0 \in S
  BY <1>2, <1>3
<1>5. ASSUME NEW n \in Nat, n \in S PROVE n + 1 \in S
  <2> SUFFICES ASSUME n + 1 <= Len(ds) PROVE g[n + 1] = f[n + 1]
    OBVIOUS
  <2>1. n + 1 \in 1..Len(ds) /\ n + 1 \in 1..Len(es) /\ (n + 1) - 1 = n /\ g[n] = f[n]
    BY <1>1, <1>5
  <2> QED BY <1>1, <1>2, <1>3, <2>1
<1> HIDE DEF S
<1>6. g[Len(ds)] = f[Len(ds)]
  <2>1. Len(ds) \in S
    BY <1>1, <1>4, <1>5, SetInduction
  <2> QED BY <1>1, <2>1 DEF S
<1>7. g[Len(es)] = AppliedDelta(g[Len(ds)], d)
  <2>1. Len(es) \in 1..Len(es) /\ Len(es) - 1 = Len(ds)
    BY <1>1
  <2> QED BY <1>1, <1>3, <2>1
<1> QED BY <1>2, <1>3, <1>6, <1>7 DEF es

\* A row.
AnyRow == [id : Nat, of : Nat, size : Nat, streaming : BOOLEAN]

\* No two rows have the same id.
IdsDistinct(rows) == \A i, j \in DOMAIN rows : rows[i].id = rows[j].id => i = j

\* Rows are kept as long as both lists have them with the same ids.
LEMMA KeptRows ==
  ASSUME NEW prev \in Seq(AnyRow), NEW next \in Seq(AnyRow)
  PROVE  /\ Kept(prev, next) \in Nat /\ Kept(prev, next) <= Len(prev) /\ Kept(prev, next) <= Len(next)
         /\ \A i \in 1..Kept(prev, next) : prev[i].id = next[i].id
<1> DEFINE same(i) == i <= Len(prev) /\ i <= Len(next) /\ prev[i].id = next[i].id
           good(k) == ~same(k + 1) /\ \A i \in 1..k : same(i)
           T == {k \in Nat : ~same(k + 1)}
<1>0. Len(prev) \in Nat /\ Len(next) \in Nat
  OBVIOUS
<1>1. Len(next) \in T
  <2>1. ~(Len(next) + 1 <= Len(next))
    BY <1>0
  <2> QED BY <1>0, <2>1
<1>2. PICK k \in T : \A j \in T : k <= j
  <2> HIDE DEF T
  <2>1. T \subseteq Nat
    BY DEF T
  <2> QED BY <1>1, <2>1, Least
<1>3. k \in 0..Len(next)
  BY <1>0, <1>1, <1>2
<1>4. \A i \in 1..k : same(i)
  <2> SUFFICES ASSUME NEW i \in 1..k PROVE same(i)
    OBVIOUS
  <2>1. i - 1 \in Nat /\ ~(k <= i - 1) /\ (i - 1) + 1 = i
    BY <1>3
  <2> HIDE DEF same
  <2> QED BY <1>2, <2>1
<1>5. good(k)
  BY <1>2, <1>4
<1>6. Kept(prev, next) = CHOOSE c \in 0..Len(next) : good(c)
  BY Zenon DEF Kept
<1> DEFINE c == Kept(prev, next)
<1>7. c \in 0..Len(next) /\ good(c)
  <2> HIDE DEF good, c
  <2> QED BY <1>3, <1>5, <1>6, Zenon DEF c
<1>8. c <= Len(prev)
  <2>1. CASE c = 0
    BY <1>0, <2>1
  <2>2. CASE c # 0
    <3>1. c \in 1..c
      BY <1>7, <2>2
    <3> QED BY <1>7, <3>1
  <2> QED BY <2>1, <2>2
<1> QED BY <1>7, <1>8

\* The delta of a row that changed makes it the new one and touches no other.
LEMMA ChangeApplied ==
  ASSUME NEW w \in Seq(AnyRow), NEW n \in DOMAIN w, NEW row \in AnyRow,
         w[n].id = row.id, w[n] # row, IdsDistinct(w)
  PROVE  AppliedDelta(w, Change(w[n], row)) = [i \in DOMAIN w |-> IF i = n THEN row ELSE w[i]]
<1> DEFINE old == w[n]
<1>1. \A i \in DOMAIN w : (w[i].id = row.id) <=> (i = n)
  BY DEF IdsDistinct
<1>2. old \in AnyRow
  OBVIOUS
<1>3. CASE ~Grows(old, row)
  <2>1. Change(old, row) = [op |-> "upserted", row |-> row]
    BY <1>3 DEF Change
  <2>2. AppliedDelta(w, [op |-> "upserted", row |-> row]) = [i \in DOMAIN w |-> IF w[i].id = row.id THEN row ELSE w[i]]
    BY DEF AppliedDelta
  <2> QED BY <1>1, <2>1, <2>2
<1>4. CASE Grows(old, row)
  <2> DEFINE by == row.size - old.size
  <2>1. Change(old, row) = [op |-> "delta", id |-> row.id, by |-> by]
    BY <1>4 DEF Change
  <2>2. AppliedDelta(w, [op |-> "delta", id |-> row.id, by |-> by])
        = [i \in DOMAIN w |-> IF w[i].id = row.id THEN [w[i] EXCEPT !.size = @ + by] ELSE w[i]]
    BY DEF AppliedDelta
  <2>3. [old EXCEPT !.size = @ + by] = row
    <3> DEFINE new == [old EXCEPT !.size = @ + by]
    <3>1. old.size \in Nat /\ row.size \in Nat
      BY <1>2 DEF AnyRow
    <3>2. old.size + by = row.size
      BY <3>1
    <3>3. new \in AnyRow
      BY <1>2, <3>1, <3>2 DEF AnyRow
    <3>4. /\ new.id = row.id /\ new.of = row.of /\ new.size = row.size /\ new.streaming = row.streaming
      BY <1>2, <1>4, <3>1, <3>2 DEF AnyRow, Grows
    <3> HIDE DEF new
    <3> QED BY <3>3, <3>4 DEF AnyRow, new
  <2> HIDE DEF by
  <2> QED BY <1>1, <2>1, <2>2, <2>3
<1> QED BY <1>3, <1>4

\* The first n rows are already the new ones.
Mixed(prev, next, n) == [i \in DOMAIN prev |-> IF i <= n THEN next[i] ELSE prev[i]]

\* The deltas that lead from one list to the other.
Deltas(prev, next) ==
  {Change(prev[i], next[i]) : i \in DOMAIN prev} \cup {[op |-> "removed", from |-> prev[i].id] : i \in DOMAIN prev}
    \cup {[op |-> "appended", row |-> next[i]] : i \in DOMAIN next}

\* The deltas of the kept rows make them the new ones.
LEMMA ChangesApplied ==
  ASSUME NEW prev \in Seq(AnyRow), NEW next \in Seq(AnyRow), IdsDistinct(prev),
         NEW k \in Nat, k <= Len(prev), k <= Len(next), \A i \in 1..k : prev[i].id = next[i].id
  PROVE  /\ Changes(prev, next, k) \in Seq(Deltas(prev, next))
         /\ Applied(prev, Changes(prev, next, k)) = Mixed(prev, next, k)
<1> DEFINE D == Deltas(prev, next)
           s == [i \in 1..k |-> Change(prev[i], next[i])]
           I == {i \in 1..k : prev[i] # next[i]}
<1>1. Changes(prev, next, k) = Selected(s, I)
  BY DEF Changes
<1>2. Len(s) = k /\ DOMAIN s = 1..k
  OBVIOUS
<1>3. \A i \in 1..k : s[i] = Change(prev[i], next[i]) /\ s[i] \in D
  <2> SUFFICES ASSUME NEW i \in 1..k PROVE s[i] = Change(prev[i], next[i]) /\ s[i] \in D
    OBVIOUS
  <2>1. i \in DOMAIN prev
    OBVIOUS
  <2>2. s[i] = Change(prev[i], next[i])
    OBVIOUS
  <2> HIDE DEF s
  <2> QED BY <2>1, <2>2 DEF Deltas
<1> HIDE DEF s, D
<1>4. PICK f : Selects(s, I, f)
  BY <1>2, SelectedStep, Zenon
<1>5. /\ Selected(s, I) = f[k] /\ f[0] = <<>>
      /\ \A n \in 1..k : f[n] = IF n \in I THEN Append(f[n - 1], s[n]) ELSE f[n - 1]
  BY <1>2, <1>4, Zenon DEF Selects
<1> DEFINE S == {n \in Nat : n <= k => f[n] \in Seq(D) /\ Applied(prev, f[n]) = Mixed(prev, next, n)}
<1>6. 0 \in S
  <2>1. Mixed(prev, next, 0) = prev
    <3>1. \A i \in DOMAIN prev : ~(i <= 0)
      OBVIOUS
    <3> QED BY <3>1 DEF Mixed
  <2>2. <<>> \in Seq(D)
    OBVIOUS
  <2> QED BY <1>5, <2>1, <2>2, AppliedNone
<1>7. ASSUME NEW n \in Nat, n \in S PROVE n + 1 \in S
  <2> SUFFICES ASSUME n + 1 <= k PROVE f[n + 1] \in Seq(D) /\ Applied(prev, f[n + 1]) = Mixed(prev, next, n + 1)
    OBVIOUS
  <2> DEFINE m == n + 1
             w == Mixed(prev, next, n)
  <2>1. m \in 1..k /\ m - 1 = n /\ m \in DOMAIN prev /\ m \in DOMAIN next
    OBVIOUS
  <2>2. f[n] \in Seq(D) /\ Applied(prev, f[n]) = w
    BY <1>7
  <2>3. f[m] = IF m \in I THEN Append(f[n], s[m]) ELSE f[n]
    BY <1>5, <2>1
  <2>4. /\ w \in Seq(AnyRow) /\ DOMAIN w = DOMAIN prev /\ w[m] = prev[m]
        /\ \A i \in DOMAIN prev : w[i].id = prev[i].id
    <3>1. DOMAIN prev = 1..Len(prev)
      OBVIOUS
    <3>2. \A i \in DOMAIN prev : w[i] = IF i <= n THEN next[i] ELSE prev[i]
      BY DEF Mixed
    <3>3. \A i \in DOMAIN prev : i <= n => i \in 1..k /\ i \in DOMAIN next
      OBVIOUS
    <3>4. \A i \in DOMAIN prev : w[i] \in AnyRow
      BY <3>2, <3>3
    <3>5. w = [i \in 1..Len(prev) |-> w[i]]
      BY <3>1 DEF Mixed
    <3>6. w \in Seq(AnyRow)
      <4> HIDE DEF w
      <4> QED BY <3>1, <3>4, <3>5
    <3> QED BY <2>1, <3>2, <3>3, <3>6 DEF Mixed
  <2>5. Mixed(prev, next, m) = [i \in DOMAIN w |-> IF i = m THEN next[m] ELSE w[i]]
    <3>1. \A i \in DOMAIN prev : (i <= m <=> i = m \/ i <= n) /\ (i = m => ~(i <= n))
      OBVIOUS
    <3> QED BY <2>4, <3>1 DEF Mixed
  <2>6. CASE m \in I
    <3>1. IdsDistinct(w)
      BY <2>4 DEF IdsDistinct
    <3>2. next[m] \in AnyRow /\ w[m].id = next[m].id /\ w[m] # next[m] /\ m \in DOMAIN w
      BY <2>1, <2>4, <2>6
    <3> HIDE DEF w, m
    <3>3. AppliedDelta(w, Change(w[m], next[m])) = [i \in DOMAIN w |-> IF i = m THEN next[m] ELSE w[i]]
      BY <2>4, <3>1, <3>2, ChangeApplied
    <3>4. s[m] \in D /\ s[m] = Change(w[m], next[m])
      BY <1>3, <2>1, <2>4
    <3>5. Applied(prev, Append(f[n], s[m])) = AppliedDelta(w, s[m])
      BY <2>2, <3>4, AppliedAppend
    <3>6. f[m] = Append(f[n], s[m]) /\ Append(f[n], s[m]) \in Seq(D)
      BY <2>2, <2>3, <2>6, <3>4
    <3> QED BY <2>5, <3>3, <3>4, <3>5, <3>6 DEF m
  <2>7. CASE m \notin I
    <3>1. next[m] = w[m]
      BY <2>1, <2>4, <2>7
    <3>2. Mixed(prev, next, m) = w
      <4>1. w = [i \in DOMAIN w |-> w[i]]
        BY DEF Mixed
      <4> HIDE DEF w
      <4> QED BY <2>5, <3>1, <4>1
    <3> QED BY <2>2, <2>3, <2>7, <3>2
  <2> QED BY <2>6, <2>7
<1>8. k \in S
  <2> HIDE DEF S
  <2> QED BY <1>6, <1>7, SetInduction
<1> QED BY <1>1, <1>5, <1>8 DEF D

\* The removal leaves the kept rows.
LEMMA CutApplied ==
  ASSUME NEW prev \in Seq(AnyRow), NEW next \in Seq(AnyRow), NEW k \in Nat, k < Len(prev), k <= Len(next),
         \A i \in 1..k : prev[i].id = next[i].id,
         \A i \in DOMAIN prev : prev[i].id < prev[k + 1].id <=> i <= k
  PROVE  AppliedDelta(Mixed(prev, next, k), [op |-> "removed", from |-> prev[k + 1].id]) = SubSeq(next, 1, k)
<1> DEFINE w == Mixed(prev, next, k)
           from == prev[k + 1].id
<1>1. /\ DOMAIN w = 1..Len(prev)
      /\ \A i \in DOMAIN prev : w[i] = IF i <= k THEN next[i] ELSE prev[i]
  BY DEF Mixed
<1>2. w \in Seq(AnyRow) /\ Len(w) = Len(prev)
  <2>1. \A i \in DOMAIN prev : w[i] \in AnyRow
    <3>1. \A i \in DOMAIN prev : i <= k => i \in DOMAIN next
      OBVIOUS
    <3> HIDE DEF w
    <3> QED BY <1>1, <3>1
  <2>2. w = [i \in 1..Len(prev) |-> w[i]] /\ DOMAIN prev = 1..Len(prev) /\ Len(prev) \in Nat
    BY DEF Mixed
  <2> HIDE DEF w
  <2> QED BY <2>1, <2>2
<1>3. \A i \in DOMAIN prev : w[i].id = prev[i].id
  <2>1. \A i \in DOMAIN prev : i <= k => i \in 1..k
    OBVIOUS
  <2> HIDE DEF w
  <2> QED BY <1>1, <2>1
<1> HIDE DEF w
<1>4. {i \in DOMAIN w : w[i].id < from} = 1..k
  <2>1. \A i \in DOMAIN w : (w[i].id < from) <=> i <= k
    BY <1>1, <1>3
  <2>2. \A i : i \in 1..k <=> i \in DOMAIN w /\ i <= k
    BY <1>1
  <2> HIDE DEF from
  <2> QED BY <2>1, <2>2
<1>5. AppliedDelta(w, [op |-> "removed", from |-> from]) = Selected(w, {i \in DOMAIN w : w[i].id < from})
  BY DEF AppliedDelta
<1>6. Selected(w, 1..k) = SubSeq(w, 1, k)
  BY <1>2, SelectedPrefix
<1>7. SubSeq(w, 1, k) = SubSeq(next, 1, k)
  BY <1>1, <1>2
<1> QED BY <1>4, <1>5, <1>6, <1>7 DEF w

\* One more element of the tail.
LEMMA LongerBy ==
  ASSUME NEW D, NEW base \in Seq(D), NEW tail \in Seq(D), NEW m \in Nat, m + 1 <= Len(tail)
  PROVE  /\ base \o SubSeq(tail, 1, m) \in Seq(D) /\ tail[m + 1] \in D
         /\ base \o SubSeq(tail, 1, m + 1) = Append(base \o SubSeq(tail, 1, m), tail[m + 1])
<1>1. SubSeq(tail, 1, m + 1) = Append(SubSeq(tail, 1, m), tail[m + 1])
  OBVIOUS
<1>2. tail[m + 1] \in D /\ SubSeq(tail, 1, m) \in Seq(D)
  OBVIOUS
<1> DEFINE t == SubSeq(tail, 1, m)
<1> HIDE DEF t
<1>3. base \o Append(t, tail[m + 1]) = Append(base \o t, tail[m + 1])
  BY <1>2 DEF t
<1> QED BY <1>1, <1>2, <1>3 DEF t

\* The rows that are appended complete the list.
LEMMA TailApplied ==
  ASSUME NEW prev \in Seq(AnyRow), NEW next \in Seq(AnyRow), NEW k \in Nat, k <= Len(next),
         NEW base \in Seq(Deltas(prev, next)), Applied(prev, base) = SubSeq(next, 1, k)
  PROVE  Applied(prev, base \o [i \in 1..(Len(next) - k) |-> [op |-> "appended", row |-> next[k + i]]]) = next
<1> DEFINE D == Deltas(prev, next)
           N == Len(next) - k
           tail == [i \in 1..N |-> [op |-> "appended", row |-> next[k + i]]]
           S == {m \in Nat : m <= N => Applied(prev, base \o SubSeq(tail, 1, m)) = SubSeq(next, 1, k + m)}
<1>1. N \in Nat /\ Len(tail) = N
  OBVIOUS
<1>2. \A i \in 1..N : tail[i] = [op |-> "appended", row |-> next[k + i]]
  OBVIOUS
<1>3. tail \in Seq(D)
  <2>1. ASSUME NEW i \in 1..N PROVE tail[i] \in D
    <3>1. k + i \in DOMAIN next
      OBVIOUS
    <3> HIDE DEF tail
    <3> QED BY <1>2, <3>1 DEF Deltas
  <2>2. tail = [i \in 1..N |-> tail[i]]
    OBVIOUS
  <2> HIDE DEF tail, D
  <2> QED BY <1>1, <2>1, <2>2
<1> HIDE DEF tail, D, N
<1>4. 0 \in S
  <2>1. SubSeq(tail, 1, 0) = <<>> /\ base \o <<>> = base /\ k + 0 = k
    BY <1>3
  <2>2. Applied(prev, base \o SubSeq(tail, 1, 0)) = SubSeq(next, 1, k + 0)
    BY <2>1
  <2> QED BY <2>2
<1>5. ASSUME NEW m \in Nat, m \in S PROVE m + 1 \in S
  <2> SUFFICES ASSUME m + 1 <= N
               PROVE  Applied(prev, base \o SubSeq(tail, 1, m + 1)) = SubSeq(next, 1, k + (m + 1))
    OBVIOUS
  <2> DEFINE t == base \o SubSeq(tail, 1, m)
  <2>1. Applied(prev, t) = SubSeq(next, 1, k + m)
    BY <1>1, <1>5
  <2>2. base \in Seq(D) /\ m + 1 <= Len(tail)
    BY <1>1 DEF D
  <2>3. t \in Seq(D) /\ tail[m + 1] \in D /\ base \o SubSeq(tail, 1, m + 1) = Append(t, tail[m + 1])
    BY <1>3, <2>2, LongerBy
  <2>4. tail[m + 1] = [op |-> "appended", row |-> next[k + (m + 1)]]
    <3>1. m + 1 \in 1..N
      BY <1>1
    <3> QED BY <1>2, <3>1
  <2> HIDE DEF t
  <2>5. Applied(prev, Append(t, tail[m + 1])) = AppliedDelta(SubSeq(next, 1, k + m), tail[m + 1])
    <3> DEFINE d == tail[m + 1]
    <3>1. d \in D /\ t \in Seq(D)
      BY <2>3
    <3> HIDE DEF d
    <3>2. Applied(prev, Append(t, d)) = AppliedDelta(Applied(prev, t), d)
      BY <3>1, AppliedAppend
    <3> QED BY <2>1, <3>2 DEF d
  <2>6. AppliedDelta(SubSeq(next, 1, k + m), tail[m + 1]) = Append(SubSeq(next, 1, k + m), next[k + (m + 1)])
    BY <2>4 DEF AppliedDelta
  <2>7. Append(SubSeq(next, 1, k + m), next[k + (m + 1)]) = SubSeq(next, 1, k + (m + 1))
    BY DEF N
  <2> QED BY <2>3, <2>5, <2>6, <2>7
<1>6. N \in S
  <2> HIDE DEF S
  <2> QED BY <1>1, <1>4, <1>5, SetInduction
<1>7. SubSeq(tail, 1, N) = tail /\ SubSeq(next, 1, k + N) = next
  BY <1>1, <1>3 DEF N
<1>8. Applied(prev, base \o tail) = next
  <2>1. Applied(prev, base \o SubSeq(tail, 1, N)) = SubSeq(next, 1, k + N)
    BY <1>1, <1>6
  <2> QED BY <1>7, <2>1
<1> QED BY <1>8 DEF tail, N

\* diffPiMessageRows and applyConversationDeltas: the deltas from one list of rows
\* to another, applied to the first, make the second, whatever was changed,
\* inserted, cut or replaced, when ids tell the rows that are kept from the others.
THEOREM DeltasRebuild ==
  ASSUME NEW prev \in Seq(AnyRow), NEW next \in Seq(AnyRow), IdsDistinct(prev), CutClean(prev, next)
  PROVE  Applied(prev, Diff(prev, next)) = next
<1> DEFINE k == Kept(prev, next)
           changes == Changes(prev, next, k)
           cut == [op |-> "removed", from |-> prev[k + 1].id]
           removed == IF k < Len(prev) THEN <<cut>> ELSE <<>>
           tail == [i \in 1..(Len(next) - k) |-> [op |-> "appended", row |-> next[k + i]]]
           base == changes \o removed
           D == Deltas(prev, next)
<1>1. Diff(prev, next) = base \o tail
  BY DEF Diff
<1>2. /\ k \in Nat /\ k <= Len(prev) /\ k <= Len(next)
      /\ \A i \in 1..k : prev[i].id = next[i].id
  BY KeptRows
<1>3. changes \in Seq(D) /\ Applied(prev, changes) = Mixed(prev, next, k)
  <2> HIDE DEF k
  <2> QED BY <1>2, ChangesApplied
<1>4. k < Len(prev) => \A i \in DOMAIN prev : prev[i].id < prev[k + 1].id <=> i <= k
  BY DEF CutClean
<1> HIDE DEF k, changes
<1>5. base \in Seq(D) /\ Applied(prev, base) = SubSeq(next, 1, k)
  <2>1. CASE k < Len(prev)
    <3>1. cut \in D
      <4>1. k + 1 \in DOMAIN prev
        BY <1>2, <2>1
      <4> QED BY <4>1 DEF Deltas
    <3>2. AppliedDelta(Mixed(prev, next, k), cut) = SubSeq(next, 1, k)
      BY <1>2, <1>4, <2>1, CutApplied
    <3> HIDE DEF cut, D
    <3>3. base = Append(changes, cut)
      BY <1>3, <2>1, <3>1
    <3>4. Applied(prev, Append(changes, cut)) = AppliedDelta(Mixed(prev, next, k), cut)
      BY <1>3, <3>1, AppliedAppend
    <3>5. Append(changes, cut) \in Seq(D)
      BY <1>3, <3>1
    <3> HIDE DEF base
    <3> QED BY <3>2, <3>3, <3>4, <3>5
  <2>2. CASE ~(k < Len(prev))
    <3>1. base = changes
      <4> HIDE DEF D
      <4> QED BY <1>3, <2>2
    <3>2. Mixed(prev, next, k) = SubSeq(next, 1, k)
      <4>1. DOMAIN prev = 1..k /\ \A i \in DOMAIN prev : i <= k
        BY <1>2, <2>2
      <4>2. Mixed(prev, next, k) = [i \in 1..k |-> next[i]]
        BY <4>1 DEF Mixed
      <4>3. SubSeq(next, 1, k) = [i \in 1..k |-> next[i]]
        BY <1>2
      <4> QED BY <4>2, <4>3
    <3> HIDE DEF base
    <3> QED BY <1>3, <3>1, <3>2
  <2> QED BY <2>1, <2>2
<1>6. Applied(prev, base \o tail) = next
  <2> HIDE DEF base
  <2> QED BY <1>2, <1>5, TailApplied
<1> QED BY <1>1, <1>6

-----------------------------------------------------------------------------
(* The ids of the rows.                                                    *)

\* Ids are given once and are smaller than the next one.
RowIds(p) ==
  /\ p.next \in Nat /\ p.next > 0 /\ p.ids \in Seq(Nat)
  /\ \A i \in DOMAIN p.ids : p.ids[i] < p.next
  /\ \A i, j \in DOMAIN p.ids : p.ids[i] = p.ids[j] /\ p.ids[i] # 0 => i = j

\* Each message that has a row has an id.
Numbered(p) ==
  /\ IsRows(p) /\ RowIds(p)
  /\ \A i \in DOMAIN p.messages : HasRow(p.messages[i]) => p.ids[i] # 0

\* Building the rows gives a new id to each row that has none.
LEMMA BuiltNumbers ==
  ASSUME NEW p, IsRows(p), RowIds(p)
  PROVE  Numbered(Built(p))
<1> DEFINE new  == {i \in DOMAIN p.messages : HasRow(p.messages[i]) /\ p.ids[i] = 0}
           below(i) == {j \in new : j < i}
           rank == [i \in new |-> Cardinality(below(i))]
           ids == [i \in DOMAIN p.messages |-> IF i \in new THEN p.next + rank[i] ELSE p.ids[i]]
           next == p.next + Cardinality(new)
           q == [p EXCEPT !.ids = ids, !.next = next]
<1>1. Built(p) = q
  <2>1. \A i \in new : rank[i] = Cardinality(below(i))
    OBVIOUS
  <2>2. ids = [i \in DOMAIN p.messages |-> IF i \in new THEN p.next + Cardinality(below(i)) ELSE p.ids[i]]
    BY <2>1
  <2> HIDE DEF ids, rank
  <2> QED BY <2>2 DEF Built
<1>2. /\ q.ids = ids /\ q.next = next /\ q.messages = p.messages
  <2> HIDE DEF ids, next
  <2> QED BY DEF IsRows
<1>3. IsRows(q)
  BY <1>1, BuiltRows
<1>4. /\ DOMAIN p.messages = 1 .. Len(p.messages) /\ Len(p.messages) \in Nat
      /\ DOMAIN ids = DOMAIN p.messages /\ DOMAIN p.ids = DOMAIN p.messages
  BY DEF IsRows
<1>5. IsFiniteSet(new) /\ Cardinality(new) \in Nat
  <2>1. IsFiniteSet(1 .. Len(p.messages))
    BY <1>4, FS_Interval
  <2>2. new \in SUBSET (1 .. Len(p.messages))
    BY <1>4
  <2> HIDE DEF new
  <2>3. IsFiniteSet(new)
    BY <2>1, <2>2, FS_Subset
  <2> QED BY <2>3, FS_CardinalityType
<1>6. \A i \in DOMAIN p.messages : p.ids[i] \in Nat /\ p.ids[i] < p.next
  BY <1>4 DEF RowIds
<1>7. p.next \in Nat /\ p.next > 0
  BY DEF RowIds
<1>8. \A i \in DOMAIN p.messages : HasRow(p.messages[i]) /\ i \notin new => p.ids[i] # 0
  OBVIOUS
<1>9. new \subseteq DOMAIN p.messages
  OBVIOUS
<1> HIDE DEF new
<1>10. \A i \in new : IsFiniteSet(below(i)) /\ rank[i] \in Nat /\ rank[i] < Cardinality(new)
  <2> SUFFICES ASSUME NEW i \in new PROVE IsFiniteSet(below(i)) /\ rank[i] \in Nat /\ rank[i] < Cardinality(new)
    OBVIOUS
  <2> DEFINE b == below(i)
  <2>0. rank[i] = Cardinality(b)
    OBVIOUS
  <2> HIDE DEF rank
  <2>1. b \in SUBSET new /\ b # new
    <3>1. i \notin b
      BY <1>4, <1>9
    <3> QED BY <3>1
  <2> HIDE DEF b
  <2>2. IsFiniteSet(b) /\ Cardinality(b) <= Cardinality(new) /\ Cardinality(b) # Cardinality(new)
    BY <1>5, <2>1, FS_Subset
  <2>3. Cardinality(b) \in Nat
    BY <2>2, FS_CardinalityType
  <2>4. Cardinality(b) < Cardinality(new)
    BY <1>5, <2>2, <2>3
  <2> QED BY <2>0, <2>2, <2>3, <2>4 DEF b
<1>11. \A i, j \in new : i < j => rank[i] < rank[j]
  <2> SUFFICES ASSUME NEW i \in new, NEW j \in new, i < j PROVE rank[i] < rank[j]
    OBVIOUS
  <2> DEFINE b == below(i)
             c == below(j)
  <2>0. rank[i] = Cardinality(b) /\ rank[j] = Cardinality(c)
    OBVIOUS
  <2> HIDE DEF rank
  <2>1. b \in SUBSET c /\ b # c
    <3>1. i \in c /\ i \notin b
      BY <1>4, <1>9
    <3>2. \A x \in b : x \in c
      BY <1>4, <1>9
    <3> QED BY <3>1, <3>2
  <2>2. IsFiniteSet(c) /\ Cardinality(b) \in Nat /\ Cardinality(c) \in Nat
    BY <1>10, <2>0
  <2> HIDE DEF b, c
  <2>3. Cardinality(b) <= Cardinality(c) /\ Cardinality(b) # Cardinality(c)
    BY <2>1, <2>2, FS_Subset
  <2>4. Cardinality(b) < Cardinality(c)
    BY <2>2, <2>3
  <2> QED BY <2>0, <2>4
<1> HIDE DEF rank, below
<1>12. \A i \in DOMAIN p.messages : ids[i] = IF i \in new THEN p.next + rank[i] ELSE p.ids[i]
  OBVIOUS
<1>13. ids \in Seq(Nat)
  <2>1. \A i \in DOMAIN p.messages : ids[i] \in Nat
    BY <1>6, <1>7, <1>10, <1>12
  <2>2. ids = [i \in DOMAIN p.messages |-> ids[i]]
    OBVIOUS
  <2> HIDE DEF ids
  <2> QED BY <1>4, <2>1, <2>2
<1> HIDE DEF ids
<1>14. next \in Nat /\ next > 0
  BY <1>5, <1>7
<1>15. \A i \in DOMAIN ids : ids[i] < next
  <2> SUFFICES ASSUME NEW i \in DOMAIN p.messages PROVE ids[i] < next
    BY <1>4
  <2>1. CASE i \in new
    BY <1>5, <1>7, <1>10, <1>12, <2>1
  <2>2. CASE i \notin new
    BY <1>5, <1>6, <1>7, <1>12, <2>2
  <2> QED BY <2>1, <2>2
<1>16. ASSUME NEW i \in DOMAIN ids, NEW j \in DOMAIN ids, ids[i] = ids[j], ids[i] # 0 PROVE i = j
  <2>0. i \in DOMAIN p.messages /\ j \in DOMAIN p.messages /\ i \in Nat /\ j \in Nat
    BY <1>4
  <2>1. CASE i \in new /\ j \in new
    <3>1. rank[i] = rank[j]
      BY <1>7, <1>10, <1>12, <1>16, <2>0, <2>1
    <3>2. ~(i < j) /\ ~(j < i)
      BY <1>10, <1>11, <2>1, <3>1
    <3> QED BY <2>0, <3>2
  <2>2. CASE i \notin new /\ j \notin new
    BY <1>4, <1>12, <1>16, <2>0, <2>2 DEF RowIds
  <2>3. CASE i \in new /\ j \notin new
    <3>1. ids[i] = p.next + rank[i] /\ ids[j] = p.ids[j] /\ rank[i] \in Nat
      BY <1>10, <1>12, <2>0, <2>3
    <3>2. p.ids[j] \in Nat /\ p.ids[j] < p.next
      BY <1>6, <2>0
    <3>3. p.next + rank[i] = p.ids[j]
      BY <1>16, <3>1
    <3>4. FALSE
      BY <1>7, <3>1, <3>2, <3>3
    <3> QED BY <3>4
  <2>4. CASE i \notin new /\ j \in new
    <3>1. ids[j] = p.next + rank[j] /\ ids[i] = p.ids[i] /\ rank[j] \in Nat
      BY <1>10, <1>12, <2>0, <2>4
    <3>2. p.ids[i] \in Nat /\ p.ids[i] < p.next
      BY <1>6, <2>0
    <3>3. p.next + rank[j] = p.ids[i]
      BY <1>16, <3>1
    <3>4. FALSE
      BY <1>7, <3>1, <3>2, <3>3
    <3> QED BY <3>4
  <2> QED BY <2>1, <2>2, <2>3, <2>4
<1>17. \A i \in DOMAIN p.messages : HasRow(p.messages[i]) => ids[i] # 0
  <2> SUFFICES ASSUME NEW i \in DOMAIN p.messages, HasRow(p.messages[i]) PROVE ids[i] # 0
    OBVIOUS
  <2>1. CASE i \in new
    BY <1>7, <1>10, <1>12, <2>1
  <2>2. CASE i \notin new
    BY <1>8, <1>12, <2>2
  <2> QED BY <2>1, <2>2
<1> HIDE DEF next, q
<1> QED BY <1>1, <1>2, <1>3, <1>13, <1>14, <1>15, <1>16, <1>17 DEF Numbered, RowIds

\* One more message, without an id, is last.
LEMMA OneMoreId ==
  ASSUME NEW p, IsRows(p), RowIds(p), NEW q, q.ids = Append(p.ids, 0), q.next = p.next
  PROVE  RowIds(q)
<1>1. p.ids \in Seq(Nat) /\ 0 \in Nat
  BY DEF RowIds
<1> DEFINE ids == Append(p.ids, 0)
<1>2. /\ ids \in Seq(Nat) /\ Len(p.ids) \in Nat /\ DOMAIN p.ids = 1 .. Len(p.ids) /\ DOMAIN ids = 1 .. Len(p.ids) + 1
      /\ \A i \in 1 .. Len(p.ids) : ids[i] = p.ids[i]
      /\ ids[Len(p.ids) + 1] = 0
  BY <1>1, OneMore
<1> HIDE DEF ids
<1>3. \A i \in DOMAIN ids : (i \in DOMAIN p.ids /\ ids[i] = p.ids[i]) \/ ids[i] = 0
  BY <1>2
<1> QED BY <1>2, <1>3 DEF RowIds, ids

\* A message that begins.
LEMMA StartedNumbers ==
  ASSUME NEW p, Numbered(p), NEW m \in Msg
  PROVE  Numbered(Started(p, m))
<1> DEFINE more == Append(p.messages, m)
           ids == Append(p.ids, 0)
           q == [p EXCEPT !.messages = more, !.ids = ids, !.active = Len(p.messages) + 1]
<1>1. Started(p, m) = Built(q)
  BY DEF Started, Numbered, IsRows
<1>2. p \in [messages : Seq(Msg), active : Nat, ids : {p.ids}, next : {p.next}]
  BY DEF Numbered, IsRows
<1>3. q.ids = ids /\ q.next = p.next /\ q.messages = more /\ q.active = Len(p.messages) + 1
  <2> HIDE DEF more, ids
  <2> QED BY <1>2
<1>4. RowIds(q)
  <2> HIDE DEF q
  <2> QED BY <1>3, OneMoreId DEF Numbered
<1>5. IsRows(q)
  <2>1. /\ more \in Seq(Msg) /\ Len(more) = Len(p.messages) + 1 /\ Len(p.messages) \in Nat
        /\ DOMAIN more = 1 .. Len(p.messages) + 1
    BY <1>2, OneMore
  <2>2. DOMAIN ids = 1 .. Len(p.messages) + 1
    <3>1. p.ids \in Seq(Nat) /\ Len(p.ids) = Len(p.messages)
      <4>1. p.ids \in Seq(Nat) /\ DOMAIN p.ids = 1 .. Len(p.messages)
        BY <2>1 DEF Numbered, RowIds, IsRows
      <4> QED BY <2>1, <4>1
    <3> QED BY <3>1, OneMore
  <2> HIDE DEF more, ids
  <2>3. q \in [messages : {more}, active : {Len(p.messages) + 1}, ids : {ids}, next : {p.next}]
    BY <1>2
  <2> HIDE DEF q
  <2>4. q \in [messages : Seq(Msg), active : Nat, ids : {q.ids}, next : {q.next}]
    BY <1>3, <2>1, <2>3
  <2> QED BY <1>3, <2>1, <2>2, <2>4 DEF IsRows
<1> HIDE DEF q
<1> QED BY <1>1, <1>4, <1>5, BuiltNumbers

\* A message with a longer text is a message.
LEMMA LongerText ==
  ASSUME NEW m \in Msg
  PROVE  [m EXCEPT !.size = @ + 1] \in Msg
BY DEF Msg

\* Text that streams.
LEMMA StreamedNumbers ==
  ASSUME NEW p, Numbered(p)
  PROVE  Numbered(Streamed(p))
<1>1. CASE p.active = 0 \/ p.messages[p.active].role # "assistant"
  BY <1>1 DEF Streamed
<1>2. CASE ~(p.active = 0 \/ p.messages[p.active].role # "assistant")
  <2> DEFINE more == [p.messages EXCEPT ![p.active].size = @ + 1]
             q == [p EXCEPT !.messages = more]
  <2>1. Streamed(p) = Built(q)
    BY <1>2 DEF Streamed, Numbered, IsRows
  <2>2. /\ p.active \in 1 .. Len(p.messages) /\ Len(p.messages) \in Nat /\ p.messages \in Seq(Msg)
        /\ DOMAIN p.messages = 1 .. Len(p.messages) /\ p.messages[p.active] \in Msg
    BY <1>2 DEF Numbered, IsRows
  <2>3. [p.messages[p.active] EXCEPT !.size = @ + 1] \in Msg
    BY <2>2, LongerText
  <2>4. more \in Seq(Msg) /\ Len(more) = Len(p.messages) /\ DOMAIN more = DOMAIN p.messages
    <3>1. \A i \in DOMAIN p.messages : more[i] \in Msg
      BY <2>2, <2>3
    <3>2. DOMAIN more = 1 .. Len(p.messages)
      BY <2>2
    <3>3. more \in [1 .. Len(p.messages) -> Msg]
      BY <2>2, <3>1
    <3> HIDE DEF more
    <3> QED BY <2>2, <3>2, <3>3
  <2> HIDE DEF more
  <2>5. /\ q \in [messages : Seq(Msg), active : Nat, ids : {q.ids}, next : {q.next}]
        /\ q.messages = more /\ q.ids = p.ids /\ q.active = p.active /\ q.next = p.next
    BY <2>4 DEF Numbered, IsRows
  <2> HIDE DEF q
  <2>6. IsRows(q) /\ RowIds(q)
    BY <2>2, <2>4, <2>5 DEF Numbered, IsRows, RowIds
  <2> QED BY <2>1, <2>6, BuiltNumbers
<1> QED BY <1>1, <1>2

\* A message that ends.
LEMMA FinishedNumbers ==
  ASSUME NEW p, Numbered(p), NEW m \in Msg
  PROVE  Numbered(Finished(p, m))
<1>0. /\ p.messages \in Seq(Msg) /\ Len(p.messages) \in Nat /\ DOMAIN p.messages = 1 .. Len(p.messages)
      /\ p \in [messages : Seq(Msg), active : Nat, ids : {p.ids}, next : {p.next}]
  BY DEF Numbered, IsRows
<1>1. CASE p.active = 0
  <2> DEFINE more == Append(p.messages, m)
             ids == Append(p.ids, 0)
             q == [p EXCEPT !.messages = more, !.ids = ids]
  <2>1. /\ more \in Seq(Msg) /\ Len(more) = Len(p.messages) + 1 /\ DOMAIN more = 1 .. Len(p.messages) + 1
    BY <1>0, OneMore
  <2>2. DOMAIN ids = 1 .. Len(p.messages) + 1
    <3>1. p.ids \in Seq(Nat) /\ Len(p.ids) = Len(p.messages)
      <4>1. p.ids \in Seq(Nat) /\ DOMAIN p.ids = 1 .. Len(p.messages)
        BY <1>0 DEF Numbered, RowIds, IsRows
      <4> QED BY <1>0, <4>1
    <3> QED BY <3>1, OneMore
  <2>3. Finished(p, m) = Built(q)
    BY <1>1 DEF Finished, Numbered, IsRows
  <2>4. RowIds(q)
    <3> HIDE DEF more
    <3>1. q.ids = ids /\ q.next = p.next
      <4> HIDE DEF ids
      <4> QED BY <1>0
    <3> HIDE DEF q
    <3> QED BY <3>1, OneMoreId DEF Numbered
  <2> HIDE DEF more, ids
  <2>5. /\ q \in [messages : Seq(Msg), active : Nat, ids : {q.ids}, next : {q.next}]
        /\ q.messages = more /\ q.ids = ids /\ q.active = 0
    BY <1>0, <1>1, <2>1
  <2> HIDE DEF q
  <2>6. IsRows(q)
    BY <1>0, <2>1, <2>2, <2>5 DEF IsRows
  <2> QED BY <2>3, <2>4, <2>6, BuiltNumbers
<1>2. CASE p.active # 0
  <2> DEFINE more == [p.messages EXCEPT ![p.active] = m]
             q == [p EXCEPT !.messages = more, !.active = 0]
  <2>1. Finished(p, m) = Built(q)
    BY <1>2 DEF Finished, Numbered, IsRows
  <2>2. p.active \in 1 .. Len(p.messages)
    BY <1>2 DEF Numbered, IsRows
  <2>3. more \in Seq(Msg) /\ Len(more) = Len(p.messages) /\ DOMAIN more = DOMAIN p.messages
    BY <1>0, <2>2
  <2> HIDE DEF more
  <2>4. /\ q \in [messages : Seq(Msg), active : Nat, ids : {q.ids}, next : {q.next}]
        /\ q.messages = more /\ q.ids = p.ids /\ q.active = 0 /\ q.next = p.next
    BY <1>0, <2>3
  <2> HIDE DEF q
  <2>5. IsRows(q)
    BY <1>0, <2>3, <2>4 DEF Numbered, IsRows
  <2>6. RowIds(q)
    BY <2>4 DEF Numbered, RowIds
  <2> QED BY <2>1, <2>5, <2>6, BuiltNumbers
<1> QED BY <1>1, <1>2

\* A read of the history: ids are kept for the same positions, or given anew.
LEMMA ReconciledNumbers ==
  ASSUME NEW p, Numbered(p), NEW read \in Seq(Msg)
  PROVE  Numbered(Reconciled(p, read))
<1> DEFINE ids == IF SamePositions(read, p.messages) THEN p.ids ELSE [i \in DOMAIN read |-> 0]
           q == [messages |-> read, active |-> 0, next |-> p.next, ids |-> ids]
<1>1. Reconciled(p, read) = Built(q)
  BY DEF Reconciled
<1>2. DOMAIN ids = DOMAIN read
  BY DEF SamePositions, Numbered, IsRows
<1>3. /\ p.next \in Nat /\ p.next > 0 /\ p.ids \in Seq(Nat)
      /\ \A i \in DOMAIN p.ids : p.ids[i] < p.next
      /\ \A i, j \in DOMAIN p.ids : p.ids[i] = p.ids[j] /\ p.ids[i] # 0 => i = j
  BY DEF Numbered, RowIds
<1>4. ids = p.ids \/ ids = [i \in DOMAIN read |-> 0]
  OBVIOUS
<1> HIDE DEF ids
<1>5. RowIds(q)
  <2>1. q.ids = ids /\ q.next = p.next
    OBVIOUS
  <2> HIDE DEF q
  <2>2. CASE ids = p.ids
    BY <1>3, <2>1, <2>2 DEF RowIds
  <2>3. CASE ids = [i \in DOMAIN read |-> 0]
    <3>1. ids \in Seq(Nat) /\ \A i \in DOMAIN ids : ids[i] = 0
      BY <2>3
    <3> QED BY <1>3, <2>1, <3>1 DEF RowIds
  <2> QED BY <1>4, <2>2, <2>3
<1>6. IsRows(q)
  BY <1>2 DEF IsRows
<1> HIDE DEF q
<1> QED BY <1>1, <1>5, <1>6, BuiltNumbers

-----------------------------------------------------------------------------
(* What is shown.                                                          *)

\* A function on the first numbers is a sequence.
LEMMA SequenceOf ==
  ASSUME NEW X, NEW n \in Nat, NEW s, s = [i \in 1..n |-> s[i]], \A i \in 1..n : s[i] \in X
  PROVE  s \in Seq(X)
OBVIOUS

\* Nothing is selected from nothing.
LEMMA SelectedNone ==
  ASSUME NEW s, NEW I, Len(s) = 0
  PROVE  Selected(s, I) = <<>>
<1>1. Len(s) \in Nat
  OBVIOUS
<1>2. PICK f : Selects(s, I, f)
  BY <1>1, SelectedStep, Zenon
<1> QED BY <1>2 DEF Selects

\* Rows that are selected from rows with different ids have different ids.
LEMMA SelectedRows ==
  ASSUME NEW s \in Seq(AnyRow), NEW I,
         \A i, j \in DOMAIN s \cap I : s[i].id = s[j].id => i = j
  PROVE  Selected(s, I) \in Seq(AnyRow) /\ IdsDistinct(Selected(s, I))
<1>1. Len(s) \in Nat /\ DOMAIN s = 1 .. Len(s) /\ \A i \in DOMAIN s : s[i] \in AnyRow
  OBVIOUS
<1>2. PICK f : Selects(s, I, f)
  BY <1>1, SelectedStep, Zenon
<1> DEFINE N == Len(s)
<1> HIDE DEF N
<1>3. /\ Selected(s, I) = f[N] /\ f[0] = <<>>
      /\ \A n \in 1..N : f[n] = IF n \in I THEN Append(f[n - 1], s[n]) ELSE f[n - 1]
  BY <1>2, Zenon DEF Selects, N
<1> DEFINE From(n) == {i \in 1..n : i \in I}
           S == {n \in Nat : n <= N =>
                   /\ f[n] \in Seq(AnyRow) /\ IdsDistinct(f[n])
                   /\ \A a \in DOMAIN f[n] : \E i \in From(n) : f[n][a] = s[i]}
<1>4. 0 \in S
  <2>1. <<>> \in Seq(AnyRow) /\ IdsDistinct(<<>>) /\ DOMAIN <<>> = {}
    BY DEF IdsDistinct
  <2> QED BY <1>3, <2>1
<1>5. ASSUME NEW n \in Nat, n \in S PROVE n + 1 \in S
  <2> SUFFICES ASSUME n + 1 <= N
               PROVE  /\ f[n + 1] \in Seq(AnyRow) /\ IdsDistinct(f[n + 1])
                      /\ \A a \in DOMAIN f[n + 1] : \E i \in From(n + 1) : f[n + 1][a] = s[i]
    OBVIOUS
  <2> DEFINE old == f[n]
             new == f[n + 1]
             row == s[n + 1]
  <2>1. /\ old \in Seq(AnyRow) /\ IdsDistinct(old)
        /\ \A a \in DOMAIN old : \E i \in From(n) : old[a] = s[i]
    BY <1>1, <1>5 DEF N
  <2>2. n + 1 \in 1..N /\ (n + 1) - 1 = n /\ row \in AnyRow
    BY <1>1 DEF N
  <2>3. new = IF n + 1 \in I THEN Append(old, row) ELSE old
    BY <1>3, <2>2
  <2>4. From(n) \subseteq From(n + 1)
    OBVIOUS
  <2> HIDE DEF new, old, row
  <2>5. CASE n + 1 \notin I
    <3>1. new = old
      BY <2>3, <2>5
    <3>2. \A a \in DOMAIN new : \E i \in From(n + 1) : new[a] = s[i]
      BY <2>1, <2>4, <3>1
    <3> QED BY <2>1, <3>1, <3>2 DEF new
  <2>6. CASE n + 1 \in I
    <3>1. new = Append(old, row)
      BY <2>3, <2>6
    <3>2. /\ new \in Seq(AnyRow) /\ Len(old) \in Nat /\ DOMAIN old = 1 .. Len(old)
          /\ DOMAIN new = 1 .. Len(old) + 1
          /\ \A i \in 1 .. Len(old) : new[i] = old[i]
          /\ new[Len(old) + 1] = row
      BY <2>1, <2>2, <3>1, OneMore
    <3>3. \A a \in DOMAIN new : (a \in DOMAIN old /\ new[a] = old[a]) \/ (a = Len(old) + 1 /\ new[a] = row)
      BY <3>2
    <3>4. n + 1 \in From(n + 1)
      BY <2>6
    <3>5. \A a \in DOMAIN new : \E i \in From(n + 1) : new[a] = s[i]
      <4> SUFFICES ASSUME NEW a \in DOMAIN new PROVE \E i \in From(n + 1) : new[a] = s[i]
        OBVIOUS
      <4>1. CASE a \in DOMAIN old /\ new[a] = old[a]
        BY <2>1, <2>4, <4>1
      <4>2. CASE new[a] = row
        BY <3>4, <4>2 DEF row
      <4> QED BY <3>3, <4>1, <4>2
    <3>6. \A a \in DOMAIN old : old[a].id # row.id
      <4> SUFFICES ASSUME NEW a \in DOMAIN old, old[a].id = row.id PROVE FALSE
        OBVIOUS
      <4>1. PICK i \in From(n) : old[a] = s[i]
        BY <2>1
      <4>2. i \in DOMAIN s /\ i \in I /\ n + 1 \in DOMAIN s /\ i # n + 1
        BY <1>1, <2>2 DEF N
      <4> QED BY <2>6, <4>1, <4>2 DEF row
    <3>7. IdsDistinct(new)
      <4> SUFFICES ASSUME NEW a \in DOMAIN new, NEW b \in DOMAIN new, new[a].id = new[b].id PROVE a = b
        BY DEF IdsDistinct
      <4> QED BY <2>1, <3>3, <3>6 DEF IdsDistinct
    <3> QED BY <3>2, <3>5, <3>7 DEF new
  <2> QED BY <2>5, <2>6
<1>6. N \in S
  <2> HIDE DEF S
  <2> QED BY <1>1, <1>4, <1>5, SetInduction DEF N
<1> QED BY <1>1, <1>3, <1>6 DEF N

\* The rows of a projection are rows, no two with the same id.
LEMMA RowsAre ==
  ASSUME NEW p, Numbered(p)
  PROVE  Rows(p) \in Seq(AnyRow) /\ IdsDistinct(Rows(p))
<1> DEFINE s == [i \in DOMAIN p.messages |-> Row(p, i)]
           I == {i \in DOMAIN p.messages : HasRow(p.messages[i])}
<1>1. /\ DOMAIN p.messages = 1 .. Len(p.messages) /\ Len(p.messages) \in Nat /\ p.messages \in Seq(Msg)
      /\ DOMAIN p.ids = DOMAIN p.messages /\ p.ids \in Seq(Nat)
      /\ \A i, j \in DOMAIN p.ids : p.ids[i] = p.ids[j] /\ p.ids[i] # 0 => i = j
      /\ \A i \in DOMAIN p.messages : HasRow(p.messages[i]) => p.ids[i] # 0
  BY DEF Numbered, IsRows, RowIds
<1>2. \A i \in DOMAIN p.messages : Row(p, i) \in AnyRow /\ Row(p, i).id = p.ids[i]
  <2> SUFFICES ASSUME NEW i \in DOMAIN p.messages PROVE Row(p, i) \in AnyRow /\ Row(p, i).id = p.ids[i]
    OBVIOUS
  <2>1. p.messages[i] \in Msg /\ p.ids[i] \in Nat
    BY <1>1
  <2>2. p.messages[i].n \in Nat /\ p.messages[i].size \in Nat
    BY <2>1 DEF Msg
  <2> QED BY <2>1, <2>2 DEF Row, AnyRow
<1>3. \A i \in DOMAIN p.messages : s[i] \in AnyRow /\ s[i].id = p.ids[i]
  BY <1>2
<1>4. DOMAIN s = DOMAIN p.messages /\ s = [i \in 1 .. Len(p.messages) |-> s[i]]
  BY <1>1
<1>5. Rows(p) = Selected(s, I)
  BY DEF Rows
<1> HIDE DEF s
<1>6. s \in Seq(AnyRow)
  <2>1. \A i \in 1 .. Len(p.messages) : s[i] \in AnyRow
    BY <1>1, <1>3
  <2>2. s = [i \in 1 .. Len(p.messages) |-> s[i]] /\ Len(p.messages) \in Nat
    BY <1>1, <1>4
  <2> QED BY <2>1, <2>2, SequenceOf
<1>7. \A i, j \in DOMAIN s \cap I : s[i].id = s[j].id => i = j
  BY <1>1, <1>3, <1>4
<1> HIDE DEF I
<1> QED BY <1>5, <1>6, <1>7, SelectedRows

\* What is still to be sent of a change that is being saved.
ToSend == IF Saving THEN Head(jobs).deltas ELSE <<>>

\* The snapshot, with what is still to be sent, is the rows (ShownFollowsRows).
Follows == overtaken \/ unordered \/ Rows(projection) = Applied(shown, ToSend)

\* The invariant of what is shown.
ShownInv == FeedInv /\ Numbered(projection) /\ Follows

\* A change that is shown at once.
LEMMA ProjectFollows ==
  ASSUME Numbered(projection), Follows, NEW next, Numbered(next), Project(next), UNCHANGED jobs
  PROVE  Numbered(projection') /\ Follows'
<1> DEFINE prev == Rows(projection)
           deltas == Diff(prev, Rows(next))
<1>1. /\ projection' = next /\ shown' = Applied(shown, deltas)
      /\ overtaken' = (overtaken \/ (deltas # <<>> /\ Saving))
      /\ unordered' = (unordered \/ ~CutClean(prev, Rows(next)))
  BY DEF Project, Emit, CutNoted
<1>2. ToSend' = ToSend
  BY DEF ToSend, Saving
<1>3. Follows'
  <2> SUFFICES ASSUME ~overtaken', ~unordered' PROVE Rows(projection)' = Applied(shown', ToSend)
    BY <1>2 DEF Follows
  <2>1. CutClean(prev, Rows(next)) /\ (deltas = <<>> \/ ~Saving) /\ prev = Applied(shown, ToSend)
    BY <1>1 DEF Follows
  <2>2. Applied(prev, deltas) = Rows(next)
    BY <2>1, RowsAre, DeltasRebuild
  <2>3. Rows(projection)' = Rows(next)
    BY <1>1
  <2> HIDE DEF prev, deltas
  <2>4. CASE ~Saving
    <3>1. ToSend = <<>>
      BY <2>4 DEF ToSend
    <3> QED BY <1>1, <2>1, <2>2, <2>3, <3>1, AppliedNone
  <2>5. CASE deltas = <<>>
    BY <1>1, <2>1, <2>2, <2>3, <2>5, AppliedNone
  <2> QED BY <2>1, <2>4, <2>5
<1> QED BY <1>1, <1>3

\* A step that changes neither the rows nor the snapshot nor what is to be sent.
LEMMA QuietFollows ==
  ASSUME Numbered(projection), Follows, UNCHANGED <<projection, shown, overtaken, unordered>>, ToSend' = ToSend
  PROVE  Numbered(projection') /\ Follows'
BY DEF Follows

\* A job that is not being saved has nothing to send.
LEMMA NothingToSend ==
  ASSUME NEW js, IsJobs(js), js # <<>> => js[1].stage # "saving"
  PROVE  ~(js # <<>> /\ Head(js).stage = "saving")
BY JobsAre

\* What is under way when a settled read is taken up.
LEMMA NothingToSendYet ==
  ASSUME FeedInv, SettledRead
  PROVE  ToSend = <<>> /\ ~Saving
<1>1. jobs # <<>> /\ Head(jobs) = jobs[1] /\ jobs[1].stage = "reading"
  BY SettledTaken
<1> QED BY <1>1 DEF ToSend, Saving

\* Every step keeps the snapshot and the rows together.
LEMMA FollowsStep ==
  ASSUME ShownInv, [Next]_vars
  PROVE  Numbered(projection') /\ Follows'
<1> USE DEF ShownInv
<1>0. FeedTypes /\ IsJobs(jobs) /\ PlacesInv
  BY DEF FeedInv, FeedTypes
<1>1. ASSUME NEW role \in Roles, MessageStart(role) PROVE Numbered(projection') /\ Follows'
  <2> DEFINE m == Message(count + 1, role, 0)
  <2>1. m \in Msg
    BY Known DEF Message, Msg
  <2>2. Project(Started(projection, m)) /\ UNCHANGED jobs
    BY <1>1 DEF MessageStart
  <2> HIDE DEF m
  <2> QED BY <2>1, <2>2, StartedNumbers, ProjectFollows
<1>2. CASE MessageUpdate
  BY <1>2, StreamedNumbers, ProjectFollows DEF MessageUpdate
<1>3. CASE MessageEnd
  <2>1. current[1] \in Msg /\ Project(Finished(projection, current[1])) /\ UNCHANGED jobs
    BY <1>3, Known DEF MessageEnd
  <2> QED BY <2>1, FinishedNumbers, ProjectFollows
<1>4. CASE ShellShows
  <2>1. Head(reads).messages \in Seq(Msg)
    BY <1>0, <1>4, ReadsAre DEF ShellShows
  <2>2. Project(Reconciled(projection, Head(reads).messages)) /\ UNCHANGED jobs
    BY <1>4 DEF ShellShows
  <2> QED BY <2>1, <2>2, ReconciledNumbers, ProjectFollows
<1>5. CASE \/ Start \/ Retry \/ Other \/ UserStep \/ Answer \/ UNCHANGED vars
  <2>1. UNCHANGED <<projection, shown, overtaken, unordered, jobs>>
    BY <1>5 DEF Start, Retry, Other, UserStep, Admit, NoRun, CommandFails, CompactEnds, ShellEnds, Command, Answer,
                vars, pi, service, ghosts
  <2>2. ToSend' = ToSend
    BY <2>1 DEF ToSend, Saving
  <2> QED BY <2>1, <2>2, QuietFollows
<1>6. FeedInv'
  BY FeedStep
<1>7. IsJobs(jobs')
  BY <1>6 DEF FeedInv, FeedTypes
<1> HIDE DEF ShownInv
<1>8. FeedInv /\ Numbered(projection) /\ Follows
  BY DEF ShownInv
<1>9. CASE Settle
  <2> DEFINE j == Job(version + 1, generation)
  <2>1. jobs' = Append(jobs, j) /\ UNCHANGED <<projection, shown, overtaken, unordered>>
    BY <1>9 DEF Settle
  <2>2. j \in JobSet({j.deltas}) /\ j.stage = "queued"
    <3>1. version + 1 \in Nat /\ generation \in Nat
      BY <1>0, Known DEF FeedTypes
    <3> QED BY <3>1 DEF Job, JobSet
  <2> HIDE DEF j
  <2>3. /\ \A k \in 1 .. Len(jobs) : jobs'[k] = jobs[k]
        /\ jobs'[Len(jobs) + 1] = j
    BY <1>0, <2>1, <2>2, JobsMore
  <2>4. CASE jobs = <<>>
    <3>1. jobs'[1].stage # "saving"
      BY <1>0, <2>2, <2>3, <2>4, JobsAre
    <3>2. ToSend' = <<>> /\ ToSend = <<>>
      BY <1>7, <2>4, <3>1, NothingToSend DEF ToSend, Saving
    <3> QED BY <1>8, <2>1, <3>2, QuietFollows
  <2>5. CASE jobs # <<>>
    <3>1. 1 \in 1 .. Len(jobs) /\ Head(jobs) = jobs[1]
      BY <1>0, <2>5, JobsAre
    <3>2. jobs' # <<>>
      BY <1>0, <2>1, <2>2, JobsMore
    <3>3. Head(jobs') = jobs'[1]
      BY <1>7, <3>2, JobsAre
    <3>4. ToSend' = ToSend
      BY <2>3, <2>5, <3>1, <3>2, <3>3 DEF ToSend, Saving
    <3> QED BY <1>8, <2>1, <3>4, QuietFollows
  <2> QED BY <2>4, <2>5
<1>10. CASE Ask
  <2>1. /\ jobs # <<>> /\ Head(jobs).stage = "queued" /\ jobs' = [jobs EXCEPT ![1].stage = "reading"]
        /\ UNCHANGED <<projection, shown, overtaken, unordered>>
    BY <1>10 DEF Ask, ghosts
  <2>2. 1 \in DOMAIN jobs /\ jobs[1] \in JobSet({jobs[1].deltas})
    BY <1>0, <2>1, JobsAre
  <2>3. jobs'[1].stage = "reading"
    BY <2>1, <2>2 DEF JobSet
  <2>4. ToSend' = <<>> /\ ToSend = <<>>
    <3>1. jobs'[1].stage # "saving"
      BY <2>3
    <3> QED BY <1>7, <2>1, <3>1, NothingToSend DEF ToSend, Saving
  <2> QED BY <1>8, <2>1, <2>4, QuietFollows
<1>11. ASSUME jobs # <<>>, jobs' = Tail(jobs) PROVE ToSend' = <<>>
  <2>1. jobs' # <<>> => jobs'[1].stage # "saving"
    <3>1. /\ DOMAIN jobs = 1 .. Len(jobs) /\ Len(jobs) \in Nat
          /\ \A k \in 1 .. Len(jobs) - 1 : jobs'[k] = jobs[k + 1]
          /\ jobs' = <<>> <=> Len(jobs) = 1
      BY <1>0, <1>11, JobsTail, JobsAre
    <3>2. Len(jobs) > 0
      BY <1>0, <1>11, JobsAre
    <3> HAVE jobs' # <<>>
    <3>3. 1 \in 1 .. Len(jobs) - 1 /\ 1 + 1 = 2 /\ 2 \in DOMAIN jobs
      BY <3>1, <3>2
    <3>4. jobs[2].stage = "queued"
      BY <1>0, <3>3 DEF PlacesInv
    <3> QED BY <3>1, <3>3, <3>4
  <2> QED BY <1>7, <2>1, NothingToSend DEF ToSend, Saving
<1>12. CASE Unanswered
  <2>1. /\ reads # <<>> /\ UNCHANGED <<projection, shown, overtaken, unordered>>
        /\ jobs' = IF Head(reads).for = "settled" THEN Tail(jobs) ELSE jobs
    BY <1>12 DEF Unanswered
  <2>2. CASE Head(reads).for = "settled"
    <3>1. jobs # <<>> /\ jobs[1].stage = "reading" /\ Head(jobs) = jobs[1]
      BY <1>0, <2>1, <2>2, ReadsAre, JobsAre DEF PlacesInv
    <3>2. ToSend' = <<>> /\ ToSend = <<>>
      BY <1>11, <2>1, <2>2, <3>1 DEF ToSend, Saving
    <3> QED BY <1>8, <2>1, <3>2, QuietFollows
  <2>3. CASE Head(reads).for # "settled"
    <3>1. ToSend' = ToSend
      BY <2>1, <2>3 DEF ToSend, Saving
    <3> QED BY <1>8, <2>1, <3>1, QuietFollows
  <2> QED BY <2>2, <2>3
<1>13. CASE GiveUp
  <2>1. SettledRead /\ jobs' = Tail(jobs) /\ UNCHANGED <<projection, shown, overtaken, unordered>>
    BY <1>13 DEF GiveUp
  <2>2. ToSend' = <<>> /\ ToSend = <<>>
    BY <1>8, <1>11, <2>1, NothingToSendYet, SettledTaken
  <2> QED BY <1>8, <2>1, <2>2, QuietFollows
<1>14. CASE ReadAgain
  <2>1. SettledRead /\ UNCHANGED <<projection, shown, overtaken, unordered>>
    BY <1>14 DEF ReadAgain
  <2>2. reads' = Tail(reads)
    BY <2>1 DEF SettledRead
  <2>3. \A k \in DOMAIN jobs' : jobs'[k].stage = "queued"
    BY <1>8, <1>14, RepeatedJobs
  <2>4. jobs' # <<>> => jobs'[1].stage # "saving"
    BY <1>7, <2>3, JobsAre
  <2>5. ToSend' = <<>> /\ ToSend = <<>>
    BY <1>7, <1>8, <2>1, <2>4, NothingToSend, NothingToSendYet DEF ToSend, Saving
  <2> QED BY <1>8, <2>1, <2>5, QuietFollows
<1>15. CASE Saved
  <2>1. /\ jobs # <<>> /\ Head(jobs).stage = "saving" /\ jobs' = Tail(jobs)
        /\ shown' = Applied(shown, Head(jobs).deltas)
        /\ UNCHANGED <<projection, overtaken, unordered>>
    BY <1>15 DEF Saved, ghosts
  <2>2. ToSend' = <<>> /\ ToSend = Head(jobs).deltas
    BY <1>11, <2>1 DEF ToSend, Saving
  <2>3. Follows'
    <3>1. Applied(shown', <<>>) = shown'
      BY AppliedNone
    <3> QED BY <1>8, <2>1, <2>2, <3>1 DEF Follows
  <2> QED BY <1>8, <2>1, <2>3
<1>16. CASE Reconcile
  <2> DEFINE read == Head(reads).messages
             next == Reconciled(projection, read)
             prev == Rows(projection)
             deltas == Diff(prev, Rows(next))
  <2>1. /\ SettledRead /\ projection' = next /\ CutNoted(next)
        /\ jobs' = [jobs EXCEPT ![1].stage = "saving", ![1].deltas = deltas]
        /\ UNCHANGED <<shown, overtaken>>
    BY <1>16 DEF Reconcile
  <2>2. read \in Seq(Msg) /\ 1 \in DOMAIN jobs /\ jobs[1] \in JobSet({jobs[1].deltas})
    BY <1>8, <2>1, SettledTaken
  <2>3. Numbered(next)
    <3> HIDE DEF read
    <3> QED BY <1>8, <2>2, ReconciledNumbers
  <2>4. ToSend = <<>> /\ ~Saving
    BY <1>8, <2>1, NothingToSendYet
  <2> HIDE DEF deltas
  <2>5. jobs' # <<>> /\ Head(jobs') = jobs'[1] /\ jobs'[1].stage = "saving" /\ jobs'[1].deltas = deltas
    <3>1. jobs'[1].stage = "saving" /\ jobs'[1].deltas = deltas /\ 1 \in DOMAIN jobs'
      BY <2>1, <2>2 DEF JobSet
    <3>2. jobs' # <<>>
      BY <3>1
    <3> QED BY <1>7, <3>1, <3>2, JobsAre
  <2>6. ToSend' = deltas
    BY <2>5 DEF ToSend, Saving
  <2>7. Follows'
    <3> SUFFICES ASSUME ~overtaken', ~unordered' PROVE Rows(projection)' = Applied(shown', ToSend')
      BY DEF Follows
    <3>1. CutClean(prev, Rows(next)) /\ prev = Applied(shown, ToSend)
      BY <1>8, <2>1 DEF Follows, CutNoted
    <3>2. prev = shown
      BY <2>4, <3>1, AppliedNone
    <3> HIDE DEF next
    <3>3. Applied(prev, Diff(prev, Rows(next))) = Rows(next)
      BY <1>8, <2>3, <3>1, RowsAre, DeltasRebuild
    <3> QED BY <2>1, <2>6, <3>2, <3>3 DEF deltas
  <2> QED BY <2>1, <2>3, <2>7
<1> QED BY <1>1, <1>2, <1>3, <1>4, <1>5, <1>9, <1>10, <1>12, <1>13, <1>14, <1>15, <1>16
        DEF Next, RecordStep, UserStep, ReadStep

\* The invariant of what is shown.
THEOREM ShownInvariant == Spec => []ShownInv
<1>1. Init => ShownInv
  <2> SUFFICES ASSUME Init PROVE Numbered(projection) /\ Follows
    BY FeedInit DEF ShownInv
  <2>1. projection = [messages |-> <<>>, active |-> 0, ids |-> <<>>, next |-> 1]
    BY DEF Init, NewRows
  <2>2. IsRows(projection)
    BY FeedInit DEF FeedInv, FeedTypes
  <2>3. Numbered(projection)
    BY <2>1, <2>2 DEF Numbered, RowIds
  <2>4. Rows(projection) = <<>>
    <3> DEFINE s == [i \in DOMAIN projection.messages |-> Row(projection, i)]
               I == {i \in DOMAIN projection.messages : HasRow(projection.messages[i])}
    <3>1. Len(s) = 0
      BY <2>1
    <3>2. Rows(projection) = Selected(s, I)
      BY DEF Rows
    <3> HIDE DEF s, I
    <3> QED BY <3>1, <3>2, SelectedNone
  <2>5. shown = <<>> /\ ToSend = <<>>
    BY DEF Init, ToSend, Saving
  <2> QED BY <2>3, <2>4, <2>5, AppliedNone DEF Follows
<1>2. ShownInv /\ [Next]_vars => ShownInv'
  BY FollowsStep, FeedStep DEF ShownInv
<1> QED BY <1>1, <1>2, PTL DEF Spec

\* emitConversation and reconcileSettled: what subscribers were sent, with what a
\* save delays, rebuilds the rows of the projection, and at rest these are of
\* Pi's history; the exceptions are the ones the property names.
THEOREM RowsFollowed == Spec => []FeedFaithful
<1>1. ShownInv => ShownFollowsRows
  BY DEF ShownInv, Follows, ShownFollowsRows, ToSend
<1> QED BY <1>1, ShownInvariant, RestReached, PTL DEF FeedFaithful

-----------------------------------------------------------------------------
(* Operations on the credentials.                                          *)

Places == {"idle", "runtime", "pi", "refresh", "sync", "admission", "inspect", "over"}
Ended == {"done", "sync-failed", "cancelled", "error"}

AuthTypeOK ==
  /\ pc \in [Calls -> Places]
  /\ claiming \in Calls \cup {Nobody}
  /\ outcome \in [Calls -> {"none", "running", "waiting"} \cup Ended]
  /\ asked \in [Calls -> 0..MaxPrompts]
  /\ aborted \subseteq Calls /\ stored \subseteq Calls
  /\ fence \in Calls \cup {Control, Nobody}
  /\ admissions \in Seq(Inputs)
  /\ awaited \in [Calls -> SUBSET Inputs]
  /\ input \in [Inputs -> {"idle", "queued", "sending", "over"}]
  /\ busy \in BOOLEAN

\* An operation is waiting while a prompt of its is open, and then only.
Prompted ==
  \A c \in Calls :
    /\ asked[c] > 0 <=> outcome[c] = "waiting"
    /\ pc[c] \in {"idle", "runtime"} => asked[c] = 0

\* The end of an operation, or of a refresh.
LEMMA EndsTyped ==
  ASSUME AuthTypeOK, Prompted, NEW c \in Calls, NEW o \in Ended, Ends(c, o), stored' \subseteq Calls
  PROVE  AuthTypeOK' /\ Prompted'
<1> USE AuthAssumption
<1>1. AuthTypeOK'
  BY DEF Ends, Goto, AuthTypeOK, Places
<1>2. Prompted'
  BY DEF Ends, Goto, AuthTypeOK, Prompted, Ended
<1> QED BY <1>1, <1>2

\* The catch of perform keeps the types, whatever it tells.
LEMMA ThrownTyped ==
  ASSUME AuthTypeOK, Prompted, NEW c \in Calls, NEW storing, Thrown(c, storing), stored' \subseteq Calls
  PROVE  AuthTypeOK' /\ Prompted'
<1> DEFINE o == IF committed(c) \/ storing THEN "sync-failed"
                ELSE IF c \in aborted THEN "cancelled" ELSE "error"
<1>1. Ends(c, o) /\ o \in Ended
  BY DEF Thrown, Ended
<1> HIDE DEF o
<1> QED BY <1>1, EndsTyped

\* A call goes on, and touches neither prompts nor outcomes.
LEMMA GoesTyped ==
  ASSUME AuthTypeOK, Prompted, NEW c \in Calls, NEW l \in {"refresh"} \cup Syncing, Goto(c, l),
         UNCHANGED <<claiming, outcome, aborted, asked>>, stored' \subseteq Calls,
         UNCHANGED <<admissions, input, busy>>,
         fence' \in Calls \cup {Control, Nobody}, awaited' \in [Calls -> SUBSET Inputs]
  PROVE  AuthTypeOK' /\ Prompted'
BY DEF Goto, AuthTypeOK, Prompted, Places, Syncing

\* The session moves, and the manager rests.
LEMMA SessionTyped ==
  ASSUME AuthTypeOK, Prompted, UNCHANGED <<manager, stored, awaited>>,
         fence' \in Calls \cup {Control, Nobody}, admissions' \in Seq(Inputs),
         input' \in [Inputs -> {"idle", "queued", "sending", "over"}], busy' \in BOOLEAN
  PROVE  AuthTypeOK' /\ Prompted'
BY DEF manager, AuthTypeOK, Prompted

\* Every step keeps the types, and what is waiting.
LEMMA AuthTypeStep ==
  ASSUME AuthTypeOK, Prompted, [AuthNext]_authVars
  PROVE  AuthTypeOK' /\ Prompted'
<1> USE AuthAssumption
<1>1. ASSUME NEW c \in Calls, AuthStep(c) PROVE AuthTypeOK' /\ Prompted'
  <2>1. CASE RuntimeThere(c)
    <3>1. AuthTypeOK'
      BY <2>1 DEF RuntimeThere, Goto, session, AuthTypeOK, Places
    <3>2. Prompted'
      BY <2>1 DEF RuntimeThere, Goto, At, AuthTypeOK, Prompted
    <3> QED BY <3>1, <3>2
  <2>2. CASE PiAnswers(c)
    <3>1. CASE ActionOf[c] = "resolve"
      BY <2>2, <3>1, EndsTyped DEF PiAnswers, AuthTypeOK, Ended
    <3>2. CASE ActionOf[c] # "resolve"
      BY <2>2, <3>2, GoesTyped DEF PiAnswers, AuthTypeOK, Syncing, session
    <3> QED BY <3>1, <3>2
  <2>3. CASE PiThrows(c)
    BY <2>3, ThrownTyped DEF PiThrows, AuthTypeOK
  <2>4. CASE Refreshed(c)
    BY <2>4, ThrownTyped, GoesTyped DEF Refreshed, AuthTypeOK, Syncing, session
  <2>5. CASE Synchronizes(c)
    <3>1. CASE Thrown(c, FALSE)
      BY <2>5, <3>1, ThrownTyped DEF Synchronizes, AuthTypeOK
    <3>2. CASE Ends(c, "done")
      BY <2>5, <3>2, EndsTyped DEF Synchronizes, AuthTypeOK, Ended
    <3>3. CASE ~Thrown(c, FALSE) /\ ~Ends(c, "done")
      <4> DEFINE last == IF admissions = <<>> THEN {} ELSE {Last(admissions)}
      <4>1. last \in SUBSET Inputs
        BY DEF AuthTypeOK, Last
      <4>0. awaited' = [awaited EXCEPT ![c] = last]
        BY <2>5, <3>3 DEF Synchronizes
      <4> HIDE DEF last
      <4>2. awaited' \in [Calls -> SUBSET Inputs]
        BY <4>0, <4>1 DEF AuthTypeOK
      <4>3. /\ Goto(c, "admission") /\ fence' = c /\ "admission" \in Syncing
            /\ UNCHANGED <<claiming, outcome, aborted, asked, admissions, input, busy, stored>>
        BY <2>5, <3>3 DEF Synchronizes, Syncing
      <4> QED BY <4>2, <4>3, GoesTyped DEF AuthTypeOK
    <3> QED BY <3>1, <3>2, <3>3
  <2>6. CASE AdmissionAwaited(c)
    BY <2>6, ThrownTyped, GoesTyped DEF AdmissionAwaited, AuthTypeOK, Syncing, session
  <2>7. CASE Inspected(c)
    BY <2>7, ThrownTyped, EndsTyped DEF Inspected, AuthTypeOK, Ended
  <2> QED BY <1>1, <2>1, <2>2, <2>3, <2>4, <2>5, <2>6, <2>7 DEF AuthStep
<1>2. ASSUME NEW c \in Calls, Call(c) PROVE AuthTypeOK' /\ Prompted'
  <2>1. AuthTypeOK'
    BY <1>2 DEF Call, Goto, session, AuthTypeOK, Places
  <2>2. Prompted'
    BY <1>2 DEF Call, Goto, At, AuthTypeOK, Prompted
  <2> QED BY <2>1, <2>2
<1>3. ASSUME NEW c \in Calls, Prompt(c) \/ PromptOver(c) PROVE AuthTypeOK' /\ Prompted'
  <2>1. CASE Prompt(c)
    <3>1. AuthTypeOK'
      BY <2>1 DEF Prompt, session, AuthTypeOK
    <3>2. Prompted'
      BY <2>1 DEF Prompt, At, AuthTypeOK, Prompted
    <3> QED BY <3>1, <3>2
  <2>2. CASE PromptOver(c)
    <3>1. AuthTypeOK'
      BY <2>2 DEF PromptOver, session, AuthTypeOK
    <3>2. Prompted'
      BY <2>2 DEF PromptOver, AuthTypeOK, Prompted
    <3> QED BY <3>1, <3>2
  <2> QED BY <1>3, <2>1, <2>2
<1>4. ASSUME NEW S \in SUBSET Calls, Abort(S), UNCHANGED <<pc, claiming, stored, session>>
      PROVE AuthTypeOK' /\ Prompted'
  <2>1. AuthTypeOK'
    BY <1>4 DEF Abort, session, AuthTypeOK
  <2>2. Prompted'
    BY <1>4 DEF Abort, AuthTypeOK, Prompted
  <2> QED BY <2>1, <2>2
<1>5. ASSUME NEW c \in Calls, Cancel(c) PROVE AuthTypeOK' /\ Prompted'
  BY <1>4, <1>5 DEF Cancel
<1>6. CASE Dispose
  BY <1>4, <1>6 DEF Dispose
<1>7. ASSUME NEW m \in Inputs, Send(m) \/ Dispatch(m) \/ Acknowledged(m)
      PROVE  AuthTypeOK' /\ Prompted'
  <2>1. admissions # <<>> => Tail(admissions) \in Seq(Inputs)
    BY DEF AuthTypeOK
  <2>2. Append(admissions, m) \in Seq(Inputs)
    BY DEF AuthTypeOK
  <2>3. CASE Send(m)
    BY <2>2, <2>3, SessionTyped DEF Send, AuthTypeOK
  <2>4. CASE Dispatch(m)
    BY <2>1, <2>4, SessionTyped DEF Dispatch, First, AuthTypeOK
  <2>5. CASE Acknowledged(m)
    BY <2>1, <2>5, SessionTyped DEF Acknowledged, First, AuthTypeOK
  <2> QED BY <1>7, <2>3, <2>4, <2>5
<1>8. CASE RunEnds \/ ControlBegins \/ ControlEnds
  BY <1>8, SessionTyped DEF RunEnds, ControlBegins, ControlEnds, AuthTypeOK
<1>9. CASE UNCHANGED authVars
  BY <1>9 DEF authVars, manager, session, AuthTypeOK, Prompted
<1> QED BY <1>1, <1>2, <1>3, <1>5, <1>6, <1>7, <1>8, <1>9 DEF AuthNext

-----------------------------------------------------------------------------
(* The manager.                                                            *)

Holding(c) == pc[c] \in {"runtime"} \cup AtWork

\* Who has begun and not ended shows it: by the claim or by an active outcome.
Shown(c) ==
  /\ pc[c] = "runtime" => claiming = c
  /\ pc[c] \in AtWork /\ ActionOf[c] = "directory" => claiming = c
  /\ pc[c] \in AtWork /\ ActionOf[c] # "directory" => Active(c)

\* What an operation has told, and what Pi has done for it.
Truthful(c) ==
  /\ pc[c] \in {"idle", "runtime"} => outcome[c] = "none"
  /\ ActionOf[c] \in Altering =>
       /\ pc[c] \in {"idle", "runtime", "pi"} => c \notin stored
       /\ pc[c] \in {"refresh"} \cup Syncing => c \in stored
       /\ pc[c] = "over" =>
            outcome[c] = "none" \/ (outcome[c] \in {"done", "sync-failed"} <=> c \in stored)

ManagerInv ==
  /\ \A c, d \in Calls : Holding(c) /\ Holding(d) => c = d
  /\ \A c \in Calls : Shown(c) /\ Truthful(c)

\* The steps of the session and of the prompts leave what the manager has shown.
LEMMA ManagerRests ==
  ASSUME AuthTypeOK, ManagerInv,
         UNCHANGED <<pc, claiming, stored>>,
         \A c \in Calls : outcome'[c] = outcome[c] \/ (Active(c) /\ Active(c)')
  PROVE  ManagerInv'
BY DEF AuthTypeOK, ManagerInv, Holding, Shown, Truthful, Active, AtWork, Syncing, Altering

\* A call ends with an outcome that is true.
LEMMA ManagerEnds ==
  ASSUME AuthTypeOK, ManagerInv, NEW c \in Calls, NEW o \in Ended,
         pc[c] \in AtWork, Ends(c, o),
         stored' = stored \/ stored' = stored \cup {c},
         ActionOf[c] \in Altering => (o \in {"done", "sync-failed"} <=> c \in stored')
  PROVE  ManagerInv'
<1> USE AuthAssumption
<1>1. \A d \in Calls : d # c => pc[d] \notin {"runtime"} \cup AtWork
  BY DEF ManagerInv, Holding
<1>2. /\ pc' = [pc EXCEPT ![c] = "over"]
      /\ claiming' \in {claiming, Nobody}
      /\ outcome' = [outcome EXCEPT ![c] = IF ActionOf[c] = "directory" THEN "none" ELSE o]
  BY DEF Ends, Goto
<1>3. \A d \in Calls : ~(Holding(d)')
  BY <1>1, <1>2 DEF AuthTypeOK, Holding, AtWork, Syncing
<1>4. \A d \in Calls : Truthful(d)'
  <2> SUFFICES ASSUME NEW d \in Calls PROVE Truthful(d)'
    OBVIOUS
  <2>1. CASE d = c
    BY <1>2, <2>1 DEF AuthTypeOK, Truthful, Syncing, Altering
  <2>2. CASE d # c
    BY <1>2, <2>2 DEF AuthTypeOK, ManagerInv, Truthful
  <2> QED BY <2>1, <2>2
<1> QED BY <1>3, <1>4 DEF ManagerInv, Holding, Shown

\* The catch tells the truth when what it has been told is the truth.
LEMMA ManagerThrown ==
  ASSUME AuthTypeOK, ManagerInv, NEW c \in Calls, NEW storing \in BOOLEAN,
         pc[c] \in AtWork, Thrown(c, storing),
         storing => pc[c] = "pi" /\ ActionOf[c] \in Altering,
         stored' = IF storing THEN stored \cup {c} ELSE stored
  PROVE  ManagerInv'
<1> DEFINE o == IF committed(c) \/ storing THEN "sync-failed"
                ELSE IF c \in aborted THEN "cancelled" ELSE "error"
<1>1. Ends(c, o)
  BY DEF Thrown
<1>2. o \in Ended
  BY DEF Ended
<1>3. ActionOf[c] \in Altering => (o \in {"done", "sync-failed"} <=> c \in stored')
  BY DEF committed, AuthTypeOK, ManagerInv, Truthful, AtWork, Syncing
<1> HIDE DEF o
<1> QED BY <1>1, <1>2, <1>3, ManagerEnds

\* An operation goes on to its next await.
LEMMA ManagerGoes ==
  ASSUME AuthTypeOK, ManagerInv, NEW c \in Calls, NEW l \in {"refresh"} \cup Syncing,
         pc[c] \in AtWork, Goto(c, l), UNCHANGED <<claiming, outcome>>,
         stored' = stored \/ stored' = stored \cup {c},
         ActionOf[c] \in Altering => c \in stored'
  PROVE  ManagerInv'
<1>1. pc' = [pc EXCEPT ![c] = l]
  BY DEF Goto
<1>2. \A d \in Calls : Holding(d)' => Holding(d)
  BY <1>1 DEF AuthTypeOK, Holding
<1>3. \A d \in Calls : Shown(d)'
  BY <1>1 DEF AuthTypeOK, ManagerInv, Shown, Active, AtWork, Syncing
<1>4. \A d \in Calls : Truthful(d)'
  <2> SUFFICES ASSUME NEW d \in Calls PROVE Truthful(d)'
    OBVIOUS
  <2>1. CASE d = c
    BY <1>1, <2>1 DEF AuthTypeOK, Truthful, Syncing
  <2>2. CASE d # c
    BY <1>1, <2>2 DEF AuthTypeOK, ManagerInv, Truthful
  <2> QED BY <2>1, <2>2
<1> QED BY <1>2, <1>3, <1>4 DEF ManagerInv

\* A call begins when nobody holds the manager, or is refused.
LEMMA ManagerCall ==
  ASSUME AuthTypeOK, ManagerInv, NEW c \in Calls, Call(c)
  PROVE  ManagerInv'
<1> USE AuthAssumption DEF Call, Goto, At
<1>1. CASE Free
  <2>1. \A d \in Calls : ~Holding(d)
    BY <1>1 DEF Free, ManagerInv, Holding, Shown
  <2>2. \A d \in Calls : Holding(d)' => d = c
    BY <1>1, <2>1 DEF AuthTypeOK, Holding
  <2>3. \A d \in Calls : Shown(d)' /\ Truthful(d)'
    BY <1>1, <2>1 DEF AuthTypeOK, ManagerInv, Holding, Shown, Truthful, Active, AtWork, Syncing
  <2> QED BY <2>2, <2>3 DEF ManagerInv
<1>2. CASE ~Free
  <2>1. \A d \in Calls : Holding(d)' => Holding(d)
    BY <1>2 DEF AuthTypeOK, Holding, AtWork, Syncing
  <2>2. \A d \in Calls : Shown(d)'
    BY <1>2 DEF AuthTypeOK, ManagerInv, Shown, Active, AtWork, Syncing
  <2>3. \A d \in Calls : Truthful(d)'
    BY <1>2 DEF AuthTypeOK, ManagerInv, Truthful, Syncing
  <2> QED BY <2>1, <2>2, <2>3 DEF ManagerInv
<1> QED BY <1>1, <1>2

\* The runtime is there: the claim is dropped for an active outcome.
LEMMA ManagerRuntime ==
  ASSUME AuthTypeOK, ManagerInv, NEW c \in Calls, RuntimeThere(c)
  PROVE  ManagerInv'
<1> USE AuthAssumption DEF RuntimeThere, Goto, At
<1>1. \A d \in Calls : d # c => ~Holding(d)
  BY DEF ManagerInv, Holding
<1>2. \A d \in Calls : Holding(d)' => d = c
  BY <1>1 DEF AuthTypeOK, Holding
<1>3. \A d \in Calls : Shown(d)'
  BY <1>1, <1>2 DEF AuthTypeOK, ManagerInv, Holding, Shown, Active, AtWork, Syncing
<1>4. \A d \in Calls : Truthful(d)'
  BY DEF AuthTypeOK, ManagerInv, Truthful, Syncing
<1> QED BY <1>2, <1>3, <1>4 DEF ManagerInv

\* Every step keeps the promises of the manager.
LEMMA ManagerStep ==
  ASSUME AuthTypeOK, Prompted, ManagerInv, [AuthNext]_authVars
  PROVE  ManagerInv'
<1> USE AuthAssumption
<1>1. ASSUME NEW c \in Calls, AuthStep(c) PROVE ManagerInv'
  <2>1. CASE RuntimeThere(c) BY <2>1, ManagerRuntime
  <2>2. CASE PiAnswers(c)
    <3>1. CASE ActionOf[c] = "resolve"
      BY <2>2, <3>1, ManagerEnds DEF PiAnswers, At, AtWork, Ended, Altering
    <3>2. CASE ActionOf[c] # "resolve"
      <4> DEFINE l == IF ActionOf[c] \in Altering THEN "refresh" ELSE "sync"
      <4>1. /\ l \in {"refresh"} \cup Syncing /\ Goto(c, l) /\ UNCHANGED <<claiming, outcome>>
            /\ pc[c] \in AtWork
        BY <2>2, <3>2 DEF PiAnswers, At, AtWork, Syncing
      <4>2. /\ stored' = stored \/ stored' = stored \cup {c}
            /\ ActionOf[c] \in Altering => c \in stored'
        BY <2>2 DEF PiAnswers
      <4> HIDE DEF l
      <4> QED BY <4>1, <4>2, ManagerGoes
    <3> QED BY <3>1, <3>2
  <2>3. CASE PiThrows(c)
    <3>1. PICK storing \in BOOLEAN :
            /\ storing => ActionOf[c] \in Altering
            /\ Thrown(c, storing) /\ stored' = IF storing THEN stored \cup {c} ELSE stored
      BY <2>3 DEF PiThrows
    <3>2. pc[c] = "pi" /\ pc[c] \in AtWork
      BY <2>3 DEF PiThrows, At, AtWork
    <3> QED BY <3>1, <3>2, ManagerThrown
  <2>4. CASE Refreshed(c)
    <3>1. CASE Thrown(c, FALSE)
      BY <2>4, <3>1, ManagerThrown DEF Refreshed, At, AtWork
    <3>2. CASE ~Thrown(c, FALSE)
      BY <2>4, <3>2, ManagerGoes DEF Refreshed, At, AtWork, Syncing, ManagerInv, Truthful
    <3> QED BY <3>1, <3>2
  <2>5. CASE Synchronizes(c)
    <3>0. pc[c] = "sync" /\ stored' = stored
      BY <2>5 DEF Synchronizes, At
    <3>1. CASE Thrown(c, FALSE)
      BY <3>0, <3>1, ManagerThrown DEF AtWork, Syncing
    <3>2. CASE Ends(c, "done")
      BY <3>0, <3>2, ManagerEnds DEF AtWork, Syncing, Ended, ManagerInv, Truthful
    <3>3. CASE ~Thrown(c, FALSE) /\ ~Ends(c, "done")
      BY <2>5, <3>0, <3>3, ManagerGoes DEF Synchronizes, AtWork, Syncing, ManagerInv, Truthful
    <3> QED BY <3>1, <3>2, <3>3
  <2>6. CASE AdmissionAwaited(c)
    <3>0. pc[c] = "admission" /\ stored' = stored
      BY <2>6 DEF AdmissionAwaited, At
    <3>1. CASE Thrown(c, FALSE)
      BY <3>0, <3>1, ManagerThrown DEF AtWork, Syncing
    <3>2. CASE ~Thrown(c, FALSE)
      BY <2>6, <3>0, <3>2, ManagerGoes DEF AdmissionAwaited, AtWork, Syncing, ManagerInv, Truthful
    <3> QED BY <3>1, <3>2
  <2>7. CASE Inspected(c)
    <3>0. pc[c] = "inspect" /\ stored' = stored
      BY <2>7 DEF Inspected, At
    <3>1. CASE Thrown(c, FALSE)
      BY <3>0, <3>1, ManagerThrown DEF AtWork, Syncing
    <3>2. CASE Ends(c, "done")
      BY <3>0, <3>2, ManagerEnds DEF AtWork, Syncing, Ended, ManagerInv, Truthful
    <3> QED BY <2>7, <3>1, <3>2 DEF Inspected
  <2> QED BY <1>1, <2>1, <2>2, <2>3, <2>4, <2>5, <2>6, <2>7 DEF AuthStep
<1>2. ASSUME NEW c \in Calls, Prompt(c) PROVE ManagerInv'
  <2>1. Active(c)
    BY <1>2 DEF Prompt, At, ManagerInv, Shown, AtWork
  <2> QED BY <1>2, <2>1, ManagerRests DEF Prompt, AuthTypeOK, Active
<1>3. ASSUME NEW c \in Calls, PromptOver(c) PROVE ManagerInv'
  <2>1. Active(c)
    BY <1>3 DEF PromptOver, Prompted, Active
  <2> QED BY <1>3, <2>1, ManagerRests DEF PromptOver, AuthTypeOK, Active
<1>4. ASSUME NEW c \in Calls, Cancel(c) PROVE ManagerInv'
  BY <1>4, ManagerRests DEF Cancel, Abort, AuthTypeOK, Active
<1>5. CASE Dispose
  BY <1>5, ManagerRests DEF Dispose, Abort, AuthTypeOK, Active
<1>6. CASE UNCHANGED manager /\ UNCHANGED stored
  BY <1>6, ManagerRests DEF manager
<1> QED BY <1>1, <1>2, <1>3, <1>4, <1>5, <1>6, ManagerCall
      DEF AuthNext, authVars, Send, Dispatch, Acknowledged, RunEnds, ControlBegins, ControlEnds

-----------------------------------------------------------------------------
(* The session.                                                            *)

\* The inputs that were admitted and not answered, each once, in their order; only
\* the first of them is on its way to Pi.
Queue ==
  /\ \A i \in 1..Len(admissions) : input[admissions[i]] \in {"queued", "sending"}
  /\ \A i, j \in 1..Len(admissions) : admissions[i] = admissions[j] => i = j
  /\ \A m \in Inputs : input[m] = "sending" => First(m)

Sending == \E m \in Inputs : input[m] = "sending"

\* A synchronization has the session; while it waits, an input that is on its way is
\* not after the one that it waits for; later there is none.
Fenced(c) ==
  /\ pc[c] \in {"admission", "inspect"} => fence = c
  /\ pc[c] = "admission" /\ Sending => ~Answered(c)
  /\ pc[c] = "inspect" => ~Sending /\ ~busy

SessionInv == Queue /\ \A c \in Calls : Fenced(c)

\* What leaves the session alone leaves its calls alone, but for one that ends or
\* goes on before it has the session.
LEMMA SessionRests ==
  ASSUME AuthTypeOK, SessionInv, NEW c \in Calls, NEW l \in Places \ {"admission", "inspect"},
         pc' = pc \/ Goto(c, l), UNCHANGED session
  PROVE  SessionInv'
<1>1. \A d \in Calls : pc'[d] \in {"admission", "inspect"} => pc'[d] = pc[d]
  BY DEF Goto, AuthTypeOK
<1>2. Queue'
  BY DEF SessionInv, Queue, First, session
<1>3. \A d \in Calls : Fenced(d)'
  BY <1>1 DEF SessionInv, Fenced, Sending, Answered, session
<1> QED BY <1>2, <1>3 DEF SessionInv

\* A call ends and gives the session back.
LEMMA SessionEnds ==
  ASSUME AuthTypeOK, SessionInv, NEW c \in Calls, NEW o, Ends(c, o)
  PROVE  SessionInv'
<1> USE AuthAssumption
<1>1. /\ pc' = [pc EXCEPT ![c] = "over"]
      /\ fence' = IF fence = c THEN Nobody ELSE fence
      /\ awaited' = [awaited EXCEPT ![c] = {}]
      /\ UNCHANGED <<admissions, input, busy>>
  BY DEF Ends, Goto
<1>2. Queue'
  BY <1>1 DEF SessionInv, Queue, First
<1>3. ASSUME NEW d \in Calls PROVE Fenced(d)'
  <2>1. CASE d = c
    BY <1>1, <2>1 DEF AuthTypeOK, Fenced
  <2>2. CASE d # c
    <3>1. pc'[d] = pc[d] /\ awaited'[d] = awaited[d]
      BY <1>1, <2>2 DEF AuthTypeOK
    <3>2. pc[d] \in {"admission", "inspect"} => fence' = d
      BY <1>1, <2>2 DEF SessionInv, Fenced
    <3> QED BY <1>1, <3>1, <3>2 DEF SessionInv, Fenced, Sending, Answered
  <2> QED BY <2>1, <2>2
<1> QED BY <1>2, <1>3 DEF SessionInv

\* An operation that fails gives the session back.
LEMMA SessionThrown ==
  ASSUME AuthTypeOK, SessionInv, NEW c \in Calls, NEW storing, Thrown(c, storing)
  PROVE  SessionInv'
BY SessionEnds DEF Thrown

\* A synchronization takes the session, and notes the last input.
LEMMA SessionFenced ==
  ASSUME AuthTypeOK, SessionInv, NEW c \in Calls,
         fence = Nobody, fence' = c, Goto(c, "admission"),
         awaited' = [awaited EXCEPT ![c] = IF admissions = <<>> THEN {} ELSE {Last(admissions)}],
         UNCHANGED <<admissions, input, busy>>
  PROVE  SessionInv'
<1> USE AuthAssumption
<1>1. Queue'
  BY DEF SessionInv, Queue, First
<1>2. \A d \in Calls : pc[d] \notin {"admission", "inspect"}
  BY DEF SessionInv, Fenced
<1>3. Sending => ~(Answered(c)')
  <2> SUFFICES ASSUME Sending PROVE ~(Answered(c)')
    OBVIOUS
  <2>1. admissions # <<>> /\ Len(admissions) \in 1..Len(admissions)
    BY DEF Sending, SessionInv, Queue, First, AuthTypeOK
  <2>2. input[Last(admissions)] # "over"
    BY <2>1 DEF SessionInv, Queue, Last
  <2>3. awaited'[c] = {Last(admissions)}
    BY <2>1 DEF AuthTypeOK
  <2> QED BY <2>2, <2>3 DEF Answered
<1>4. \A d \in Calls : Fenced(d)'
  BY <1>2, <1>3 DEF Goto, AuthTypeOK, Fenced, Sending
<1> QED BY <1>1, <1>4 DEF SessionInv

\* The prior input was answered, so that none is on its way.
LEMMA SessionAdmits ==
  ASSUME AuthTypeOK, SessionInv, NEW c \in Calls, AdmissionAwaited(c)
  PROVE  SessionInv'
<1>1. CASE Answered(c) /\ ~busy
  <2>1. /\ pc[c] = "admission" /\ pc' = [pc EXCEPT ![c] = "inspect"]
        /\ UNCHANGED <<fence, admissions, awaited, input, busy>>
    BY <1>1 DEF AdmissionAwaited, At, Goto, session
  <2>2. Queue'
    BY <2>1 DEF SessionInv, Queue, First
  <2>3. \A d \in Calls : Fenced(d)'
    BY <1>1, <2>1 DEF AuthTypeOK, SessionInv, Fenced, Sending, Answered
  <2> QED BY <2>2, <2>3 DEF SessionInv
<1>2. CASE ~(Answered(c) /\ ~busy)
  BY <1>2, SessionThrown DEF AdmissionAwaited
<1> QED BY <1>1, <1>2

\* An input is sent.
LEMMA SessionSend ==
  ASSUME AuthTypeOK, SessionInv, NEW m \in Inputs, Send(m)
  PROVE  SessionInv'
<1>1. /\ input[m] = "idle" /\ input' = [input EXCEPT ![m] = "queued"]
      /\ admissions' = Append(admissions, m)
      /\ UNCHANGED <<pc, fence, awaited, busy>>
  BY DEF Send, manager
<1>2. /\ Len(admissions') = Len(admissions) + 1 /\ Len(admissions) \in Nat
      /\ \A i \in 1..Len(admissions) : admissions'[i] = admissions[i] /\ admissions[i] \in Inputs
      /\ admissions'[Len(admissions) + 1] = m
  BY <1>1 DEF AuthTypeOK
<1>3. \A i \in 1..Len(admissions) : admissions[i] # m
  BY <1>1 DEF SessionInv, Queue
<1>4. \A k \in Inputs : (input'[k] = "sending") = (input[k] = "sending")
  BY <1>1 DEF AuthTypeOK
<1>5. \A i \in 1..Len(admissions') : input'[admissions'[i]] \in {"queued", "sending"}
  <2> SUFFICES ASSUME NEW i \in 1..Len(admissions')
               PROVE  input'[admissions'[i]] \in {"queued", "sending"}
    OBVIOUS
  <2>1. CASE i = Len(admissions) + 1
    BY <2>1, <1>1, <1>2 DEF AuthTypeOK
  <2>2. CASE i # Len(admissions) + 1
    <3>1. i \in 1..Len(admissions) /\ admissions'[i] = admissions[i]
      BY <2>2, <1>2 DEF AuthTypeOK
    <3> QED BY <3>1, <1>1, <1>3 DEF AuthTypeOK, SessionInv, Queue
  <2> QED BY <2>1, <2>2
<1>6. \A i, j \in 1..Len(admissions') : admissions'[i] = admissions'[j] => i = j
  BY <1>2, <1>3 DEF SessionInv, Queue
<1>7. \A k \in Inputs : input'[k] = "sending" => First(k)'
  <2> SUFFICES ASSUME NEW k \in Inputs, First(k) PROVE First(k)'
    BY <1>4 DEF SessionInv, Queue
  <2>1. Len(admissions) >= 1
    BY DEF First, AuthTypeOK
  <2> QED BY <1>1, <1>2, <2>1 DEF First, AuthTypeOK
<1>8. \A d \in Calls : Fenced(d)'
  BY <1>1, <1>4 DEF AuthTypeOK, SessionInv, Fenced, Sending, Answered
<1> QED BY <1>5, <1>6, <1>7, <1>8 DEF SessionInv, Queue

\* The first input is over.
LEMMA SessionOver ==
  ASSUME AuthTypeOK, SessionInv, NEW m \in Inputs, First(m),
         input' = [input EXCEPT ![m] = "over"], admissions' = Tail(admissions),
         UNCHANGED <<pc, fence, awaited>>, busy' = busy \/ input[m] = "sending"
  PROVE  SessionInv'
<1>1. /\ Len(admissions) >= 1 /\ admissions[1] = m
      /\ Len(admissions') = Len(admissions) - 1 /\ Len(admissions) \in Nat
      /\ \A i \in 1..Len(admissions') : admissions'[i] = admissions[i + 1]
      /\ \A i \in 1..Len(admissions) : admissions[i] \in Inputs
  BY DEF First, AuthTypeOK
<1>2. \A i \in 1..Len(admissions') : admissions'[i] # m
  BY <1>1 DEF SessionInv, Queue
<1>3. \A i \in 1..Len(admissions') : input'[admissions'[i]] \in {"queued", "sending"}
  BY <1>1, <1>2 DEF AuthTypeOK, SessionInv, Queue
<1>4. \A i, j \in 1..Len(admissions') : admissions'[i] = admissions'[j] => i = j
  <2> SUFFICES ASSUME NEW i \in 1..Len(admissions'), NEW j \in 1..Len(admissions'),
                      admissions'[i] = admissions'[j]
               PROVE  i = j
    OBVIOUS
  <2>1. i + 1 \in 1..Len(admissions) /\ j + 1 \in 1..Len(admissions)
    BY <1>1
  <2>2. i + 1 = j + 1
    BY <1>1, <2>1 DEF SessionInv, Queue
  <2> QED BY <2>2
<1>5. \A k \in Inputs : input[k] = "sending" => k = m
  BY DEF SessionInv, Queue, First
<1>6. \A k \in Inputs : input'[k] # "sending"
  BY <1>5 DEF AuthTypeOK
<1>7. \A d \in Calls : Fenced(d)'
  BY <1>5, <1>6 DEF AuthTypeOK, SessionInv, Fenced, Sending
<1> QED BY <1>3, <1>4, <1>6, <1>7 DEF SessionInv, Queue

\* The first input goes on to Pi, if nobody has the session.
LEMMA SessionDispatch ==
  ASSUME AuthTypeOK, SessionInv, NEW m \in Inputs, Dispatch(m)
  PROVE  SessionInv'
<1> USE AuthAssumption
<1>1. /\ First(m) /\ input[m] = "queued"
      /\ UNCHANGED <<pc, fence, awaited, busy>>
  BY DEF Dispatch, manager
<1>2. CASE fence = Nobody /\ input' = [input EXCEPT ![m] = "sending"] /\ UNCHANGED admissions
  <2>1. \A d \in Calls : pc[d] \notin {"admission", "inspect"}
    BY <1>2 DEF SessionInv, Fenced
  <2>2. Queue'
    BY <1>1, <1>2 DEF AuthTypeOK, SessionInv, Queue, First
  <2> QED BY <1>1, <2>1, <2>2 DEF SessionInv, Fenced
<1>3. CASE input' = [input EXCEPT ![m] = "over"] /\ admissions' = Tail(admissions)
  BY <1>1, <1>3, SessionOver
<1> QED BY <1>2, <1>3 DEF Dispatch

\* Every step keeps what the session promises.
LEMMA SessionStep ==
  ASSUME AuthTypeOK, SessionInv, [AuthNext]_authVars
  PROVE  SessionInv'
<1> USE AuthAssumption
<1>1. ASSUME NEW c \in Calls, AuthStep(c) PROVE SessionInv'
  <2>1. CASE RuntimeThere(c)
    <3>1. (Goto(c, "over") \/ Goto(c, "pi")) /\ UNCHANGED session
      BY <2>1 DEF RuntimeThere
    <3> QED BY <3>1, SessionRests DEF Places
  <2>2. CASE PiAnswers(c)
    BY <2>2, SessionEnds, SessionRests DEF PiAnswers, Places
  <2>3. CASE PiThrows(c)
    BY <2>3, SessionThrown DEF PiThrows
  <2>4. CASE Refreshed(c)
    BY <2>4, SessionThrown, SessionRests DEF Refreshed, Places
  <2>5. CASE Synchronizes(c)
    BY <2>5, SessionEnds, SessionThrown, SessionFenced DEF Synchronizes
  <2>6. CASE AdmissionAwaited(c)
    BY <2>6, SessionAdmits
  <2>7. CASE Inspected(c)
    BY <2>7, SessionEnds, SessionThrown DEF Inspected
  <2> QED BY <1>1, <2>1, <2>2, <2>3, <2>4, <2>5, <2>6, <2>7 DEF AuthStep
<1>2. ASSUME NEW c \in Calls, Call(c) PROVE SessionInv'
  <2>1. (Goto(c, "runtime") \/ Goto(c, "over")) /\ UNCHANGED session
    BY <1>2 DEF Call
  <2> QED BY <2>1, SessionRests DEF Places
<1>3. ASSUME NEW c \in Calls, Prompt(c) \/ PromptOver(c) \/ Cancel(c) PROVE SessionInv'
  <2>1. pc' = pc /\ UNCHANGED session
    BY <1>3 DEF Prompt, PromptOver, Cancel
  <2> QED BY <2>1, SessionRests DEF Places
<1>4. CASE Dispose
  <2>1. UNCHANGED <<pc, fence, admissions, awaited, input, busy>>
    BY <1>4 DEF Dispose, session
  <2> QED BY <2>1 DEF SessionInv, Queue, First, Fenced, Sending, Answered
<1>5. ASSUME NEW m \in Inputs, Acknowledged(m) PROVE SessionInv'
  BY <1>5, SessionOver DEF Acknowledged, manager
<1>6. CASE RunEnds \/ ControlBegins \/ ControlEnds
  <2>1. /\ UNCHANGED <<pc, admissions, awaited, input>>
        /\ busy' => busy
        /\ \A c \in Calls : fence = c => fence' = c
    BY <1>6 DEF RunEnds, ControlBegins, ControlEnds, manager, AuthTypeOK
  <2> QED BY <2>1 DEF SessionInv, Queue, First, Fenced, Sending, Answered
<1>7. CASE UNCHANGED authVars
  <2>1. UNCHANGED <<pc, fence, admissions, awaited, input, busy>>
    BY <1>7 DEF authVars, manager, session
  <2> QED BY <2>1 DEF SessionInv, Queue, First, Fenced, Sending, Answered
<1> QED BY <1>1, <1>2, <1>3, <1>4, <1>5, <1>6, <1>7, SessionSend, SessionDispatch DEF AuthNext

-----------------------------------------------------------------------------

AuthInv == AuthTypeOK /\ Prompted /\ ManagerInv /\ SessionInv

\* The invariant holds of every state of the specification.
THEOREM AuthInvariant == AuthSpec => []AuthInv
<1>1. AuthInit => AuthInv
  <2> SUFFICES ASSUME AuthInit PROVE AuthInv
    OBVIOUS
  <2> USE AuthAssumption DEF AuthInit
  <2>1. AuthTypeOK
    <3>1. /\ pc \in [Calls -> Places] /\ input \in [Inputs -> {"idle", "queued", "sending", "over"}]
          /\ outcome \in [Calls -> {"none", "running", "waiting"} \cup Ended]
      BY DEF Places
    <3>2. asked \in [Calls -> 0..MaxPrompts] /\ awaited \in [Calls -> SUBSET Inputs]
      <4>1. 0 \in 0..MaxPrompts
        OBVIOUS
      <4>2. asked = [c \in Calls |-> 0] /\ awaited = [c \in Calls |-> {}]
        OBVIOUS
      <4> QED BY <4>1, <4>2
    <3>3. busy \in BOOLEAN
      OBVIOUS
    <3>4. admissions \in Seq(Inputs)
      <4>1. admissions = <<>> /\ <<>> \in Seq(Inputs)
        OBVIOUS
      <4> QED BY <4>1
    <3>5. /\ claiming \in Calls \cup {Nobody} /\ fence \in Calls \cup {Control, Nobody}
          /\ aborted \subseteq Calls /\ stored \subseteq Calls
      OBVIOUS
    <3> QED BY <3>1, <3>2, <3>3, <3>4, <3>5 DEF AuthTypeOK
  <2>2. Prompted
    BY DEF Prompted
  <2>3. ManagerInv
    BY DEF ManagerInv, Holding, Shown, Truthful, AtWork, Syncing
  <2>4. SessionInv
    BY DEF SessionInv, Queue, Fenced, Sending
  <2> QED BY <2>1, <2>2, <2>3, <2>4 DEF AuthInv
<1>2. AuthInv /\ [AuthNext]_authVars => AuthInv'
  BY AuthTypeStep, ManagerStep, SessionStep DEF AuthInv
<1> QED BY <1>1, <1>2, PTL DEF AuthSpec

\* An operation tells of a change exactly when Pi has made it (perform).
THEOREM ToldTheTruth == AuthSpec => []AuthTold
<1>1. AuthInv => AuthTold
  <2> SUFFICES ASSUME AuthInv, NEW c \in Calls, ~Active(c), outcome[c] # "none", ActionOf[c] \in Altering
               PROVE  outcome[c] \in {"done", "sync-failed"} <=> c \in stored
    BY DEF AuthTold
  <2>1. Shown(c) /\ Truthful(c) /\ pc[c] \in Places
    BY DEF AuthInv, ManagerInv, AuthTypeOK
  <2>2. pc[c] \notin AtWork
    BY <2>1 DEF Shown, Altering
  <2>3. pc[c] = "over"
    BY <2>1, <2>2 DEF Truthful, Places, AtWork, Syncing
  <2> QED BY <2>1, <2>3 DEF Truthful
<1> QED BY <1>1, AuthInvariant, PTL

\* Operations on the credentials exclude each other (start, refresh).
THEOREM AloneAtWork == AuthSpec => []AuthAlone
<1>1. AuthInv => AuthAlone
  BY DEF AuthInv, ManagerInv, Holding, AuthAlone
<1> QED BY <1>1, AuthInvariant, PTL

\* A synchronization has the session to itself (synchronizePiAuthSessions).
THEOREM SynchronizesAlone == AuthSpec => []SyncAlone
<1>1. AuthInv => SyncAlone
  BY DEF AuthInv, SessionInv, Fenced, Sending, SyncAlone, At
<1> QED BY <1>1, AuthInvariant, PTL

\* Both: an operation has the credentials, and then the session, to itself.
THEOREM OperationsWorkAlone == AuthSpec => []WorksAlone
<1>1. AuthAlone /\ SyncAlone => WorksAlone
  BY DEF WorksAlone
<1> QED BY <1>1, AloneAtWork, SynchronizesAlone, PTL

-----------------------------------------------------------------------------
(* The catalog of providers.                                               *)

ReadsOf == [epoch : Nat, pid : Nat, since : SUBSET Starts]

\* Nothing that is remembered or under way is newer than the epoch.
CatalogTypeOK ==
  /\ epoch \in Nat /\ pid \in Nat
  /\ underway \subseteq ReadsOf
  /\ known \in ReadsOf \cup {Absent}
  /\ shared \in ReadsOf \cup {Absent}
  /\ called \subseteq Starts
  /\ place \in [Lookers -> {"idle", "snapshot", "read", "back", "over"}]
  /\ active \in [Lookers -> Nat]

\* Every start that was called has advanced the epoch, so what was begun in the
\* present one was begun after all of them.
Fresh(r) == r.epoch <= epoch /\ (r.epoch = epoch => called \subseteq r.since)

\* Only a read of the present epoch is remembered, or offered to others.
TablesFresh ==
  /\ \A r \in underway : Fresh(r)
  /\ known # Absent => known.epoch = epoch /\ called \subseteq known.since
  /\ shared # Absent => shared.epoch = epoch /\ called \subseteq shared.since

\* A start that is on its way was called.
StartsCalled == \A c \in Starts : place[c] # "idle" => c \in called

CatalogInv == CatalogTypeOK /\ TablesFresh /\ StartsCalled /\ StartInspectsFresh

\* What is invalidated leaves no read of the present epoch.
LEMMA InvalidateStep ==
  ASSUME CatalogTypeOK, TablesFresh, Invalidate,
         pid' \in Nat, underway' = underway, called' \subseteq Starts
  PROVE  TablesFresh' /\ epoch' \in Nat
BY DEF CatalogTypeOK, TablesFresh, Fresh, Invalidate, ReadsOf

\* A start or a view begins to look.
LEMMA LookStep ==
  ASSUME CatalogInv, NEW c \in Lookers, Look(c)
  PROVE  CatalogInv'
<1> USE DEF CatalogInv, CatalogTypeOK, StartsCalled, StartInspectsFresh, Look, Moves, Lookers
<1>1. CASE c \in Starts
  <2>1. TablesFresh'
    BY <1>1, InvalidateStep
  <2>2. CatalogTypeOK'
    BY <1>1 DEF Invalidate
  <2> QED BY <1>1, <2>1, <2>2
<1>2. CASE c \notin Starts
  <2>1. TablesFresh'
    BY <1>2 DEF TablesFresh, Fresh, tables
  <2>2. CatalogTypeOK'
    BY <1>2 DEF tables
  <2> QED BY <1>2, <2>1, <2>2
<1> QED BY <1>1, <1>2

\* A call that goes on with what is remembered goes on with something fresh.
LEMMA UsesFresh ==
  ASSUME CatalogInv, NEW c \in Lookers, NEW p, Uses(c, p), place[c] # "idle"
  PROVE  stale' = stale
BY DEF CatalogInv, TablesFresh, StartsCalled, Uses, Remembered

\* A call ends.
LEMMA LookerEnds ==
  ASSUME CatalogInv, NEW c \in Lookers, LooksInVain(c) \/ LooksUp(c) \/ Unavailable(c) \/ Back(c)
  PROVE  CatalogInv'
<1>1. UNCHANGED <<tables, pid, underway, active, joined, called>>
  BY DEF LooksInVain, LooksUp, Unavailable, Back
<1>2. place[c] # "idle" /\ place' = [place EXCEPT ![c] = "over"]
  BY DEF LooksInVain, LooksUp, Unavailable, Back, Moves
<1>3. stale' = stale
  BY <1>2, UsesFresh DEF LooksInVain, LooksUp, Unavailable, Back
<1>4. TablesFresh'
  BY <1>1 DEF CatalogInv, TablesFresh, Fresh, tables
<1> QED
  BY <1>1, <1>2, <1>3, <1>4
  DEF CatalogInv, CatalogTypeOK, StartsCalled, StartInspectsFresh, tables, Lookers

\* A read is joined or begun.
LEMMA JoinsStep ==
  ASSUME CatalogInv, NEW c \in Lookers, Joins(c)
  PROVE  CatalogInv'
<1> DEFINE fresh == [epoch |-> epoch, pid |-> pid, since |-> called]
<1> DEFINE r == IF shared # Absent /\ shared.pid = pid THEN shared ELSE fresh
<1>1. r \in ReadsOf /\ r.epoch = epoch /\ called \subseteq r.since
  BY DEF CatalogInv, CatalogTypeOK, TablesFresh, ReadsOf
<1>2. /\ shared' = r /\ underway' = underway \cup {r}
      /\ active' = [active EXCEPT ![c] = pid]
      /\ place[c] = "snapshot" /\ place' = [place EXCEPT ![c] = "read"]
      /\ UNCHANGED <<epoch, known, unavailable, pid, called, stale>>
  BY DEF Joins, Moves
<1> HIDE DEF r
<1>3. CatalogTypeOK'
  BY <1>1, <1>2 DEF CatalogInv, CatalogTypeOK
<1>4. TablesFresh'
  BY <1>1, <1>2 DEF CatalogInv, CatalogTypeOK, TablesFresh, Fresh
<1> QED
  BY <1>2, <1>3, <1>4 DEF CatalogInv, CatalogTypeOK, StartsCalled, StartInspectsFresh, Lookers

\* A read ends, well or not.
LEMMA CatalogReadStep ==
  ASSUME CatalogInv, NEW r \in underway, ReadDone(r) \/ ReadFails(r)
  PROVE  CatalogInv'
<1>1. /\ underway' = underway \ {r}
      /\ shared' \in {shared, Absent}
      /\ UNCHANGED <<epoch, pid, active, called, stale>>
  BY DEF ReadDone, ReadFails, ReadEnds
<1>2. known' = known \/ (known' = r /\ r.epoch = epoch)
  BY DEF ReadDone, ReadFails, UpToDate
<1>3. /\ place' \in [Lookers -> {"idle", "snapshot", "read", "back", "over"}]
      /\ \A c \in Lookers : place'[c] # "idle" => place[c] # "idle"
  BY DEF ReadDone, ReadFails, CatalogInv, CatalogTypeOK
<1>4. CatalogTypeOK'
  BY <1>1, <1>2, <1>3 DEF CatalogInv, CatalogTypeOK
<1>5. TablesFresh'
  BY <1>1, <1>2 DEF CatalogInv, TablesFresh, Fresh
<1> QED
  BY <1>1, <1>3, <1>4, <1>5 DEF CatalogInv, StartsCalled, StartInspectsFresh, Lookers

\* No start goes on with a catalog that was read before it was called (startPiAuth,
\* readPiAuth).
THEOREM StartsInspectFresh == CatalogSpec => []StartInspectsFresh
<1>1. CatalogInit => CatalogInv
  BY DEF CatalogInit, CatalogInv, CatalogTypeOK, TablesFresh, StartsCalled, StartInspectsFresh, Lookers
<1>2. CatalogInv /\ [CatalogNext]_catalogVars => CatalogInv'
  <2> SUFFICES ASSUME CatalogInv, [CatalogNext]_catalogVars PROVE CatalogInv'
    OBVIOUS
  <2>1. ASSUME NEW c \in Lookers,
               Look(c) \/ LooksInVain(c) \/ LooksUp(c) \/ Joins(c) \/ Unavailable(c) \/ Back(c)
        PROVE  CatalogInv'
    BY <2>1, LookStep, LookerEnds, JoinsStep
  <2>2. ASSUME NEW r \in underway, ReadDone(r) \/ ReadFails(r) PROVE CatalogInv'
    BY <2>2, CatalogReadStep
  <2>3. CASE Notified
    <3>1. TablesFresh' /\ epoch' \in Nat
      BY <2>3, InvalidateStep DEF Notified, CatalogInv, CatalogTypeOK
    <3> QED
      BY <2>3, <3>1 DEF Notified, Invalidate, CatalogInv, CatalogTypeOK, StartsCalled, StartInspectsFresh, lookers
  <2>4. CASE PiReplaced
    BY <2>4 DEF PiReplaced, CatalogInv, CatalogTypeOK, TablesFresh, Fresh, StartsCalled,
      StartInspectsFresh, tables, lookers
  <2>5. CASE UNCHANGED catalogVars
    BY <2>5 DEF catalogVars, CatalogInv, CatalogTypeOK, TablesFresh, Fresh, StartsCalled,
      StartInspectsFresh, tables, lookers
  <2> QED BY <2>1, <2>2, <2>3, <2>4, <2>5 DEF CatalogNext
<1>3. CatalogInv => StartInspectsFresh
  BY DEF CatalogInv
<1> QED BY <1>1, <1>2, <1>3, PTL DEF CatalogSpec
=============================================================================
