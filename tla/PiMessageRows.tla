---------------------------- MODULE PiMessageRows ----------------------------
(***************************************************************************)
(* The rows a session shows (pi-message-rows.ts), the deltas from one list *)
(* of rows to the next (pi-message-row-diff.ts), and what a snapshot makes *)
(* of a delta (zcode-protocol-v4/apply.ts).                                *)
(*                                                                         *)
(* A message is its number, its role and the size of its text: two texts   *)
(* are equal when number and size are, and one continues the other when    *)
(* only the size differs.  A projection is the messages that are known,    *)
(* the index of the one that streams (0: none), the id of each one's row   *)
(* (0: none yet) and the next id.  Each message has one row here, where    *)
(* the code has one for each part of it and a header for a turn; ids go    *)
(* with positions in both.  Left out: tools, images, commands, turns and   *)
(* the total count of a snapshot.                                          *)
(***************************************************************************)
EXTENDS Naturals, FiniteSets, Sequences

Roles == {"user", "assistant", "bash"}

Message(n, role, size) == [n |-> n, role |-> role, size |-> size]

\* An assistant's part has no row before its first text.
HasRow(message) == message.role # "assistant" \/ message.size > 0

NewRows == [messages |-> <<>>, active |-> 0, ids |-> <<>>, next |-> 1]

Row(p, i) ==
  [ id |-> p.ids[i], of |-> p.messages[i].n, size |-> p.messages[i].size,
    streaming |-> p.active = i /\ p.messages[i].role = "assistant" ]

\* The elements of s at the positions in I, in their order.
Selected(s, I) ==
  LET upTo[n \in 0..Len(s)] ==
        IF n = 0 THEN <<>> ELSE IF n \in I THEN Append(upTo[n - 1], s[n]) ELSE upTo[n - 1]
  IN  upTo[Len(s)]

\* The rows of a projection, in the order of its messages.
Rows(p) ==
  Selected([i \in DOMAIN p.messages |-> Row(p, i)], {i \in DOMAIN p.messages : HasRow(p.messages[i])})

\* Building the rows gives an id to each that has none, in order.
Built(p) ==
  LET new  == {i \in DOMAIN p.messages : HasRow(p.messages[i]) /\ p.ids[i] = 0}
      rank(i) == Cardinality({j \in new : j < i})
  IN  [p EXCEPT !.ids = [i \in DOMAIN p.messages |-> IF i \in new THEN p.next + rank(i) ELSE p.ids[i]],
                !.next = p.next + Cardinality(new)]

-----------------------------------------------------------------------------
(* The records of Pi. *)

Started(p, message) ==
  Built([p EXCEPT !.messages = Append(@, message), !.ids = Append(@, 0), !.active = Len(p.messages) + 1])

Streamed(p) ==
  IF p.active = 0 \/ p.messages[p.active].role # "assistant" THEN p
  ELSE Built([p EXCEPT !.messages[p.active].size = @ + 1])

Finished(p, message) ==
  IF p.active = 0
  THEN Built([p EXCEPT !.messages = Append(@, message), !.ids = Append(@, 0)])
  ELSE Built([p EXCEPT !.messages[p.active] = message, !.active = 0])

-----------------------------------------------------------------------------
(* The history of Pi. *)

SamePositions(messages, others) ==
  /\ Len(messages) = Len(others)
  /\ \A i \in DOMAIN messages :
        /\ messages[i].role = others[i].role
        /\ messages[i].role = "user" => messages[i] = others[i]

\* Ids survive only when every message is where it was.
Reconciled(p, history) ==
  Built([ messages |-> history, active |-> 0, next |-> p.next,
          ids |-> IF SamePositions(history, p.messages) THEN p.ids
                  ELSE [i \in DOMAIN history |-> 0] ])

-----------------------------------------------------------------------------
(* Deltas. *)

Grows(old, row) ==
  old.streaming /\ row.streaming /\ old.of = row.of /\ old.size <= row.size

Change(old, row) ==
  IF Grows(old, row) THEN [op |-> "delta", id |-> row.id, by |-> row.size - old.size]
  ELSE [op |-> "upserted", row |-> row]

\* How many rows from the first on have kept their ids.
Kept(prev, next) ==
  LET same(i) == i <= Len(prev) /\ i <= Len(next) /\ prev[i].id = next[i].id
  IN  CHOOSE k \in 0..Len(next) : ~same(k + 1) /\ \A i \in 1..k : same(i)

\* One delta for each of the first k rows that changed.
Changes(prev, next, k) ==
  Selected([i \in 1..k |-> Change(prev[i], next[i])], {i \in 1..k : prev[i] # next[i]})

Diff(prev, next) ==
  LET k == Kept(prev, next)
      removed == IF k < Len(prev) THEN <<[op |-> "removed", from |-> prev[k + 1].id]>> ELSE <<>>
  IN  Changes(prev, next, k) \o removed \o
      [i \in 1..(Len(next) - k) |-> [op |-> "appended", row |-> next[k + i]]]

\* A removal takes away the rows from an id on: those are the rows behind the
\* ones that are kept when the ids tell them apart.
CutClean(prev, next) ==
  Kept(prev, next) < Len(prev) =>
    \A i \in DOMAIN prev : prev[i].id < prev[Kept(prev, next) + 1].id <=> i <= Kept(prev, next)

\* A delta for a row that the snapshot does not have changes nothing.
AppliedDelta(window, delta) ==
  IF delta.op = "appended" THEN Append(window, delta.row)
  ELSE IF delta.op = "removed" THEN Selected(window, {i \in DOMAIN window : window[i].id < delta.from})
  ELSE IF delta.op = "upserted"
  THEN [i \in DOMAIN window |-> IF window[i].id = delta.row.id THEN delta.row ELSE window[i]]
  ELSE [i \in DOMAIN window |->
          IF window[i].id = delta.id THEN [window[i] EXCEPT !.size = @ + delta.by] ELSE window[i]]

Applied(window, deltas) ==
  LET after[n \in 0..Len(deltas)] == IF n = 0 THEN window ELSE AppliedDelta(after[n - 1], deltas[n])
  IN  after[Len(deltas)]
=============================================================================
