------------------------------ MODULE RpcJsonl ------------------------------
(***************************************************************************)
(* RpcJsonlDecoder (rpc-jsonl.ts): the stdout of Pi, which comes in chunks *)
(* cut anywhere, as lines.                                                 *)
(*                                                                         *)
(* A byte is a line feed, a carriage return, a character of one byte, or   *)
(* the first or the second byte of a character of two, which stands for    *)
(* every character of several bytes (U+2028 and U+2029 among them).  Text  *)
(* is the sequence of the bytes it was decoded from.                       *)
(*                                                                         *)
(* Left out: the byte order mark, which TextDecoder swallows, and which of *)
(* the problems a record is reported for.                                  *)
(*                                                                         *)
(* An operator introduced by a comment that begins with "Bug:" is not part *)
(* of the specification: it is what a plausible mistake would make of the  *)
(* operator after it, and shows that the properties notice.                *)
(***************************************************************************)
EXTENDS Naturals, Sequences, FiniteSets, SequencesExt

CONSTANTS MaxRecordBytes,
          MaxOutput       \* how long an output is looked at (bound)

ASSUME JsonlAssumption == MaxRecordBytes \in Nat /\ MaxOutput \in Nat

VARIABLES
  output,      \* what Pi has written so far (history)
  decoder      \* the fields of the decoder, with what it has reported

jsonl == <<output, decoder>>

Bytes == {"lf", "cr", "a", "lead", "cont"}

New ==
  [text |-> <<>>, half |-> FALSE, bytes |-> 0, dropping |-> FALSE, ended |-> FALSE,
   lines |-> <<>>, problems |-> 0]

Reset(d) == [d EXCEPT !.text = <<>>, !.half = FALSE, !.bytes = 0]

Drop(d) == [Reset(d) EXCEPT !.dropping = TRUE, !.problems = @ + 1]

\* Whether a sequence of bytes is UTF-8.
WellFormed(bytes) ==
  \A i \in 1 .. Len(bytes) :
    /\ bytes[i] = "cont" => i > 1 /\ bytes[i - 1] = "lead"
    /\ bytes[i] = "lead" => i < Len(bytes) /\ bytes[i + 1] = "cont"

\* Bug: half a character is not carried over to the next chunk.
DecodeChunk(d, bytes) ==
  IF WellFormed(bytes) THEN [d EXCEPT !.text = @ \o bytes] ELSE Drop(d)

\* decoder.decode(bytes, { stream: true }): it remembers half a character.
Decode(d, bytes) ==
  LET all == (IF d.half THEN <<"lead">> ELSE <<>>) \o bytes
      half == all # <<>> /\ Last(all) = "lead"
      whole == IF half THEN Front(all) ELSE all
  IN IF WellFormed(whole) THEN [d EXCEPT !.text = @ \o whole, !.half = half] ELSE Drop(d)

AppendBytes(d, bytes) ==
  IF d.dropping THEN d
  ELSE IF d.bytes + Len(bytes) > MaxRecordBytes THEN Drop(d)
  ELSE Decode([d EXCEPT !.bytes = @ + Len(bytes)], bytes)

\* A line is reported without its carriage return, an empty one not at all.
Report(d) ==
  IF d.text = <<>> \/ d.ended THEN d
  ELSE [d EXCEPT !.lines =
          Append(@, IF Last(d.text) = "cr" THEN Front(d.text) ELSE d.text)]

FinishLine(d) ==
  LET flushed == IF ~d.dropping /\ d.half THEN Drop(d) ELSE d
  IN Reset([(IF flushed.dropping THEN flushed ELSE Report(flushed))
              EXCEPT !.dropping = FALSE])

Discard(d) == [Reset(d) EXCEPT !.ended = TRUE]

\* What lies between the last line feed before position i and that position.
RecordBefore(bytes, i) ==
  SubSeq(bytes, Max({0} \cup {j \in 1 .. i - 1 : bytes[j] = "lf"}) + 1, i - 1)

\* Every line feed of a chunk ends a line; what is left behind the last is kept.
Push(d, chunk) ==
  LET upTo[i \in 0 .. Len(chunk)] ==
        IF i = 0 THEN d
        ELSE IF chunk[i] = "lf" THEN FinishLine(AppendBytes(upTo[i - 1], RecordBefore(chunk, i)))
        ELSE upTo[i - 1]
  IN  IF d.ended THEN d ELSE AppendBytes(upTo[Len(chunk)], RecordBefore(chunk, Len(chunk) + 1))

End(d) ==
  IF d.ended THEN d
  ELSE Discard(IF d.bytes > 0 \/ d.dropping THEN FinishLine(d) ELSE d)

-----------------------------------------------------------------------------
(* A process that writes.                                                  *)

JsonlInit == output = <<>> /\ decoder = New

\* A chunk arrives, cut anywhere.
Receive ==
  \E n \in 1 .. MaxOutput - Len(output) : \E chunk \in [1 .. n -> Bytes] :
    /\ output' = output \o chunk
    /\ decoder' = Push(decoder, chunk)

JsonlSpec == JsonlInit /\ [][Receive]_jsonl

-----------------------------------------------------------------------------
(* What it promises, by a definition that knows the whole output.          *)

Good(record) == Len(record) <= MaxRecordBytes /\ WellFormed(record)

Stripped(record) == IF Last(record) = "cr" THEN Front(record) ELSE record

\* Whether a record ends before position i: at a line feed, or with the output.
Ends(bytes, i) == i = Len(bytes) + 1 \/ bytes[i] = "lf"

Lines(bytes) ==
  LET upTo[i \in 0 .. Len(bytes) + 1] ==
        IF i = 0 THEN <<>>
        ELSE IF Ends(bytes, i) /\ Good(RecordBefore(bytes, i)) /\ RecordBefore(bytes, i) # <<>>
        THEN Append(upTo[i - 1], Stripped(RecordBefore(bytes, i)))
        ELSE upTo[i - 1]
  IN  upTo[Len(bytes) + 1]

Problems(bytes) ==
  Cardinality({i \in 1 .. Len(bytes) + 1 : Ends(bytes, i) /\ ~Good(RecordBefore(bytes, i))})

\* However the output was cut into chunks, within a character or a record that is
\* too long among them: if it ended now, the lines would be those of the whole, each
\* malformed or too long record one problem, and no record that of its neighbour.
LinesIndependentOfCuts ==
  LET ended == End(decoder)
  IN ended.lines = Lines(output) /\ ended.problems = Problems(output)

=============================================================================
