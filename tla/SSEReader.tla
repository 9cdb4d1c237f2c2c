------------------------------ MODULE SSEReader ------------------------------
(***************************************************************************)
(* The client reads the body of a streamed answer of llama-server and      *)
(* passes it on in pieces: readEvent gathers what Read returns until the   *)
(* bytes end with an empty line, and handleStreamRequest sends each result *)
(* as one message.  Read returns whatever has arrived, so its boundaries   *)
(* say nothing about those of the events, and the last bytes may come      *)
(* together with the end of the body: net/http does so when the end is in  *)
(* its buffer already.                                                     *)
(*                                                                         *)
(* A byte is a line feed "n", a carriage return "r" or any other "x".      *)
(***************************************************************************)
EXTENDS Naturals, Sequences, SequencesExt

CONSTANTS
  BufferSize,      \* of r.buffer (4096 in the code)
  MaxPayloadSize,  \* an event longer than this is cut (5 MB in the code)
  MaxBody          \* bound: bytes of a body

Bytes == {"n", "r", "x"}

VARIABLES
  body,    \* what Read has returned so far
  event,   \* the buffer of the same name
  pieces,  \* what readEvent has returned
  lost,    \* bytes of the body that were thrown away
  state    \* "reading", "atEOF": Read has returned io.EOF, "ended", "failed"

vars == <<body, event, pieces, lost, state>>

TypeOK ==
  /\ body \in Seq(Bytes) /\ Len(body) <= MaxBody
  /\ event \in Seq(Bytes) /\ lost \in Seq(Bytes)
  /\ pieces \in Seq(Seq(Bytes))
  /\ state \in {"reading", "atEOF", "ended", "failed"}

Init ==
  /\ body = <<>> /\ event = <<>> /\ pieces = <<>> /\ lost = <<>>
  /\ state = "reading"

(* What one Read may return.                                               *)
Reads == UNION {[1 .. n -> Bytes] : n \in 0 .. BufferSize}

Return(data) ==
  /\ pieces' = Append(pieces, data)
  /\ event' = <<>>

(* Mutant: one line feed is taken for the end of an event.                 *)
EndsLine(data) == Len(data) >= 4 /\ IsSuffix(<<"n">>, data)

(* The length is tested first: ":\n\n" is no event of its own.             *)
EndsEvent(data) ==
  /\ Len(data) >= 4
  /\ \/ IsSuffix(<<"n", "n">>, data)
     \/ IsSuffix(<<"r", "n", "r", "n">>, data)

Complete(data) == EndsEvent(data) \/ Len(data) > MaxPayloadSize

(* Mutant: the event buffer is not a new one for each call.                *)
ReadKeepsEvent(b) ==
  /\ event' = event \o b
  /\ pieces' = IF Complete(event') THEN Append(pieces, event') ELSE pieces
  /\ UNCHANGED <<lost, state>>

(* err = nil                                                               *)
Read(b) ==
  /\ IF Complete(event \o b)
       THEN Return(event \o b)
       ELSE event' = event \o b /\ UNCHANGED pieces
  /\ UNCHANGED <<lost, state>>

(* Any other error drops what was gathered; an error message is sent.      *)
ReadFails(b) ==
  /\ lost' = event \o b
  /\ event' = <<>>
  /\ state' = "failed"
  /\ UNCHANGED pieces

(* err = io.EOF is looked at before n: the bytes b that came with it are   *)
(* not added to the event.                                                 *)
ReadEOF(b) ==
  /\ lost' = b
  /\ state' = "atEOF"
  /\ IF event # <<>> THEN Return(event) ELSE UNCHANGED <<event, pieces>>

(* Read returns 0, io.EOF once more and stream_end is sent.                *)
End ==
  /\ state = "atEOF"
  /\ state' = "ended"
  /\ UNCHANGED <<body, event, pieces, lost>>

Next ==
  \/ \E b \in Reads :
       /\ state = "reading"
       /\ Len(body) + Len(b) <= MaxBody
       /\ body' = body \o b
       /\ Read(b) \/ ReadFails(b) \/ ReadEOF(b)
  \/ End
  \/ state \in {"ended", "failed"} /\ UNCHANGED vars

Spec == Init /\ [][Next]_vars

-----------------------------------------------------------------------------
(* Properties                                                              *)

(* Wherever Read cuts the body, the pieces put together are the body, but  *)
(* for what is still gathered and for one loss: the bytes of the very last *)
(* Read if it came with io.EOF (proxy.go:221), and on another error also   *)
(* the event it interrupted.                                               *)
Accounted ==
  /\ FlattenSeq(pieces) \o event \o lost = body
  /\ state = "reading" => lost = <<>>
  /\ state \in {"atEOF", "ended"} => Len(lost) <= BufferSize

(* An empty line of the body ends at its byte p.                           *)
EmptyLine(p) ==
  \/ p >= 2 /\ SubSeq(body, p - 1, p) = <<"n", "n">>
  \/ p >= 4 /\ SubSeq(body, p - 3, p) = <<"r", "n", "r", "n">>

(* Wherever Read cuts the body, a piece ends with an event and not within  *)
(* one, so that a caller may parse each piece on its own; the exceptions   *)
(* are an oversized piece and the end of the body.  And an event is not    *)
(* held back when a Read has ended with it, unless it is shorter than the  *)
(* four bytes readEvent asks for.                                          *)
PiecesEndEvents ==
  /\ \A i \in DOMAIN pieces :
       \/ EmptyLine(Len(FlattenSeq(SubSeq(pieces, 1, i))))
       \/ Len(pieces[i]) > MaxPayloadSize
       \/ i = Len(pieces) /\ state \in {"atEOF", "ended"}
  /\ EmptyLine(Len(body)) /\ state = "reading" => Len(event) < 4

=============================================================================
