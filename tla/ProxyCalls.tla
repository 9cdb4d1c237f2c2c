----------------------------- MODULE ProxyCalls -----------------------------
(***************************************************************************)
(* What the server half of llama-proxy promises to the applications that   *)
(* call its OpenAI-compatible HTTP API, with no queue, lock, identifier or *)
(* web socket in sight:                                                    *)
(*                                                                         *)
(*   - a call is refused at once or admitted, and at most                  *)
(*     MaxConcurrentRequests admitted calls hold a slot at any time;       *)
(*   - the pieces of a streamed answer reach the call in the order the     *)
(*     model produced them, and only while the call is open;               *)
(*   - a call is answered once, then gives its slot back.                  *)
(*                                                                         *)
(* RequestTable is shown to implement this module.                         *)
(***************************************************************************)
EXTENDS Naturals, Sequences, FiniteSets

CONSTANTS
  Requests,               \* the HTTP calls of a behaviour
  Streams,                \* the calls whose body asks for "stream": true
  MaxConcurrentRequests,  \* capacity of the server's semaphore
  Pieces                  \* numbers of the pieces of a streamed answer

VARIABLES
  phase,      \* "new", "open", "answered" (slot still held), "closed"
  delivered   \* per call, the numbers of the pieces written to it so far

vars == <<phase, delivered>>

Phases == {"new", "open", "answered", "closed"}

Slots == {r \in Requests : phase[r] \in {"open", "answered"}}

Init ==
  /\ phase = [r \in Requests |-> "new"]
  /\ delivered = [r \in Requests |-> <<>>]

Move(r, from, to) ==
  /\ phase[r] = from
  /\ phase' = [phase EXCEPT ![r] = to]

Refuse(r) == Move(r, "new", "closed") /\ UNCHANGED delivered

Admit(r) ==
  /\ Cardinality(Slots) < MaxConcurrentRequests
  /\ Move(r, "new", "open")
  /\ UNCHANGED delivered

(* Pieces may be missing (a full buffer drops them), never out of order.   *)
Deliver(r) ==
  /\ r \in Streams
  /\ phase[r] = "open"
  /\ \E n \in Pieces :
       /\ \A i \in DOMAIN delivered[r] : delivered[r][i] < n
       /\ delivered' = [delivered EXCEPT ![r] = Append(@, n)]
  /\ UNCHANGED phase

Answer(r) == Move(r, "open", "answered") /\ UNCHANGED delivered

Free(r) == Move(r, "answered", "closed") /\ UNCHANGED delivered

Next ==
  \E r \in Requests : Refuse(r) \/ Admit(r) \/ Deliver(r) \/ Answer(r) \/ Free(r)

Spec == Init /\ [][Next]_vars

=============================================================================
