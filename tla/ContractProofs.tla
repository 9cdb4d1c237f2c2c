--------------------------- MODULE ContractProofs ---------------------------
(***************************************************************************)
(* Proofs that the request path of the server keeps its promises, for      *)
(* every finite set of calls, every set of connections, every capacity and *)
(* any number of pieces.                                                   *)
(*                                                                         *)
(*   NoForwardPanic     Spec => []ForwardNeverPanics                       *)
(*   Answers            what a caller is handed was sent to it, and once   *)
(*   Refinement         Spec /\ []~Reconnected => Contract                 *)
(*   ServeNeverPanics   the same for a server that is not being stopped:   *)
(*                      it does not panic at all                           *)
(***************************************************************************)
EXTENDS RequestTableProofs

-----------------------------------------------------------------------------
(* The inductive invariant                                                 *)

(* The connections that have been accepted so far.                         *)
Opened == {c \in Conns : link[c] # "absent"}

(* Nothing comes from a connection that was never accepted.                *)
LinkInv ==
  /\ IsFiniteSet(Opened)
  /\ \A c \in Conns : link[c] = "absent" => wire[c] = <<>> /\ fwd[c] = NoMsg

(* The request of r has not left the server and is not about to.           *)
Unasked(r) ==
  /\ r \notin asked
  /\ \A c \in Conns : \A i \in DOMAIN sendChan[c] : sendChan[c][i] # r

(* The client knows no call before its handler has sent it, and answers    *)
(* none it does not know.                                                  *)
AskInv ==
  \A r \in Requests :
    /\ pc[r] \in {"new", "admitted", "prepared", "sending"} => Unasked(r)
    /\ r \notin asked => sent[r] = {}

(* What the client sends about r, the shape of MayLeave.                   *)
SentInv ==
  \A r \in Requests : \A m \in sent[r] :
    m.id = r /\ m.n \in 1 .. (MaxChunks + 1) /\ m.kind \in Kind(r, m.n)

(* Whatever is under way, or has been written to the caller, was sent.     *)
TransitInv ==
  /\ \A r \in Requests : \A i \in DOMAIN respChan[r] : respChan[r][i] \in sent[r]
  /\ \A c \in Conns : fwd[c] # NoMsg => fwd[c] \in sent[fwd[c].id]
  /\ \A c \in Conns : \A i \in DOMAIN wire[c] : wire[c][i] \in sent[wire[c][i].id]
  /\ \A r \in Requests : \A i \in DOMAIN chunks[r] :
       \E m \in sent[r] : m.n = chunks[r][i] /\ m.kind = "chunk"

(* All messages of r that have yet to pass readPump come after number k.   *)
Later(r, k) ==
  \A c \in Conns :
    /\ fwd[c] # NoMsg /\ fwd[c].id = r => k < fwd[c].n
    /\ \A i \in DOMAIN wire[c] : wire[c][i].id = r => k < wire[c][i].n

(* The last message is the last ...                                        *)
LastIsLast ==
  \A r \in Requests : \A m, o \in sent[r] : m.kind # "chunk" => o.n <= m.n

(* ... and on the way nothing overtakes: from the client to readPump, ...  *)
WireInOrder ==
  \A c \in Conns :
    /\ \A i, j \in DOMAIN wire[c] :
         i < j /\ wire[c][i].id = wire[c][j].id => wire[c][i].n < wire[c][j].n
    /\ \A i \in DOMAIN wire[c] :
         fwd[c] # NoMsg /\ fwd[c].id = wire[c][i].id => fwd[c].n < wire[c][i].n

(* ... from there through ResponseChan, ...                                *)
QueueInOrder ==
  \A r \in Requests : \A i \in DOMAIN respChan[r] :
    /\ Later(r, respChan[r][i].n)
    /\ \A j \in DOMAIN respChan[r] : i < j => respChan[r][i].n < respChan[r][j].n

(* ... and to the caller.                                                  *)
ChunksInOrder ==
  \A r \in Requests : \A i \in DOMAIN chunks[r] :
    /\ Later(r, chunks[r][i])
    /\ \A j \in DOMAIN respChan[r] : chunks[r][i] < respChan[r][j].n
    /\ \A j \in DOMAIN chunks[r] : i < j => chunks[r][i] < chunks[r][j]

(* No message of r is between the client and readPump's send, ...          *)
Passed(r) ==
  \A c \in Conns : /\ fwd[c] # NoMsg => fwd[c].id # r
                   /\ \A i \in DOMAIN wire[c] : wire[c][i].id # r

(* ... and the client has nothing to say about r, or no more.              *)
Silent(r) == Passed(r) /\ (Unasked(r) \/ \E m \in sent[r] : m.kind # "chunk")

(* ResponseChan is closed, or about to be.                                 *)
Retired(r) == respClosed[r] \/ (pc[r] = "leaving" /\ r \in table)

SilenceInv ==
  ~Cancelled /\ ~wedged =>
    panic # "sendOnClosed" /\ \A r \in Requests : Retired(r) => Silent(r)

(* What holds as long as the client has one connection.                    *)
OneLine == LastIsLast /\ WireInOrder /\ QueueInOrder /\ ChunksInOrder /\ SilenceInv

PInv == LinkInv /\ AskInv /\ SentInv /\ TransitInv /\ (~Reconnected => OneLine)

-----------------------------------------------------------------------------
(* Sequences                                                               *)

(* What is left of a queue is what was behind its head.                    *)
LEMMA TailAt ==
  ASSUME NEW S, NEW s \in Seq(S), s # <<>>
  PROVE  /\ Tail(s) \in Seq(S) /\ Head(s) \in S
         /\ 1 \in DOMAIN s /\ Head(s) = s[1]
         /\ DOMAIN s \subseteq Nat /\ DOMAIN Tail(s) \subseteq Nat
         /\ \A i \in DOMAIN Tail(s) : /\ i + 1 \in DOMAIN s /\ 1 < i + 1
                                      /\ Tail(s)[i] = s[i + 1]
<1>1. Len(s) \in Nat /\ Len(s) >= 1 /\ DOMAIN s = 1 .. Len(s)
  OBVIOUS
<1>2. Tail(s) \in Seq(S) /\ Head(s) \in S /\ Head(s) = s[1]
  OBVIOUS
<1>3. Len(Tail(s)) = Len(s) - 1
  OBVIOUS
<1>4. DOMAIN Tail(s) = 1 .. (Len(s) - 1)
  BY <1>2, <1>3
<1>5. ASSUME NEW i \in DOMAIN Tail(s)
      PROVE  i + 1 \in DOMAIN s /\ 1 < i + 1 /\ Tail(s)[i] = s[i + 1]
  BY <1>1, <1>4, <1>5
<1> QED
  BY <1>1, <1>2, <1>4, <1>5

(* What is in a queue after an append was there before, or is the last.    *)
LEMMA AppendAt ==
  ASSUME NEW S, NEW s \in Seq(S), NEW e \in S
  PROVE  /\ Append(s, e) \in Seq(S)
         /\ DOMAIN s \subseteq Nat /\ DOMAIN Append(s, e) \subseteq Nat
         /\ \A i \in DOMAIN Append(s, e) :
              \/ i \in DOMAIN s /\ Append(s, e)[i] = s[i]
              \/ /\ Append(s, e)[i] = e
                 /\ \A j \in DOMAIN Append(s, e) : j <= i
<1>1. Len(s) \in Nat /\ DOMAIN s = 1 .. Len(s) /\ Append(s, e) \in Seq(S)
  OBVIOUS
<1>2. DOMAIN Append(s, e) = 1 .. (Len(s) + 1)
  OBVIOUS
<1>3. \A i \in 1 .. Len(s) : Append(s, e)[i] = s[i]
  OBVIOUS
<1>4. Append(s, e)[Len(s) + 1] = e
  OBVIOUS
<1>5. ASSUME NEW i \in DOMAIN Append(s, e), i \notin DOMAIN s
      PROVE  i = Len(s) + 1
  BY <1>1, <1>2, <1>5
<1> QED
  BY <1>1, <1>2, <1>3, <1>4, <1>5

-----------------------------------------------------------------------------
(* Connections                                                             *)

(* A client that has not reconnected has one connection at most.           *)
LEMMA OneConnection ==
  ASSUME LinkInv, ~Reconnected
  PROVE  \A c, d \in Opened : c = d
<1>1. Cardinality(Opened) \in Nat /\ Cardinality(Opened) <= 1
  BY FS_CardinalityType DEF LinkInv, Reconnected, Opened
<1>2. SUFFICES ASSUME NEW c \in Opened, NEW d \in Opened, c # d
               PROVE  FALSE
  OBVIOUS
<1>3. IsFiniteSet(Opened \ {c}) /\ Cardinality(Opened \ {c}) = Cardinality(Opened) - 1
  BY FS_RemoveElement DEF LinkInv
<1>4. Cardinality(Opened \ {c}) = 0
  BY <1>1, <1>3, FS_CardinalityType
<1>5. Opened \ {c} = {}
  BY <1>3, <1>4, FS_EmptySet
<1> QED
  BY <1>2, <1>5

(* The steps that accept a connection, or lose one.                        *)
Drops(c) == Shut(c) /\ link[c] # "absent"

(* What the steps do to the connections.                                   *)
LEMMA LinkEffect ==
  ASSUME TypeOK, [Next]_vars
  PROVE  \/ UNCHANGED link
         \/ \E c \in Conns : Connect(c)
         \/ \E c \in Conns : Drops(c)
<1>1. ASSUME NEW r \in Requests, Admit(r) \/ Refuse(r) \/ Handler(r) \/ RemoteReply(r) \/ Expire(r)
      PROVE  UNCHANGED link
  BY <1>1 DEF Admit, Refuse, Handler, PickClient, Reject, RegisterRequest, SendRequest,
     SendBusy, SendPanics, ReceiveAnswer, ReceiveStream, GiveUp, UnregisterRequest,
     ReleaseSlot, RemoteReply, Expire, linkVars
<1>2. ASSUME NEW c \in Conns, ReadMessage(c) \/ ForwardMessage(c) \/ WriteRequest(c)
      PROVE  UNCHANGED link
  BY <1>2 DEF ReadMessage, ForwardMessage, WriteRequest
<1>3. ASSUME NEW c \in Conns, Disconnect(c)
      PROVE  Drops(c)
  BY <1>3 DEF Disconnect, Drops
<1>4. ASSUME WedgeCleaner \/ StopBlocks
      PROVE  \E c \in Conns : Drops(c)
  BY <1>4 DEF WedgeCleaner, StopBlocks, Wedge, Drops
<1>5. CASE CleanupExpiredRequests \/ StopCancel \/ StopCloseClients \/ StopClearRequests
              \/ StopShutdown \/ StopExit
  BY <1>5 DEF CleanupExpiredRequests, StopCancel, StopCloseClients, StopClearRequests,
              StopShutdown, StopExit, linkVars
<1>6. CASE UNCHANGED vars
  BY <1>6 DEF vars, linkVars
<1> QED
  BY <1>1, <1>2, <1>3, <1>4, <1>5, <1>6 DEF Next, Serve, Stop, Finished

-----------------------------------------------------------------------------
(* Steps that move no message                                              *)

Early == {"new", "admitted", "prepared", "sending"}

(* No message moves, and a handler leaves with its entry in the table only *)
(* if it could not send, or on account of Stop or a stuck cleaner.         *)
Calm ==
  /\ UNCHANGED <<chunks, respChan, sendChan, wire, fwd, asked, sent, link>>
  /\ \A r \in Requests : pc'[r] \in Early => pc[r] \in Early
  /\ panic' = "sendOnClosed" => panic = "sendOnClosed"
  /\ Cancelled \/ wedged => Cancelled' \/ wedged'
  /\ Cancelled' \/ wedged' \/ \A r \in Requests :
       Retired(r)' => Retired(r) \/ pc[r] \in Early

LEMMA CalmHandler ==
  ASSUME TypeOK, TableInv, NEW r \in Requests,
         \/ Admit(r) \/ Refuse(r) \/ PickClient(r) \/ Reject(r) \/ RegisterRequest(r)
         \/ SendBusy(r) \/ SendPanics(r) \/ GiveUp(r) \/ UnregisterRequest(r)
         \/ ReleaseSlot(r) \/ Expire(r)
  PROVE  Calm
<1> USE DEF TypeOK, Calm, Early, Retired, GoTo, Return, Cancelled,
            handlerVars, tableVars, linkVars, remoteVars, procVars
<1>1. CASE Admit(r)
  BY <1>1 DEF Admit
<1>2. CASE Refuse(r)
  BY <1>2 DEF Refuse
<1>3. CASE PickClient(r)
  BY <1>3 DEF PickClient
<1>4. CASE Reject(r)
  BY <1>4 DEF Reject
<1>5. CASE RegisterRequest(r)
  BY <1>5 DEF RegisterRequest
<1>6. CASE SendBusy(r)
  BY <1>6 DEF SendBusy, Sending
<1>7. CASE SendPanics(r)
  BY <1>7 DEF SendPanics, Sending
<1>8. CASE GiveUp(r)
  BY <1>8 DEF GiveUp, TableInv, TableOwnership
<1>9. CASE UnregisterRequest(r)
  BY <1>9 DEF UnregisterRequest
<1>10. CASE ReleaseSlot(r)
  BY <1>10 DEF ReleaseSlot
<1>11. CASE Expire(r)
  BY <1>11 DEF Expire
<1> QED
  BY <1>1, <1>2, <1>3, <1>4, <1>5, <1>6, <1>7, <1>8, <1>9, <1>10, <1>11

LEMMA CalmRest ==
  ASSUME TypeOK,
         \/ CleanupExpiredRequests \/ StopCancel \/ StopCloseClients
         \/ StopClearRequests \/ StopShutdown \/ StopExit \/ UNCHANGED vars
  PROVE  Calm
<1> USE DEF TypeOK, Calm, Early, Retired, Cancelled,
            handlerVars, tableVars, linkVars, remoteVars, procVars
<1>1. CASE CleanupExpiredRequests
  BY <1>1 DEF CleanupExpiredRequests, CancelRequests
<1>2. CASE StopCancel \/ StopCloseClients \/ StopShutdown \/ StopExit
  BY <1>2 DEF StopCancel, StopCloseClients, StopShutdown, StopExit, StopStep
<1>3. CASE StopClearRequests
  BY <1>3 DEF StopClearRequests, StopStep, CancelRequests
<1>4. CASE UNCHANGED vars
  BY <1>4 DEF vars
<1> QED
  BY <1>1, <1>2, <1>3, <1>4

(* The other steps: a message or a request moves, or a connection changes. *)
LEMMA StepKinds ==
  ASSUME TypeOK, TableInv, [Next]_vars
  PROVE  \/ Calm
         \/ \E r \in Requests : \/ SendRequest(r) \/ ReceiveAnswer(r)
                                \/ ReceiveStream(r) \/ RemoteReply(r)
         \/ \E c \in Conns : \/ Connect(c) \/ Disconnect(c) \/ ReadMessage(c)
                             \/ ForwardMessage(c) \/ WriteRequest(c)
         \/ WedgeCleaner \/ StopBlocks
  BY CalmHandler, CalmRest DEF Next, Serve, Stop, Finished, Handler

(* A connection that is lost takes along what is queued, and nothing else. *)
LEMMA DropSteps ==
  ASSUME TypeOK, WedgeCleaner \/ StopBlocks \/ \E c \in Conns : Disconnect(c)
  PROVE  /\ \E c \in Conns : Drops(c)
         /\ UNCHANGED <<chunks, respChan, asked, sent, pc, table, respClosed, panic>>
         /\ Cancelled \/ wedged => Cancelled' \/ wedged'
<1>1. ASSUME NEW c \in Conns, Disconnect(c)
      PROVE  Drops(c)
  BY <1>1 DEF Disconnect, Drops
<1>2. ASSUME WedgeCleaner \/ StopBlocks
      PROVE  \E c \in Conns : Drops(c)
  BY <1>2 DEF WedgeCleaner, StopBlocks, Wedge, Drops
<1>3. \E c \in Conns : Drops(c)
  BY <1>1, <1>2
<1>4. /\ UNCHANGED <<chunks, respChan, asked, sent, pc, table, respClosed, panic>>
      /\ Cancelled \/ wedged => Cancelled' \/ wedged'
  <2> USE DEF handlerVars, tableVars, remoteVars, procVars, Cancelled, TypeOK
  <2>1. CASE WedgeCleaner
    BY <2>1 DEF WedgeCleaner, Wedge
  <2>2. CASE StopBlocks
    BY <2>2 DEF StopBlocks, Wedge
  <2>3. ASSUME NEW c \in Conns, Disconnect(c)
        PROVE  UNCHANGED <<chunks, respChan, asked, sent, pc, table, respClosed, panic,
                           wedged, stopPc>>
    BY <2>3 DEF Disconnect
  <2> QED
    BY <2>1, <2>2, <2>3
<1> QED
  BY <1>3, <1>4

-----------------------------------------------------------------------------
(* The invariant holds initially and is kept: connections                  *)

LEMMA LinkStep ==
  ASSUME IInv, LinkInv, [Next]_vars
  PROVE  LinkInv' /\ (Reconnected => Reconnected')
<1>0. TypeOK /\ TableInv
  BY DEF IInv
<1>1. IsFiniteSet(Opened') /\ Opened \subseteq Opened'
  <2> USE <1>0
  <2>1. CASE UNCHANGED link
    BY <2>1 DEF LinkInv, Opened
  <2>2. ASSUME NEW c \in Conns, Connect(c)
        PROVE  IsFiniteSet(Opened') /\ Opened \subseteq Opened'
    <3>1. Opened' = Opened \cup {c}
      BY <2>2 DEF Connect, Opened, TypeOK
    <3> QED
      BY <3>1, FS_AddElement DEF LinkInv
  <2>3. ASSUME NEW c \in Conns, Drops(c)
        PROVE  IsFiniteSet(Opened') /\ Opened \subseteq Opened'
    <3>1. Opened' = Opened
      BY <2>3 DEF Drops, Shut, Opened, TypeOK
    <3> QED
      BY <3>1 DEF LinkInv
  <2> QED
    BY <2>1, <2>2, <2>3, LinkEffect
<1>2. Reconnected => Reconnected'
  <2>1. Cardinality(Opened) <= Cardinality(Opened')
    BY <1>1, FS_Subset
  <2>2. Cardinality(Opened) \in Nat /\ Cardinality(Opened') \in Nat
    BY <1>1, FS_CardinalityType DEF LinkInv
  <2> QED
    BY <2>1, <2>2 DEF Reconnected, Opened
<1>3. \A c \in Conns : link'[c] = "absent" => wire'[c] = <<>> /\ fwd'[c] = NoMsg
  <2> USE <1>0 DEF TypeOK, LinkInv
  <2>1. CASE Calm
    BY <2>1 DEF Calm
  <2>2. ASSUME NEW r \in Requests, SendRequest(r) \/ ReceiveAnswer(r) \/ ReceiveStream(r)
        PROVE  UNCHANGED <<link, wire, fwd>>
    BY <2>2 DEF SendRequest, ReceiveAnswer, ReceiveStream, linkVars
  <2>3. ASSUME NEW r \in Requests, RemoteReply(r), NEW c \in Conns, link'[c] = "absent"
        PROVE  wire'[c] = <<>> /\ fwd'[c] = NoMsg
    BY <2>3 DEF RemoteReply
  <2>4. ASSUME NEW d \in Conns, Connect(d) \/ ReadMessage(d) \/ WriteRequest(d)
                                  \/ ForwardMessage(d),
               NEW c \in Conns, link'[c] = "absent"
        PROVE  wire'[c] = <<>> /\ fwd'[c] = NoMsg
    BY <2>4 DEF Connect, ReadMessage, WriteRequest, ForwardMessage
  <2>5. ASSUME NEW d \in Conns, Drops(d), NEW c \in Conns, link'[c] = "absent"
        PROVE  wire'[c] = <<>> /\ fwd'[c] = NoMsg
    BY <2>5 DEF Drops, Shut
  <2> QED
    BY <2>1, <2>2, <2>3, <2>4, <2>5, StepKinds, DropSteps
<1> QED
  BY <1>1, <1>2, <1>3 DEF LinkInv

-----------------------------------------------------------------------------
(* Requests and answers                                                    *)

(* The requests that wait for a connection are lost with it, or written,   *)
(* or joined by another.                                                   *)
LEMMA UnaskedDrops ==
  ASSUME TypeOK, NEW r \in Requests, Unasked(r), UNCHANGED asked,
         NEW d \in Conns, Drops(d)
  PROVE  Unasked(r)'
<1>1. \A c \in Conns : sendChan'[c] = <<>> \/ sendChan'[c] = sendChan[c]
  BY DEF Drops, Shut, TypeOK
<1>2. DOMAIN (<<>>) = {}
  OBVIOUS
<1> QED
  BY <1>1, <1>2 DEF Unasked

LEMMA UnaskedWrite ==
  ASSUME TypeOK, NEW c \in Conns, WriteRequest(c), NEW r \in Requests, Unasked(r)
  PROVE  Unasked(r)'
<1>1. /\ 1 \in DOMAIN sendChan[c] /\ Head(sendChan[c]) = sendChan[c][1]
      /\ \A i \in DOMAIN Tail(sendChan[c]) :
           i + 1 \in DOMAIN sendChan[c] /\ Tail(sendChan[c])[i] = sendChan[c][i + 1]
  BY TailAt DEF WriteRequest, TypeOK
<1>2. Head(sendChan[c]) # r
  BY <1>1 DEF Unasked
<1>3. r \notin asked'
  BY <1>2 DEF WriteRequest, Unasked
<1>4. ASSUME NEW d \in Conns, NEW i \in DOMAIN sendChan'[d]
      PROVE  sendChan'[d][i] # r
  BY <1>1, <1>4 DEF WriteRequest, Unasked, TypeOK
<1> QED
  BY <1>3, <1>4 DEF Unasked

LEMMA UnaskedSend ==
  ASSUME TypeOK, NEW q \in Requests, SendRequest(q),
         NEW r \in Requests, r # q, Unasked(r)
  PROVE  Unasked(r)'
<1>1. UNCHANGED asked
  BY DEF SendRequest, remoteVars
<1>2. ASSUME NEW c \in Conns, NEW i \in DOMAIN sendChan'[c]
      PROVE  sendChan'[c][i] # r
  <2>1. CASE c = conn[q]
    <3>1. sendChan[c] \in Seq(Requests) /\ sendChan'[c] = Append(sendChan[c], q)
      BY <2>1 DEF SendRequest, TypeOK
    <3> QED
      BY <1>2, <3>1, AppendAt DEF Unasked
  <2>2. CASE c # conn[q]
    BY <1>2, <2>2 DEF SendRequest, TypeOK, Unasked
  <2> QED
    BY <2>1, <2>2
<1> QED
  BY <1>1, <1>2 DEF Unasked

(* The steps that are neither calm nor about requests.                     *)
LEMMA MessageSteps ==
  ASSUME TypeOK,
         \/ \E r \in Requests : ReceiveAnswer(r) \/ ReceiveStream(r) \/ RemoteReply(r)
         \/ \E c \in Conns : Connect(c) \/ ReadMessage(c) \/ ForwardMessage(c)
  PROVE  /\ UNCHANGED <<asked, sendChan, table, respClosed, wedged, stopPc>>
         /\ \A r \in Requests : pc'[r] # pc[r] => pc[r] = "waiting" /\ pc'[r] = "leaving"
<1> USE DEF TypeOK, handlerVars, tableVars, linkVars, remoteVars, procVars, Return, GoTo
<1>1. ASSUME NEW r \in Requests, ReceiveAnswer(r)
      PROVE  /\ UNCHANGED <<asked, sendChan, table, respClosed, wedged, stopPc>>
             /\ pc[r] = "waiting" /\ pc' = [pc EXCEPT ![r] = "leaving"]
  BY <1>1 DEF ReceiveAnswer, AnswerError
<1>2. ASSUME NEW r \in Requests, ReceiveStream(r)
      PROVE  /\ UNCHANGED <<asked, sendChan, table, respClosed, wedged, stopPc>>
             /\ pc[r] = "waiting" /\ (UNCHANGED pc \/ pc' = [pc EXCEPT ![r] = "leaving"])
  BY <1>2 DEF ReceiveStream, AnswerError
<1>3. ASSUME \/ \E r \in Requests : RemoteReply(r)
             \/ \E c \in Conns : Connect(c) \/ ReadMessage(c) \/ ForwardMessage(c)
      PROVE  UNCHANGED <<asked, sendChan, table, respClosed, wedged, stopPc, pc>>
  BY <1>3 DEF RemoteReply, Connect, ReadMessage, ForwardMessage
<1> QED
  BY <1>1, <1>2, <1>3

(* Only the other end makes messages.                                      *)
LEMMA SentEffect ==
  ASSUME TypeOK, TableInv, [Next]_vars
  PROVE  UNCHANGED sent \/ \E r \in Requests : RemoteReply(r)
<1>1. ASSUME NEW r \in Requests, SendRequest(r) \/ ReceiveAnswer(r) \/ ReceiveStream(r)
      PROVE  UNCHANGED sent
  BY <1>1 DEF SendRequest, ReceiveAnswer, ReceiveStream, remoteVars
<1>2. ASSUME NEW c \in Conns, \/ Connect(c) \/ ReadMessage(c) \/ ForwardMessage(c)
                              \/ WriteRequest(c)
      PROVE  UNCHANGED sent
  BY <1>2 DEF Connect, ReadMessage, ForwardMessage, WriteRequest, remoteVars
<1>3. ASSUME Calm
      PROVE  UNCHANGED sent
  BY <1>3 DEF Calm
<1> QED
  BY <1>1, <1>2, <1>3, StepKinds, DropSteps

LEMMA UnaskedStep ==
  ASSUME IInv, [Next]_vars, NEW r \in Requests, Unasked(r), ~SendRequest(r)
  PROVE  Unasked(r)'
<1>0. TypeOK /\ TableInv
  BY DEF IInv
<1>1. CASE Calm
  BY <1>1 DEF Calm, Unasked
<1>2. ASSUME NEW q \in Requests, SendRequest(q)
      PROVE  Unasked(r)'
  BY <1>0, <1>2, UnaskedSend
<1>3. ASSUME NEW c \in Conns, WriteRequest(c)
      PROVE  Unasked(r)'
  BY <1>0, <1>3, UnaskedWrite
<1>4. CASE \/ \E q \in Requests : ReceiveAnswer(q) \/ ReceiveStream(q) \/ RemoteReply(q)
           \/ \E c \in Conns : Connect(c) \/ ReadMessage(c) \/ ForwardMessage(c)
  BY <1>0, <1>4, MessageSteps DEF Unasked
<1>5. CASE WedgeCleaner \/ StopBlocks \/ \E c \in Conns : Disconnect(c)
  BY <1>0, <1>5, DropSteps, UnaskedDrops
<1> QED
  BY <1>0, <1>1, <1>2, <1>3, <1>4, <1>5, StepKinds

LEMMA AskStep ==
  ASSUME IInv, AskInv, [Next]_vars
  PROVE  AskInv'
<1>0. TypeOK /\ TableInv
  BY DEF IInv
<1>1. ASSUME NEW r \in Requests, pc'[r] \in Early
      PROVE  pc[r] \in Early /\ ~SendRequest(r)
  <2>1. CASE Calm
    <3>1. ~SendRequest(r)
      BY <1>0, <1>1 DEF SendRequest, GoTo, TypeOK, Early
    <3> QED
      BY <1>1, <2>1, <3>1 DEF Calm
  <2>2. ASSUME NEW q \in Requests, SendRequest(q)
        PROVE  pc[r] \in Early /\ ~SendRequest(r)
    BY <1>0, <1>1, <2>2 DEF SendRequest, GoTo, TypeOK, Early
  <2>3. CASE \/ \E q \in Requests : ReceiveAnswer(q) \/ ReceiveStream(q) \/ RemoteReply(q)
             \/ \E c \in Conns : Connect(c) \/ ReadMessage(c) \/ ForwardMessage(c)
    <3>1. pc[r] \in Early
      BY <1>0, <1>1, <2>3, MessageSteps DEF Early
    <3>2. ~SendRequest(r)
      BY <1>0, <1>1 DEF SendRequest, GoTo, TypeOK, Early
    <3> QED
      BY <3>1, <3>2
  <2>4. CASE WedgeCleaner \/ StopBlocks \/ \E c \in Conns : Disconnect(c) \/ WriteRequest(c)
    <3>1. UNCHANGED pc
      BY <2>4 DEF WedgeCleaner, StopBlocks, Disconnect, WriteRequest, handlerVars
    <3>2. ~SendRequest(r)
      BY <1>0, <1>1 DEF SendRequest, GoTo, TypeOK, Early
    <3> QED
      BY <1>1, <3>1, <3>2
  <2> QED
    BY <1>0, <2>1, <2>2, <2>3, <2>4, StepKinds
<1>2. ASSUME NEW r \in Requests, pc'[r] \in Early
      PROVE  Unasked(r)'
  BY <1>1, <1>2, UnaskedStep DEF AskInv, Early
<1>3. asked \subseteq asked'
  <2>1. CASE Calm
    BY <2>1 DEF Calm
  <2>2. ASSUME NEW r \in Requests, SendRequest(r) \/ ReceiveAnswer(r) \/ ReceiveStream(r)
                                     \/ RemoteReply(r)
        PROVE  UNCHANGED asked
    BY <2>2 DEF SendRequest, ReceiveAnswer, ReceiveStream, RemoteReply, remoteVars
  <2>3. ASSUME NEW c \in Conns, \/ Connect(c) \/ ReadMessage(c) \/ ForwardMessage(c)
                                \/ WriteRequest(c)
        PROVE  asked \subseteq asked'
    BY <2>3 DEF Connect, ReadMessage, ForwardMessage, WriteRequest, remoteVars
  <2> QED
    BY <1>0, <2>1, <2>2, <2>3, StepKinds, DropSteps
<1>4. ASSUME NEW r \in Requests, r \notin asked'
      PROVE  sent'[r] = {}
  <2>1. r \notin asked /\ sent[r] = {}
    BY <1>3, <1>4 DEF AskInv
  <2>2. ASSUME NEW q \in Requests, RemoteReply(q)
        PROVE  sent'[r] = sent[r]
    BY <1>0, <2>1, <2>2 DEF RemoteReply, TypeOK
  <2> QED
    BY <1>0, <2>1, <2>2, SentEffect
<1> QED
  BY <1>2, <1>4 DEF AskInv, Early

-----------------------------------------------------------------------------
(* The ways of a message                                                   *)

messageVars == <<wire, fwd, respChan, chunks, sent>>

(* What the steps do to the messages, step by step on their way.           *)
Leaves(r, m) ==
  /\ r \in asked /\ m \in Messages
  /\ m.id = r /\ m.n \in 1 .. (MaxChunks + 1) /\ MayLeave(r, m)
  /\ sent' = [sent EXCEPT ![r] = @ \cup {m}]
  /\ \/ \E c \in Conns : link[c] = "up" /\ wire' = [wire EXCEPT ![c] = Append(@, m)]
     \/ UNCHANGED wire
  /\ UNCHANGED <<fwd, respChan, chunks>>

Read(c) ==
  /\ fwd[c] = NoMsg /\ wire[c] # <<>>
  /\ wire' = [wire EXCEPT ![c] = Tail(@)]
  /\ fwd' = [fwd EXCEPT ![c] = Head(wire[c])] \/ UNCHANGED fwd
  /\ UNCHANGED <<respChan, chunks, sent>>

Forward(c) ==
  /\ fwd[c] # NoMsg
  /\ fwd' = [fwd EXCEPT ![c] = NoMsg]
  /\ \/ respChan' = [respChan EXCEPT ![fwd[c].id] = Append(@, fwd[c])]
     \/ UNCHANGED respChan
  /\ UNCHANGED <<wire, chunks, sent>>

Receive(r) ==
  /\ respChan[r] # <<>>
  /\ respChan' = [respChan EXCEPT ![r] = Tail(@)]
  /\ \/ /\ Head(respChan[r]).kind = "chunk"
        /\ chunks' = [chunks EXCEPT ![r] = Append(@, Head(respChan[r]).n)]
     \/ UNCHANGED chunks
  /\ UNCHANGED <<wire, fwd, sent>>

Loses ==
  /\ \A c \in Conns : /\ DOMAIN wire'[c] \subseteq DOMAIN wire[c]
                      /\ \A i \in DOMAIN wire'[c] : wire'[c][i] = wire[c][i]
  /\ UNCHANGED <<fwd, respChan, chunks, sent>>

LEMMA RemoteLeaves ==
  ASSUME TypeOK, NEW r \in Requests, RemoteReply(r)
  PROVE  \E m \in Messages : Leaves(r, m)
<1>1. PICK n \in 1 .. (MaxChunks + 1), k \in Kinds :
        LET m == [id |-> r, kind |-> k, n |-> n] IN
          /\ MayLeave(r, m)
          /\ sent' = [sent EXCEPT ![r] = @ \cup {m}]
          /\ \/ \E c \in Conns : link[c] = "up" /\ wire' = [wire EXCEPT ![c] = Append(@, m)]
             \/ UNCHANGED wire
  BY DEF RemoteReply
<1> DEFINE m == [id |-> r, kind |-> k, n |-> n]
<1>2. m \in Messages /\ m.id = r /\ m.n \in 1 .. (MaxChunks + 1)
  BY CapacityAssumption DEF Messages
<1>3. UNCHANGED <<fwd, respChan, chunks>> /\ r \in asked
  BY DEF RemoteReply, handlerVars, tableVars
<1>4. \/ \E c \in Conns : link[c] = "up" /\ wire' = [wire EXCEPT ![c] = Append(@, m)]
      \/ UNCHANGED wire
  BY <1>1
<1>5. MayLeave(r, m) /\ sent' = [sent EXCEPT ![r] = @ \cup {m}]
  BY <1>1
<1>6. Leaves(r, m)
  BY <1>2, <1>3, <1>4, <1>5 DEF Leaves
<1> QED
  BY <1>2, <1>6

LEMMA ReceiveSteps ==
  ASSUME TypeOK, NEW r \in Requests, ReceiveAnswer(r) \/ ReceiveStream(r)
  PROVE  Receive(r)
<1>1. CASE ReceiveAnswer(r)
  BY <1>1 DEF ReceiveAnswer, Receive, linkVars, remoteVars
<1>2. CASE ReceiveStream(r)
  BY <1>2 DEF ReceiveStream, Receive, linkVars, remoteVars
<1> QED
  BY <1>1, <1>2

LEMMA DropsLose ==
  ASSUME TypeOK, WedgeCleaner \/ StopBlocks \/ \E c \in Conns : Disconnect(c)
  PROVE  Loses
<1>1. UNCHANGED <<respChan, chunks, sent>>
  BY DropSteps
<1>2. PICK c \in Conns : Drops(c)
  BY DropSteps
<1> QED
  BY <1>1, <1>2, ShutKeeps DEF Drops, Loses

LEMMA Ways ==
  ASSUME IInv, [Next]_vars
  PROVE  \/ UNCHANGED messageVars
         \/ Loses
         \/ \E r \in Requests, m \in Messages : RemoteReply(r) /\ Leaves(r, m)
         \/ \E c \in Conns : ReadMessage(c) /\ Read(c)
         \/ \E c \in Conns : ForwardMessage(c) /\ Forward(c)
         \/ \E r \in Requests : (ReceiveAnswer(r) \/ ReceiveStream(r)) /\ Receive(r)
<1>0. TypeOK /\ TableInv
  BY DEF IInv
<1>1. CASE Calm
  BY <1>1 DEF Calm, messageVars
<1>2. ASSUME NEW r \in Requests, SendRequest(r)
      PROVE  UNCHANGED messageVars
  BY <1>2 DEF SendRequest, messageVars, tableVars, remoteVars
<1>3. ASSUME NEW c \in Conns, Connect(c) \/ WriteRequest(c)
      PROVE  UNCHANGED messageVars
  BY <1>3 DEF Connect, WriteRequest, messageVars, handlerVars, tableVars, remoteVars
<1>4. ASSUME NEW c \in Conns, ReadMessage(c)
      PROVE  Read(c)
  BY <1>4 DEF ReadMessage, Read, handlerVars, tableVars, remoteVars
<1>5. ASSUME NEW c \in Conns, ForwardMessage(c)
      PROVE  Forward(c)
  BY <1>5 DEF ForwardMessage, Forward, handlerVars, remoteVars
<1>6. ASSUME NEW r \in Requests, RemoteReply(r)
      PROVE  \E m \in Messages : Leaves(r, m)
  BY <1>0, <1>6, RemoteLeaves
<1>7. ASSUME NEW r \in Requests, ReceiveAnswer(r) \/ ReceiveStream(r)
      PROVE  Receive(r)
  BY <1>0, <1>7, ReceiveSteps
<1>8. CASE WedgeCleaner \/ StopBlocks \/ \E c \in Conns : Disconnect(c)
  BY <1>0, <1>8, DropsLose
<1> QED
  BY <1>0, <1>1, <1>2, <1>3, <1>4, <1>5, <1>6, <1>7, <1>8, StepKinds

-----------------------------------------------------------------------------
(* What is under way was sent                                              *)

LEMMA SentStep ==
  ASSUME IInv, SentInv, [Next]_vars
  PROVE  SentInv' /\ \A r \in Requests : sent[r] \subseteq sent'[r]
<1>0. TypeOK
  BY DEF IInv
<1>1. CASE UNCHANGED sent
  BY <1>1 DEF SentInv
<1>2. ASSUME NEW r \in Requests, NEW m \in Messages, Leaves(r, m)
      PROVE  SentInv' /\ \A q \in Requests : sent[q] \subseteq sent'[q]
  <2>1. m.id = r /\ m.n \in 1 .. (MaxChunks + 1) /\ m.kind \in Kind(r, m.n)
    BY <1>2 DEF Leaves, MayLeave
  <2>2. \A q \in Requests : sent'[q] = IF q = r THEN sent[q] \cup {m} ELSE sent[q]
    BY <1>0, <1>2 DEF Leaves, TypeOK
  <2>3. ASSUME NEW q \in Requests, NEW o \in sent'[q]
        PROVE  o.id = q /\ o.n \in 1 .. (MaxChunks + 1) /\ o.kind \in Kind(q, o.n)
    <3>1. o \in sent[q] \/ (o = m /\ q = r)
      BY <2>2, <2>3
    <3> QED
      BY <2>1, <3>1 DEF SentInv
  <2>4. SentInv'
    BY <2>3 DEF SentInv, Kind
  <2> QED
    BY <2>2, <2>4
<1> QED
  BY <1>1, <1>2, Ways DEF messageVars, Loses, Read, Forward, Receive

LEMMA TransitStep ==
  ASSUME IInv, SentInv, TransitInv, [Next]_vars
  PROVE  TransitInv'
<1>0. TypeOK /\ \A r \in Requests : sent[r] \subseteq sent'[r]
  BY SentStep DEF IInv
<1>1. CASE UNCHANGED messageVars
  BY <1>1 DEF messageVars, TransitInv
<1>2. CASE Loses
  BY <1>2 DEF Loses, TransitInv
<1>3. ASSUME NEW r \in Requests, NEW m \in Messages, Leaves(r, m)
      PROVE  TransitInv'
  <2>1. m \in sent'[m.id]
    BY <1>0, <1>3 DEF Leaves, TypeOK
  <2>2. ASSUME NEW c \in Conns, NEW i \in DOMAIN wire'[c]
        PROVE  wire'[c][i] \in sent'[wire'[c][i].id]
    <3>1. wire[c] \in Seq(Messages)
      BY <1>0 DEF TypeOK
    <3>2. wire'[c] = wire[c] \/ wire'[c] = Append(wire[c], m)
      BY <1>0, <1>3 DEF Leaves, TypeOK
    <3>3. (i \in DOMAIN wire[c] /\ wire'[c][i] = wire[c][i]) \/ wire'[c][i] = m
      BY <2>2, <3>1, <3>2, AppendAt
    <3>4. CASE i \in DOMAIN wire[c] /\ wire'[c][i] = wire[c][i]
      <4>1. wire[c][i] \in Messages
        BY <3>1, <3>4
      <4>2. wire[c][i].id \in Requests
        BY <4>1 DEF Messages
      <4> QED
        BY <1>0, <3>4, <4>2 DEF TransitInv
    <3> QED
      BY <2>1, <3>3, <3>4
  <2>3. \A c \in Conns : fwd'[c] # NoMsg => fwd'[c] \in sent'[fwd'[c].id]
    BY <1>0, <1>3 DEF Leaves, TransitInv, TypeOK, Messages
  <2>4. \A q \in Requests : \A i \in DOMAIN respChan'[q] : respChan'[q][i] \in sent'[q]
    BY <1>0, <1>3 DEF Leaves, TransitInv
  <2>5. \A q \in Requests : \A i \in DOMAIN chunks'[q] :
          \E o \in sent'[q] : o.n = chunks'[q][i] /\ o.kind = "chunk"
    BY <1>0, <1>3 DEF Leaves, TransitInv
  <2> QED
    BY <2>2, <2>3, <2>4, <2>5 DEF TransitInv
<1>4. ASSUME NEW c \in Conns, Read(c)
      PROVE  TransitInv'
  <2>1. wire[c] \in Seq(Messages) /\ wire[c] # <<>>
    BY <1>0, <1>4 DEF Read, TypeOK
  <2>2. Head(wire[c]) \in sent[Head(wire[c]).id]
    BY <2>1, TailAt DEF TransitInv
  <2>3. ASSUME NEW d \in Conns
        PROVE  \A i \in DOMAIN wire'[d] : wire'[d][i] \in sent'[wire'[d][i].id]
    <3>1. CASE d = c
      BY <1>0, <1>4, <2>1, <3>1, TailAt DEF Read, TransitInv, TypeOK
    <3>2. CASE d # c
      BY <1>0, <1>4, <3>2 DEF Read, TransitInv, TypeOK
    <3> QED
      BY <3>1, <3>2
  <2>4. \A d \in Conns : fwd'[d] # NoMsg => fwd'[d] \in sent'[fwd'[d].id]
    BY <1>0, <1>4, <2>2 DEF Read, TransitInv, TypeOK
  <2> QED
    BY <1>4, <2>3, <2>4 DEF Read, TransitInv
<1>5. ASSUME NEW c \in Conns, Forward(c)
      PROVE  TransitInv'
  <2>1. ASSUME NEW r \in Requests, NEW i \in DOMAIN respChan'[r]
        PROVE  respChan'[r][i] \in sent'[r]
    <3>1. respChan[r] \in Seq(Messages) /\ fwd[c] \in Messages /\ fwd[c] \in sent[fwd[c].id]
      BY <1>0, <1>5 DEF Forward, TypeOK, TransitInv
    <3>2. \/ respChan'[r] = respChan[r]
          \/ r = fwd[c].id /\ respChan'[r] = Append(respChan[r], fwd[c])
      BY <1>0, <1>5 DEF Forward, TypeOK
    <3>3. \/ i \in DOMAIN respChan[r] /\ respChan'[r][i] = respChan[r][i]
          \/ r = fwd[c].id /\ respChan'[r][i] = fwd[c]
      BY <2>1, <3>1, <3>2, AppendAt
    <3> QED
      BY <1>0, <3>1, <3>3 DEF TransitInv
  <2>2. \A d \in Conns : fwd'[d] # NoMsg => fwd'[d] \in sent'[fwd'[d].id]
    BY <1>0, <1>5 DEF Forward, TransitInv, TypeOK
  <2> QED
    BY <1>5, <2>1, <2>2 DEF Forward, TransitInv
<1>6. ASSUME NEW r \in Requests, Receive(r)
      PROVE  TransitInv'
  <2>1. respChan[r] \in Seq(Messages) /\ respChan[r] # <<>>
    BY <1>0, <1>6 DEF Receive, TypeOK
  <2>2. Head(respChan[r]) \in sent[r] /\ Head(respChan[r]).n \in Nat
    <3>1. Head(respChan[r]) \in sent[r] /\ Head(respChan[r]) \in Messages
      BY <2>1, TailAt DEF TransitInv
    <3> QED
      BY <3>1 DEF Messages
  <2>3. ASSUME NEW q \in Requests
        PROVE  \A i \in DOMAIN respChan'[q] : respChan'[q][i] \in sent'[q]
    <3>1. CASE q = r
      BY <1>0, <1>6, <2>1, <3>1, TailAt DEF Receive, TransitInv, TypeOK
    <3>2. CASE q # r
      BY <1>0, <1>6, <3>2 DEF Receive, TransitInv, TypeOK
    <3> QED
      BY <3>1, <3>2
  <2>4. ASSUME NEW q \in Requests, NEW i \in DOMAIN chunks'[q]
        PROVE  \E m \in sent'[q] : m.n = chunks'[q][i] /\ m.kind = "chunk"
    <3>1. chunks[q] \in Seq(Nat)
      BY <1>0 DEF TypeOK
    <3>2. \/ chunks'[q] = chunks[q]
          \/ /\ q = r /\ Head(respChan[r]).kind = "chunk"
             /\ chunks'[q] = Append(chunks[q], Head(respChan[r]).n)
      BY <1>0, <1>6 DEF Receive, TypeOK
    <3>3. CASE chunks'[q] = chunks[q]
      BY <1>0, <2>4, <3>3 DEF TransitInv
    <3> DEFINE n == Head(respChan[r]).n
    <3>4. CASE /\ q = r /\ Head(respChan[r]).kind = "chunk"
               /\ chunks'[q] = Append(chunks[q], n)
      <4>1. n \in Nat /\ i \in DOMAIN Append(chunks[q], n)
        BY <2>2, <2>4, <3>4
      <4>2. \E m \in sent[r] : m.n = n /\ m.kind = "chunk"
        BY <2>2, <3>4
      <4> HIDE DEF n
      <4>3. \/ i \in DOMAIN chunks[q] /\ chunks'[q][i] = chunks[q][i]
            \/ chunks'[q][i] = n
        BY <3>1, <3>4, <4>1, AppendAt
      <4> QED
        BY <1>0, <3>4, <4>2, <4>3 DEF TransitInv
    <3> QED
      BY <3>2, <3>3, <3>4
  <2> QED
    BY <1>6, <2>3, <2>4 DEF Receive, TransitInv
<1> QED
  BY <1>1, <1>2, <1>3, <1>4, <1>5, <1>6, Ways

-----------------------------------------------------------------------------
(* Nothing overtakes while the client keeps its connection                 *)

(* Messages come from one connection only.                                 *)
LEMMA OneSource ==
  ASSUME LinkInv, ~Reconnected, NEW c \in Conns, NEW d \in Conns,
         fwd[c] # NoMsg \/ wire[c] # <<>>, fwd[d] # NoMsg \/ wire[d] # <<>>
  PROVE  c = d
<1>1. c \in Opened /\ d \in Opened
  BY DEF LinkInv, Opened
<1> QED
  BY <1>1, OneConnection

(* A message that leaves comes after all of its call.                      *)
LEMMA NewIsLast ==
  ASSUME TypeOK, SentInv, ~Reconnected, NEW r \in Requests, NEW m \in Messages, Leaves(r, m)
  PROVE  /\ m.id = r /\ m.n \in Nat
         /\ \A o \in sent[r] : o.n \in Nat /\ o.n < m.n /\ o.kind = "chunk"
<1>1. \A o \in sent[r] : o.n < m.n /\ o.kind = "chunk"
  BY DEF Leaves, MayLeave
<1>2. sent[r] \subseteq Messages
  BY DEF TypeOK
<1> QED
  BY <1>1, <1>2 DEF Leaves, Messages

LEMMA LastStep ==
  ASSUME IInv, SentInv, LastIsLast, ~Reconnected, [Next]_vars
  PROVE  LastIsLast'
<1>1. CASE UNCHANGED sent
  BY <1>1 DEF LastIsLast
<1>2. ASSUME NEW r \in Requests, NEW m \in Messages, Leaves(r, m)
      PROVE  LastIsLast'
  <2>1. \A q \in Requests : sent'[q] = IF q = r THEN sent[q] \cup {m} ELSE sent[q]
    BY <1>2 DEF Leaves, IInv, TypeOK
  <2>2. m.n \in Nat /\ \A o \in sent[r] : o.n \in Nat /\ o.n < m.n /\ o.kind = "chunk"
    BY <1>2, NewIsLast DEF IInv
  <2>3. ASSUME NEW q \in Requests, NEW a \in sent'[q], NEW o \in sent'[q], a.kind # "chunk"
        PROVE  o.n <= a.n
    <3>1. CASE q = r
      <4>1. a = m
        BY <2>1, <2>2, <2>3, <3>1
      <4>2. o = m \/ o \in sent[r]
        BY <2>1, <2>3, <3>1
      <4> QED
        BY <2>2, <4>1, <4>2
    <3>2. CASE q # r
      BY <2>1, <2>3, <3>2 DEF LastIsLast
    <3> QED
      BY <3>1, <3>2
  <2> QED
    BY <2>3 DEF LastIsLast
<1> QED
  BY <1>1, <1>2, Ways DEF messageVars, Loses, Read, Forward, Receive

(* What is yet to come stays so until it has come ...                      *)
LEMMA LaterKept ==
  ASSUME TypeOK, NEW r \in Requests, NEW k \in Nat, Later(r, k),
         \/ UNCHANGED messageVars \/ Loses
         \/ \E c \in Conns : Read(c) \/ Forward(c)
         \/ \E q \in Requests : Receive(q)
  PROVE  Later(r, k)'
<1>1. CASE UNCHANGED <<wire, fwd>>
  BY <1>1 DEF Later
<1>2. CASE Loses
  BY <1>2 DEF Loses, Later
<1>3. ASSUME NEW c \in Conns, Read(c)
      PROVE  Later(r, k)'
  <2>1. wire[c] \in Seq(Messages) /\ wire[c] # <<>>
    BY <1>3 DEF Read, TypeOK
  <2>2. Head(wire[c]).id = r => k < Head(wire[c]).n
    BY <2>1, TailAt DEF Later
  <2>3. ASSUME NEW d \in Conns, NEW i \in DOMAIN wire'[d], wire'[d][i].id = r
        PROVE  k < wire'[d][i].n
    <3>1. CASE d = c
      <4>1. wire'[d] = Tail(wire[c])
        BY <1>3, <3>1 DEF Read, TypeOK
      <4>2. i + 1 \in DOMAIN wire[c] /\ wire'[d][i] = wire[c][i + 1]
        BY <2>1, <2>3, <4>1, TailAt
      <4> QED
        BY <2>3, <4>2 DEF Later
    <3>2. CASE d # c
      BY <1>3, <2>3, <3>2 DEF Read, TypeOK, Later
    <3> QED
      BY <3>1, <3>2
  <2>4. ASSUME NEW d \in Conns, fwd'[d] # NoMsg, fwd'[d].id = r
        PROVE  k < fwd'[d].n
    BY <1>3, <2>2, <2>4 DEF Read, TypeOK, Later
  <2> QED
    BY <2>3, <2>4 DEF Later
<1>4. ASSUME NEW c \in Conns, Forward(c)
      PROVE  Later(r, k)'
  <2>1. \A d \in Conns : fwd'[d] = NoMsg \/ fwd'[d] = fwd[d]
    BY <1>4 DEF Forward, TypeOK
  <2> QED
    BY <1>4, <2>1 DEF Forward, Later
<1> QED
  BY <1>1, <1>2, <1>3, <1>4 DEF messageVars, Receive

(* ... also when more is sent, since that comes last.                      *)
LEMMA LaterSent ==
  ASSUME TypeOK, NEW r \in Requests, NEW m \in Messages, Leaves(r, m),
         NEW q \in Requests, NEW k \in Nat, Later(q, k), q = r => k < m.n
  PROVE  Later(q, k)'
<1>1. ASSUME NEW c \in Conns, NEW i \in DOMAIN wire'[c], wire'[c][i].id = q
      PROVE  k < wire'[c][i].n
  <2>1. wire[c] \in Seq(Messages)
    BY DEF TypeOK
  <2>2. wire'[c] = wire[c] \/ wire'[c] = Append(wire[c], m)
    BY DEF Leaves, TypeOK
  <2>3. (i \in DOMAIN wire[c] /\ wire'[c][i] = wire[c][i]) \/ wire'[c][i] = m
    BY <1>1, <2>1, <2>2, AppendAt
  <2> QED
    BY <1>1, <2>3 DEF Leaves, Later
<1> QED
  BY <1>1 DEF Leaves, Later

(* The connection: readPump takes the first, the client adds the last.     *)
LEMMA WireStep ==
  ASSUME IInv, SentInv, TransitInv, WireInOrder, ~Reconnected, [Next]_vars
  PROVE  WireInOrder'
<1>0. TypeOK
  BY DEF IInv
<1>1. CASE UNCHANGED <<wire, fwd>>
  BY <1>1 DEF WireInOrder
<1>2. CASE Loses
  BY <1>2 DEF Loses, WireInOrder
<1>3. ASSUME NEW c \in Conns, Read(c)
      PROVE  WireInOrder'
  <2>1. /\ wire[c] \in Seq(Messages) /\ wire[c] # <<>> /\ wire'[c] = Tail(wire[c])
        /\ fwd'[c] = Head(wire[c]) \/ fwd'[c] = NoMsg
    BY <1>0, <1>3 DEF Read, TypeOK
  <2>2. \A d \in Conns : d # c => wire'[d] = wire[d] /\ fwd'[d] = fwd[d]
    BY <1>0, <1>3 DEF Read, TypeOK
  <2>3. /\ DOMAIN wire[c] \subseteq Nat /\ DOMAIN wire'[c] \subseteq Nat
        /\ 1 \in DOMAIN wire[c] /\ Head(wire[c]) = wire[c][1]
        /\ \A i \in DOMAIN wire'[c] : /\ i + 1 \in DOMAIN wire[c] /\ 1 < i + 1
                                      /\ wire'[c][i] = wire[c][i + 1]
    BY <2>1, TailAt
  <2>4. \A i, j \in DOMAIN wire'[c] :
          i < j /\ wire'[c][i].id = wire'[c][j].id => wire'[c][i].n < wire'[c][j].n
    <3>1. SUFFICES ASSUME NEW i \in DOMAIN wire'[c], NEW j \in DOMAIN wire'[c], i < j,
                          wire'[c][i].id = wire'[c][j].id
                   PROVE  wire'[c][i].n < wire'[c][j].n
      OBVIOUS
    <3>2. i + 1 < j + 1
      BY <2>3, <3>1
    <3> QED
      BY <2>3, <3>1, <3>2 DEF WireInOrder
  <2>5. \A i \in DOMAIN wire'[c] :
          fwd'[c] # NoMsg /\ fwd'[c].id = wire'[c][i].id => fwd'[c].n < wire'[c][i].n
    BY <2>1, <2>3 DEF WireInOrder
  <2> QED
    BY <2>2, <2>4, <2>5 DEF WireInOrder
<1>4. ASSUME NEW c \in Conns, Forward(c)
      PROVE  WireInOrder'
  <2>1. \A d \in Conns : fwd'[d] = NoMsg \/ fwd'[d] = fwd[d]
    BY <1>0, <1>4 DEF Forward, TypeOK
  <2> QED
    BY <1>4, <2>1 DEF Forward, WireInOrder
<1>5. ASSUME NEW r \in Requests, NEW m \in Messages, Leaves(r, m)
      PROVE  WireInOrder'
  <2>1. m.id = r /\ \A o \in sent[r] : o.n < m.n
    BY <1>0, <1>5, NewIsLast
  <2>2. SUFFICES ASSUME NEW c \in Conns, wire'[c] = Append(wire[c], m)
                 PROVE  /\ \A i, j \in DOMAIN wire'[c] :
                             i < j /\ wire'[c][i].id = wire'[c][j].id
                               => wire'[c][i].n < wire'[c][j].n
                        /\ \A i \in DOMAIN wire'[c] :
                             fwd'[c] # NoMsg /\ fwd'[c].id = wire'[c][i].id
                               => fwd'[c].n < wire'[c][i].n
    <3>1. \A c \in Conns : wire'[c] = wire[c] \/ wire'[c] = Append(wire[c], m)
      BY <1>0, <1>5 DEF Leaves, TypeOK
    <3> QED
      BY <1>5, <3>1 DEF Leaves, WireInOrder
  <2>3. wire[c] \in Seq(Messages) /\ fwd'[c] = fwd[c]
    BY <1>0, <1>5 DEF TypeOK, Leaves
  <2>4. /\ DOMAIN wire[c] \subseteq Nat /\ DOMAIN wire'[c] \subseteq Nat
        /\ \A i \in DOMAIN wire'[c] :
             \/ i \in DOMAIN wire[c] /\ wire'[c][i] = wire[c][i]
             \/ wire'[c][i] = m /\ \A j \in DOMAIN wire'[c] : j <= i
    BY <2>2, <2>3, AppendAt
  <2>5. \A i \in DOMAIN wire[c] : wire[c][i].id = r => wire[c][i].n < m.n
    BY <2>1 DEF TransitInv
  <2>6. fwd[c] # NoMsg /\ fwd[c].id = r => fwd[c].n < m.n
    BY <2>1 DEF TransitInv
  <2>7. ASSUME NEW i \in DOMAIN wire'[c], NEW j \in DOMAIN wire'[c], i < j,
               wire'[c][i].id = wire'[c][j].id
        PROVE  wire'[c][i].n < wire'[c][j].n
    <3>1. i \in DOMAIN wire[c] /\ wire'[c][i] = wire[c][i]
      <4>1. ~(j <= i)
        BY <2>4, <2>7
      <4> QED
        BY <2>4, <4>1
    <3>2. CASE j \in DOMAIN wire[c] /\ wire'[c][j] = wire[c][j]
      BY <2>7, <3>1, <3>2 DEF WireInOrder
    <3>3. CASE wire'[c][j] = m
      BY <2>1, <2>5, <2>7, <3>1, <3>3
    <3> QED
      BY <2>4, <3>2, <3>3
  <2>8. ASSUME NEW i \in DOMAIN wire'[c], fwd'[c] # NoMsg, fwd'[c].id = wire'[c][i].id
        PROVE  fwd'[c].n < wire'[c][i].n
    <3>1. CASE i \in DOMAIN wire[c] /\ wire'[c][i] = wire[c][i]
      BY <2>3, <2>8, <3>1 DEF WireInOrder
    <3>2. CASE wire'[c][i] = m
      BY <2>1, <2>3, <2>6, <2>8, <3>2
    <3> QED
      BY <2>4, <3>1, <3>2
  <2> QED
    BY <2>7, <2>8
<1> QED
  BY <1>1, <1>2, <1>3, <1>4, <1>5, Ways DEF messageVars, Receive

(* What came before all that was to come comes before what is now to come. *)
LEMMA LaterStep ==
  ASSUME IInv, SentInv, TransitInv, ~Reconnected, [Next]_vars,
         NEW r \in Requests, NEW k \in Nat, Later(r, k), \E m \in sent[r] : m.n = k
  PROVE  Later(r, k)'
<1>1. ASSUME NEW q \in Requests, NEW m \in Messages, Leaves(q, m)
      PROVE  Later(r, k)'
  <2>1. q = r => k < m.n
    BY <1>1, NewIsLast DEF IInv
  <2> QED
    BY <1>1, <2>1, LaterSent DEF IInv
<1> QED
  BY <1>1, Ways, LaterKept DEF IInv

(* The numbers in ResponseChan and of the pieces written are those of      *)
(* messages that were sent.                                                *)
LEMMA Numbers ==
  ASSUME TypeOK, TransitInv, NEW r \in Requests
  PROVE  /\ \A i \in DOMAIN respChan[r] :
              respChan[r][i].n \in Nat /\ \E m \in sent[r] : m.n = respChan[r][i].n
         /\ \A i \in DOMAIN chunks[r] :
              chunks[r][i] \in Nat /\ \E m \in sent[r] : m.n = chunks[r][i]
<1>1. sent[r] \subseteq Messages /\ chunks[r] \in Seq(Nat)
  BY DEF TypeOK
<1> QED
  BY <1>1 DEF TransitInv, Messages

(* ResponseChan: readPump adds what comes before all that is yet to come.  *)
LEMMA QueueStep ==
  ASSUME IInv, LinkInv, SentInv, TransitInv, WireInOrder, QueueInOrder, ~Reconnected,
         [Next]_vars
  PROVE  QueueInOrder'
<1>0. TypeOK
  BY DEF IInv
<1>1. ASSUME NEW r \in Requests, NEW i \in DOMAIN respChan[r], NEW k \in Nat,
             k = respChan[r][i].n
      PROVE  Later(r, k)'
  BY <1>0, <1>1, LaterStep, Numbers DEF QueueInOrder
<1>2. CASE UNCHANGED respChan
  <2>1. ASSUME NEW r \in Requests, NEW i \in DOMAIN respChan'[r]
        PROVE  Later(r, respChan[r][i].n)'
    <3>1. PICK k \in Nat : k = respChan[r][i].n
      BY <1>0, <1>2, <2>1, Numbers
    <3>2. Later(r, k)'
      BY <1>1, <1>2, <2>1, <3>1
    <3> QED
      BY <1>2, <3>1, <3>2 DEF Later
  <2> QED
    BY <1>2, <2>1 DEF QueueInOrder
<1>3. ASSUME NEW c \in Conns, Forward(c), ~UNCHANGED respChan
      PROVE  QueueInOrder'
  <2> DEFINE r == fwd[c].id
  <2>1. fwd[c] \in Messages /\ fwd[c].id \in Requests /\ fwd[c].n \in Nat
    BY <1>0, <1>3 DEF Forward, TypeOK, Messages
  <2>2. respChan'[r] = Append(respChan[r], fwd[c]) /\ respChan[r] \in Seq(Messages)
    BY <1>0, <1>3, <2>1 DEF Forward, TypeOK
  <2>3. \A q \in Requests : q # r => respChan'[q] = respChan[q]
    BY <1>0, <1>3 DEF Forward, TypeOK
  <2>4. \A d \in Conns : d # c => fwd'[d] = NoMsg /\ wire'[d] = <<>>
    BY <1>0, <1>3, OneSource DEF Forward, TypeOK
  <2>5. /\ fwd'[c] = NoMsg
        /\ \A i \in DOMAIN wire'[c] : wire'[c][i].id = r => fwd[c].n < wire'[c][i].n
    BY <1>0, <1>3 DEF Forward, TypeOK, WireInOrder
  <2>6. PICK n \in Nat : n = fwd[c].n
    BY <2>1
  <2>7. PICK q \in Requests : q = fwd[c].id
    BY <2>1
  <2>8. Later(q, n)'
    <3>1. DOMAIN (<<>>) = {}
      OBVIOUS
    <3> QED
      BY <2>4, <2>5, <2>6, <2>7, <3>1 DEF Later
  <2>9. \A i \in DOMAIN respChan[q] : respChan[q][i].n < n
    BY <1>3, <2>6, <2>7 DEF QueueInOrder, Later, Forward
  <2>10. /\ DOMAIN respChan[q] \subseteq Nat /\ DOMAIN respChan'[q] \subseteq Nat
         /\ \A i \in DOMAIN respChan'[q] :
              \/ i \in DOMAIN respChan[q] /\ respChan'[q][i] = respChan[q][i]
              \/ respChan'[q][i].n = n /\ \A j \in DOMAIN respChan'[q] : j <= i
    <3>1. PICK e \in Messages : e = fwd[c]
      BY <2>1
    <3>2. respChan'[q] = Append(respChan[q], e) /\ respChan[q] \in Seq(Messages) /\ e.n = n
      BY <2>2, <2>6, <2>7, <3>1
    <3> QED
      BY <3>2, AppendAt
  <2>11. ASSUME NEW p \in Requests, NEW i \in DOMAIN respChan'[p]
         PROVE  \E k \in Nat : k = respChan'[p][i].n /\ Later(p, k)'
    <3>1. CASE i \in DOMAIN respChan[p] /\ respChan'[p][i] = respChan[p][i]
      BY <1>0, <1>1, <3>1, Numbers
    <3>2. CASE p = q /\ respChan'[p][i].n = n
      BY <2>8, <3>2
    <3> QED
      BY <2>3, <2>7, <2>10, <2>11, <3>1, <3>2
  <2>12. ASSUME NEW p \in Requests, NEW i \in DOMAIN respChan'[p]
         PROVE  Later(p, respChan[p][i].n)'
    <3>1. PICK k \in Nat : k = respChan'[p][i].n /\ Later(p, k)'
      BY <2>11, <2>12
    <3> QED
      BY <3>1 DEF Later
  <2>13. ASSUME NEW i \in DOMAIN respChan'[q], NEW j \in DOMAIN respChan'[q], i < j
         PROVE  respChan'[q][i].n < respChan'[q][j].n
    <3>1. i \in DOMAIN respChan[q] /\ respChan'[q][i] = respChan[q][i]
      <4>1. ~(j <= i)
        BY <2>10, <2>13
      <4> QED
        BY <2>10, <4>1
    <3> QED
      BY <2>9, <2>10, <2>13, <3>1 DEF QueueInOrder
  <2> QED
    BY <2>3, <2>7, <2>12, <2>13 DEF QueueInOrder
<1>4. ASSUME NEW r \in Requests, Receive(r)
      PROVE  QueueInOrder'
  <2>1. respChan[r] \in Seq(Messages) /\ respChan[r] # <<>> /\ respChan'[r] = Tail(respChan[r])
    BY <1>0, <1>4 DEF Receive, TypeOK
  <2>2. \A q \in Requests : q # r => respChan'[q] = respChan[q]
    BY <1>0, <1>4 DEF Receive, TypeOK
  <2>3. /\ DOMAIN respChan[r] \subseteq Nat /\ DOMAIN respChan'[r] \subseteq Nat
        /\ \A i \in DOMAIN respChan'[r] : /\ i + 1 \in DOMAIN respChan[r]
                                          /\ respChan'[r][i] = respChan[r][i + 1]
    BY <2>1, TailAt
  <2>4. ASSUME NEW p \in Requests, NEW i \in DOMAIN respChan'[p]
        PROVE  Later(p, respChan[p][i].n)'
    <3>1. \E j \in DOMAIN respChan[p] : respChan'[p][i] = respChan[p][j]
      BY <2>2, <2>3, <2>4
    <3>2. PICK k \in Nat : k = respChan'[p][i].n /\ Later(p, k)'
      BY <1>0, <1>1, <3>1, Numbers
    <3> QED
      BY <3>2 DEF Later
  <2>5. ASSUME NEW i \in DOMAIN respChan'[r], NEW j \in DOMAIN respChan'[r], i < j
        PROVE  respChan'[r][i].n < respChan'[r][j].n
    <3>1. i + 1 < j + 1
      BY <2>3, <2>5
    <3> QED
      BY <2>3, <3>1 DEF QueueInOrder
  <2> QED
    BY <2>2, <2>4, <2>5 DEF QueueInOrder
<1> QED
  BY <1>2, <1>3, <1>4, Ways DEF messageVars, Loses, Read, Leaves

(* The caller: a piece written comes before all that is on the way to it.  *)
LEMMA ChunksStep ==
  ASSUME IInv, SentInv, TransitInv, QueueInOrder, ChunksInOrder, ~Reconnected, [Next]_vars
  PROVE  ChunksInOrder'
<1>0. TypeOK
  BY DEF IInv
<1>1. ASSUME NEW r \in Requests, NEW i \in DOMAIN chunks'[r]
      PROVE  Later(r, chunks[r][i])'
  <2>1. \/ i \in DOMAIN chunks[r] /\ chunks'[r][i] = chunks[r][i]
        \/ respChan[r] # <<>> /\ chunks'[r][i] = Head(respChan[r]).n
    <3>1. CASE UNCHANGED chunks
      BY <1>1, <3>1
    <3>2. ASSUME NEW q \in Requests, Receive(q), ~UNCHANGED chunks
          PROVE  \/ i \in DOMAIN chunks[r] /\ chunks'[r][i] = chunks[r][i]
                 \/ respChan[r] # <<>> /\ chunks'[r][i] = Head(respChan[r]).n
      <4>1. respChan[q] \in Seq(Messages) /\ respChan[q] # <<>> /\ chunks[q] \in Seq(Nat)
        BY <1>0, <3>2 DEF Receive, TypeOK
      <4>2. PICK n \in Nat : n = Head(respChan[q]).n
        BY <1>0, <4>1, TailAt, Numbers
      <4>3. CASE r = q
        <5>1. chunks'[r] = Append(chunks[r], n)
          BY <1>0, <3>2, <4>2, <4>3 DEF Receive, TypeOK
        <5>2. (i \in DOMAIN chunks[r] /\ chunks'[r][i] = chunks[r][i]) \/ chunks'[r][i] = n
          BY <1>1, <4>1, <4>3, <5>1, AppendAt
        <5> QED
          BY <4>1, <4>2, <4>3, <5>2
      <4>4. CASE r # q
        BY <1>0, <1>1, <3>2, <4>4 DEF Receive, TypeOK
      <4> QED
        BY <4>3, <4>4
    <3> QED
      BY <3>1, <3>2, Ways DEF messageVars, Loses, Read, Leaves, Forward
  <2>2. CASE i \in DOMAIN chunks[r] /\ chunks'[r][i] = chunks[r][i]
    <3>1. PICK k \in Nat : k = chunks[r][i] /\ (\E m \in sent[r] : m.n = k) /\ Later(r, k)
      BY <1>0, <2>2, Numbers DEF ChunksInOrder
    <3>2. Later(r, k)'
      BY <3>1, LaterStep
    <3> QED
      BY <2>2, <3>1, <3>2 DEF Later
  <2>3. CASE respChan[r] # <<>> /\ chunks'[r][i] = Head(respChan[r]).n
    <3>1. 1 \in DOMAIN respChan[r] /\ Head(respChan[r]) = respChan[r][1]
      BY <1>0, <2>3, TailAt DEF TypeOK
    <3>2. PICK k \in Nat : k = respChan[r][1].n /\ (\E m \in sent[r] : m.n = k) /\ Later(r, k)
      BY <1>0, <3>1, Numbers DEF QueueInOrder
    <3>3. Later(r, k)'
      BY <3>2, LaterStep
    <3> QED
      BY <2>3, <3>1, <3>2, <3>3 DEF Later
  <2> QED
    BY <2>1, <2>2, <2>3
<1>2. ASSUME NEW r \in Requests, chunks'[r] = chunks[r], NEW i \in DOMAIN chunks[r],
             NEW j \in DOMAIN respChan'[r]
      PROVE  chunks[r][i] < respChan'[r][j].n
  <2>1. CASE \E k \in DOMAIN respChan[r] : respChan'[r][j] = respChan[r][k]
    BY <1>2, <2>1 DEF ChunksInOrder
  <2>2. ASSUME NEW c \in Conns, Forward(c), fwd[c].id = r, respChan'[r][j] = fwd[c]
        PROVE  chunks[r][i] < respChan'[r][j].n
    BY <1>2, <2>2 DEF ChunksInOrder, Later, Forward
  <2>3. ASSUME NEW c \in Conns, Forward(c), ~UNCHANGED respChan
        PROVE  \/ \E k \in DOMAIN respChan[r] : respChan'[r][j] = respChan[r][k]
               \/ fwd[c].id = r /\ respChan'[r][j] = fwd[c]
    <3>1. respChan[r] \in Seq(Messages) /\ fwd[c] \in Messages
      BY <1>0, <2>3 DEF TypeOK, Forward
    <3>2. CASE respChan'[r] = respChan[r]
      BY <1>2, <3>2
    <3>3. CASE fwd[c].id = r /\ respChan'[r] = Append(respChan[r], fwd[c])
      <4>1. PICK e \in Messages : e = fwd[c]
        BY <3>1
      <4>2. j \in DOMAIN Append(respChan[r], e) /\ respChan'[r] = Append(respChan[r], e)
        BY <1>2, <3>3, <4>1
      <4>3. (j \in DOMAIN respChan[r] /\ respChan'[r][j] = respChan[r][j]) \/ respChan'[r][j] = e
        BY <3>1, <4>2, AppendAt
      <4> QED
        BY <3>3, <4>1, <4>3
    <3> QED
      BY <1>0, <2>3, <3>2, <3>3 DEF TypeOK, Forward
  <2>4. ASSUME NEW q \in Requests, Receive(q)
        PROVE  \E k \in DOMAIN respChan[r] : respChan'[r][j] = respChan[r][k]
    <3>1. CASE q = r
      <4>1. respChan[r] \in Seq(Messages) /\ respChan[r] # <<>> /\ respChan'[r] = Tail(respChan[r])
        BY <1>0, <2>4, <3>1 DEF Receive, TypeOK
      <4> QED
        BY <1>2, <4>1, TailAt
    <3>2. CASE q # r
      BY <1>0, <1>2, <2>4, <3>2 DEF Receive, TypeOK
    <3> QED
      BY <3>1, <3>2
  <2>5. CASE UNCHANGED respChan
    BY <1>2, <2>5 DEF ChunksInOrder
  <2> QED
    BY <2>1, <2>2, <2>3, <2>4, <2>5, Ways DEF messageVars, Loses, Read, Leaves
<1>3. ASSUME NEW r \in Requests, chunks'[r] # chunks[r]
      PROVE  /\ \A i, j \in DOMAIN chunks'[r] : i < j => chunks'[r][i] < chunks'[r][j]
             /\ \A i \in DOMAIN chunks'[r] : \A j \in DOMAIN respChan'[r] :
                  chunks'[r][i] < respChan'[r][j].n
  <2>1. Receive(r) /\ chunks'[r] = Append(chunks[r], Head(respChan[r]).n)
    <3>1. PICK q \in Requests : Receive(q)
      BY <1>3, Ways DEF messageVars, Loses, Read, Leaves, Forward
    <3> QED
      BY <1>0, <1>3, <3>1 DEF Receive, TypeOK
  <2>2. /\ respChan[r] \in Seq(Messages) /\ respChan[r] # <<>>
        /\ respChan'[r] = Tail(respChan[r]) /\ chunks[r] \in Seq(Nat)
    BY <1>0, <2>1 DEF Receive, TypeOK
  <2>3. /\ DOMAIN respChan[r] \subseteq Nat /\ 1 \in DOMAIN respChan[r]
        /\ Head(respChan[r]) = respChan[r][1]
        /\ \A j \in DOMAIN respChan'[r] : /\ j + 1 \in DOMAIN respChan[r] /\ 1 < j + 1
                                          /\ respChan'[r][j] = respChan[r][j + 1]
    BY <2>2, TailAt
  <2>4. PICK n \in Nat : n = respChan[r][1].n
    BY <1>0, <2>3, Numbers
  <2>5. \A j \in DOMAIN respChan'[r] : n < respChan'[r][j].n
    BY <2>3, <2>4 DEF QueueInOrder
  <2>6. \A i \in DOMAIN chunks[r] : chunks[r][i] < n
    BY <2>3, <2>4 DEF ChunksInOrder
  <2>7. /\ DOMAIN chunks[r] \subseteq Nat /\ DOMAIN chunks'[r] \subseteq Nat
        /\ \A i \in DOMAIN chunks'[r] :
             \/ i \in DOMAIN chunks[r] /\ chunks'[r][i] = chunks[r][i]
             \/ chunks'[r][i] = n /\ \A j \in DOMAIN chunks'[r] : j <= i
    <3>1. chunks'[r] = Append(chunks[r], n)
      BY <2>1, <2>3, <2>4
    <3> QED
      BY <2>2, <3>1, AppendAt
  <2>8. ASSUME NEW i \in DOMAIN chunks'[r], NEW j \in DOMAIN chunks'[r], i < j
        PROVE  chunks'[r][i] < chunks'[r][j]
    <3>1. i \in DOMAIN chunks[r] /\ chunks'[r][i] = chunks[r][i]
      <4>1. ~(j <= i)
        BY <2>7, <2>8
      <4> QED
        BY <2>7, <4>1
    <3> QED
      BY <2>6, <2>7, <2>8, <3>1 DEF ChunksInOrder
  <2>9. ASSUME NEW i \in DOMAIN chunks'[r], NEW j \in DOMAIN respChan'[r]
        PROVE  chunks'[r][i] < respChan'[r][j].n
    <3>1. CASE i \in DOMAIN chunks[r] /\ chunks'[r][i] = chunks[r][i]
      BY <2>3, <2>9, <3>1 DEF ChunksInOrder
    <3>2. CASE chunks'[r][i] = n
      BY <2>5, <2>9, <3>2
    <3> QED
      BY <2>7, <2>9, <3>1, <3>2
  <2> QED
    BY <2>8, <2>9
<1> QED
  BY <1>1, <1>2, <1>3 DEF ChunksInOrder

-----------------------------------------------------------------------------
(* Silence after the last message                                          *)

(* A call the client has not been asked about is silent ...                *)
LEMMA UnaskedIsSilent ==
  ASSUME TypeOK, AskInv, TransitInv, NEW r \in Requests, Unasked(r)
  PROVE  Silent(r)
<1>1. sent[r] = {}
  BY DEF AskInv, Unasked
<1> QED
  BY <1>1 DEF TransitInv, Passed, Silent

(* ... and so is one whose last message has reached the handler.           *)
LEMMA LastIsSilent ==
  ASSUME TypeOK, SentInv, TransitInv, LastIsLast, QueueInOrder, NEW r \in Requests,
         respChan[r] # <<>>, Head(respChan[r]).kind # "chunk"
  PROVE  Silent(r) /\ Head(respChan[r]) \in sent[r]
<1>1. 1 \in DOMAIN respChan[r] /\ Head(respChan[r]) = respChan[r][1]
  BY TailAt DEF TypeOK
<1>2. PICK m \in sent[r] : m = Head(respChan[r])
  BY <1>1 DEF TransitInv
<1>3. m.n \in Nat /\ m.kind # "chunk" /\ Later(r, m.n)
  BY <1>1, <1>2, Numbers DEF QueueInOrder
<1>4. \A o \in sent[r] : o.n <= m.n /\ o.n \in Nat
  <2>1. sent[r] \subseteq Messages
    BY DEF TypeOK
  <2> QED
    BY <1>3, <2>1 DEF LastIsLast, Messages
<1>5. \A o \in sent[r] : ~(m.n < o.n)
  BY <1>3, <1>4
<1>6. Passed(r)
  BY <1>3, <1>5 DEF Later, TransitInv, Passed
<1> QED
  BY <1>2, <1>3, <1>6 DEF Silent

LEMMA SilentStep ==
  ASSUME IInv, AskInv, TransitInv, LastIsLast, ~Reconnected, [Next]_vars,
         NEW r \in Requests, Silent(r), ~SendRequest(r)
  PROVE  Silent(r)'
<1>0. TypeOK
  BY DEF IInv
<1>1. Unasked(r) => Unasked(r)'
  BY UnaskedStep
<1>2. ASSUME NEW q \in Requests, NEW m \in Messages, Leaves(q, m)
      PROVE  q # r
  <2>1. q \in asked /\ \A o \in sent[q] : o.kind = "chunk"
    BY <1>2 DEF Leaves, MayLeave
  <2> QED
    BY <2>1 DEF Silent, Unasked
<1>3. (\E m \in sent[r] : m.kind # "chunk") => (\E m \in sent'[r] : m.kind # "chunk")
  <2>1. UNCHANGED sent \/ \E q \in Requests, m \in Messages : Leaves(q, m)
    BY Ways DEF messageVars, Loses, Read, Forward, Receive
  <2> QED
    BY <1>0, <2>1 DEF Leaves, TypeOK
<1>4. Passed(r)'
  <2>0. Passed(r)
    BY DEF Silent
  <2>1. CASE UNCHANGED <<wire, fwd>>
    BY <2>0, <2>1 DEF Passed
  <2>2. CASE Loses
    BY <2>0, <2>2 DEF Loses, Passed
  <2>3. ASSUME NEW q \in Requests, NEW m \in Messages, Leaves(q, m)
        PROVE  Passed(r)'
    <3>1. q # r /\ m.id = q
      BY <1>2, <2>3 DEF Leaves
    <3>2. ASSUME NEW c \in Conns, NEW i \in DOMAIN wire'[c]
          PROVE  wire'[c][i].id # r
      <4>1. wire[c] \in Seq(Messages)
        BY <1>0 DEF TypeOK
      <4>2. wire'[c] = wire[c] \/ wire'[c] = Append(wire[c], m)
        BY <1>0, <2>3 DEF Leaves, TypeOK
      <4>3. (i \in DOMAIN wire[c] /\ wire'[c][i] = wire[c][i]) \/ wire'[c][i] = m
        BY <3>2, <4>1, <4>2, AppendAt
      <4> QED
        BY <2>0, <3>1, <4>3 DEF Passed
    <3> QED
      BY <2>0, <2>3, <3>2 DEF Leaves, Passed
  <2>4. ASSUME NEW c \in Conns, Read(c)
        PROVE  Passed(r)'
    <3>1. /\ wire[c] \in Seq(Messages) /\ wire[c] # <<>> /\ wire'[c] = Tail(wire[c])
          /\ fwd'[c] = Head(wire[c]) \/ fwd'[c] = NoMsg
          /\ \A d \in Conns : d # c => wire'[d] = wire[d] /\ fwd'[d] = fwd[d]
      BY <1>0, <2>4 DEF Read, TypeOK
    <3>2. /\ 1 \in DOMAIN wire[c] /\ Head(wire[c]) = wire[c][1]
          /\ \A i \in DOMAIN wire'[c] : /\ i + 1 \in DOMAIN wire[c]
                                        /\ wire'[c][i] = wire[c][i + 1]
      BY <3>1, TailAt
    <3>3. /\ fwd'[c] # NoMsg => fwd'[c].id # r
          /\ \A i \in DOMAIN wire'[c] : wire'[c][i].id # r
      BY <2>0, <3>1, <3>2 DEF Passed
    <3> QED
      BY <2>0, <3>1, <3>3 DEF Passed
  <2>5. ASSUME NEW c \in Conns, Forward(c)
        PROVE  Passed(r)'
    <3>1. \A d \in Conns : fwd'[d] = NoMsg \/ fwd'[d] = fwd[d]
      BY <1>0, <2>5 DEF Forward, TypeOK
    <3> QED
      BY <2>0, <2>5, <3>1 DEF Forward, Passed
  <2> QED
    BY <2>1, <2>2, <2>3, <2>4, <2>5, Ways DEF messageVars, Receive
<1>5. Unasked(r) \/ \E m \in sent[r] : m.kind # "chunk"
  BY DEF Silent
<1> QED
  BY <1>1, <1>3, <1>4, <1>5 DEF Silent

(* Stop and a stuck cleaner are for good.                                  *)
LEMMA StoppingStep ==
  ASSUME IInv, [Next]_vars, Cancelled \/ wedged
  PROVE  Cancelled' \/ wedged'
<1>0. TypeOK /\ TableInv
  BY DEF IInv
<1>1. CASE Calm
  BY <1>1 DEF Calm
<1>2. ASSUME \/ \E q \in Requests : \/ SendRequest(q) \/ ReceiveAnswer(q)
                                    \/ ReceiveStream(q) \/ RemoteReply(q)
             \/ \E c \in Conns : \/ Connect(c) \/ ReadMessage(c) \/ ForwardMessage(c)
                                 \/ WriteRequest(c)
      PROVE  UNCHANGED <<wedged, stopPc>>
  BY <1>2 DEF SendRequest, ReceiveAnswer, ReceiveStream, RemoteReply, Connect,
              ReadMessage, ForwardMessage, WriteRequest, procVars
<1> QED
  BY <1>0, <1>1, <1>2, StepKinds, DropSteps DEF Cancelled

(* A handler in its select is not retired yet, and one that leaves it has  *)
(* taken the last message.                                                 *)
LEMMA RetireStep ==
  ASSUME IInv, AskInv, SentInv, TransitInv, OneLine, [Next]_vars,
         ~Cancelled', ~wedged', NEW r \in Requests, Retired(r)'
  PROVE  Silent(r) /\ ~SendRequest(r)
<1>0. TypeOK /\ TableInv
  BY DEF IInv
<1>1. ~Cancelled /\ ~wedged
  BY StoppingStep
<1>2. Retired(r) => Silent(r)
  BY <1>1 DEF OneLine, SilenceInv
<1>3. pc[r] \in Early => Silent(r)
  BY <1>0, UnaskedIsSilent DEF AskInv, Early
<1>4. ~SendRequest(r)
  BY <1>0 DEF SendRequest, GoTo, Retired, TableInv, TableOwnership, TypeOK, tableVars
<1>5. Silent(r)
  <2>1. CASE Calm
    BY <1>2, <1>3, <2>1 DEF Calm
  <2>2. ASSUME NEW q \in Requests, SendRequest(q)
        PROVE  Retired(r)
    BY <1>0, <2>2 DEF SendRequest, GoTo, Retired, TypeOK, tableVars
  <2>3. CASE WedgeCleaner \/ StopBlocks \/ \E c \in Conns : Disconnect(c)
    BY <1>0, <1>2, <2>3, DropSteps DEF Retired
  <2>4. ASSUME NEW c \in Conns, WriteRequest(c)
        PROVE  Retired(r)
    BY <2>4 DEF WriteRequest, handlerVars, tableVars, Retired
  <2>5. CASE \/ \E q \in Requests : RemoteReply(q)
             \/ \E c \in Conns : Connect(c) \/ ReadMessage(c) \/ ForwardMessage(c)
    <3>1. UNCHANGED <<pc, table, respClosed>>
      BY <2>5 DEF RemoteReply, Connect, ReadMessage, ForwardMessage, handlerVars, tableVars
    <3> QED
      BY <1>2, <3>1 DEF Retired
  <2>6. ASSUME NEW q \in Requests, ReceiveAnswer(q) \/ ReceiveStream(q)
        PROVE  Silent(r)
    <3>1. UNCHANGED <<table, respClosed>>
      BY <2>6 DEF ReceiveAnswer, ReceiveStream
    <3>2. CASE pc'[r] = pc[r]
      BY <1>2, <3>1, <3>2 DEF Retired
    <3>3. CASE pc'[r] # pc[r]
      <4>1. q = r
        BY <1>0, <2>6, <3>3 DEF ReceiveAnswer, ReceiveStream, AnswerError, Return, GoTo, TypeOK
      <4>2. respChan[r] # <<>> /\ Head(respChan[r]).kind # "chunk"
        <5>1. CASE ReceiveAnswer(r)
          <6>1. /\ respChan[r] # <<>> /\ r \notin Streams
                /\ 1 \in DOMAIN respChan[r] /\ Head(respChan[r]) = respChan[r][1]
            BY <1>0, <5>1, TailAt DEF ReceiveAnswer, TypeOK
          <6>2. Head(respChan[r]) \in sent[r]
            BY <6>1 DEF TransitInv
          <6> QED
            BY <6>1, <6>2 DEF SentInv, Kind
        <5>2. CASE ReceiveStream(r)
          BY <1>0, <3>3, <5>2 DEF ReceiveStream, AnswerError, TypeOK
        <5> QED
          BY <2>6, <4>1, <5>1, <5>2
      <4> QED
        BY <1>0, <4>2, LastIsSilent DEF OneLine
    <3> QED
      BY <3>2, <3>3
  <2> QED
    BY <1>0, <1>2, <2>1, <2>2, <2>3, <2>4, <2>5, <2>6, StepKinds
<1> QED
  BY <1>4, <1>5

LEMMA SilenceStep ==
  ASSUME IInv, AskInv, SentInv, TransitInv, OneLine, ~Reconnected, [Next]_vars
  PROVE  SilenceInv'
<1>0. TypeOK /\ TableInv
  BY DEF IInv
<1>1. SUFFICES ASSUME ~Cancelled', ~wedged'
               PROVE  /\ panic' # "sendOnClosed"
                      /\ \A r \in Requests : Retired(r)' => Silent(r)'
  BY DEF SilenceInv, Cancelled
<1>2. ASSUME NEW r \in Requests, Retired(r)'
      PROVE  Silent(r)'
  BY <1>1, <1>2, RetireStep, SilentStep DEF OneLine
<1>3. panic' # "sendOnClosed"
  <2>1. SUFFICES ASSUME panic' = "sendOnClosed"
                 PROVE  FALSE
    OBVIOUS
  <2>2. ASSUME NEW c \in Conns, ForwardMessage(c), panic' # panic
        PROVE  FALSE
    <3>1. PICK r \in Requests : r = fwd[c].id /\ respClosed[r] /\ UNCHANGED respClosed
                                /\ fwd[c] # NoMsg
      BY <1>0, <2>2 DEF ForwardMessage, TypeOK, Messages
    <3>2. Silent(r)
      BY <1>1, <3>1, RetireStep DEF Retired
    <3> QED
      BY <3>1, <3>2 DEF Silent, Passed
  <2>3. panic # "sendOnClosed"
    BY <1>1, StoppingStep DEF OneLine, SilenceInv
  <2>4. ASSUME NEW c \in Conns, Connect(c) \/ ReadMessage(c) \/ WriteRequest(c)
        PROVE  UNCHANGED panic
    BY <2>4 DEF Connect, ReadMessage, WriteRequest, procVars
  <2>5. ASSUME NEW r \in Requests, SendRequest(r) \/ ReceiveAnswer(r) \/ ReceiveStream(r)
                                     \/ RemoteReply(r)
        PROVE  UNCHANGED panic
    BY <2>5 DEF SendRequest, ReceiveAnswer, ReceiveStream, RemoteReply, procVars
  <2> QED
    BY <1>0, <2>1, <2>2, <2>3, <2>4, <2>5, StepKinds, DropSteps DEF Calm
<1> QED
  BY <1>1, <1>2, <1>3

-----------------------------------------------------------------------------
(* The invariant and what it shows                                         *)

FullInv == IInv /\ PInv

LEMMA FullInit ==
  ASSUME Init
  PROVE  FullInv
<1>1. IInv
  BY Initially
<1>2. DOMAIN (<<>>) = {} /\ Opened = {} /\ IsFiniteSet({})
  BY FS_EmptySet DEF Init, Opened
<1>3. LinkInv /\ AskInv /\ SentInv /\ TransitInv
  BY <1>2 DEF Init, LinkInv, AskInv, Unasked, SentInv, TransitInv
<1>4. LastIsLast /\ WireInOrder /\ QueueInOrder /\ ChunksInOrder
  BY <1>2 DEF Init, LastIsLast, WireInOrder, QueueInOrder, ChunksInOrder
<1>5. SilenceInv
  BY DEF Init, SilenceInv, Retired
<1> QED
  BY <1>1, <1>3, <1>4, <1>5 DEF FullInv, PInv, OneLine

LEMMA FullStep ==
  ASSUME FullInv, [Next]_vars
  PROVE  FullInv'
<1>1. IInv'
  BY TypeStep, SlotStep, TableStep DEF FullInv, IInv
<1>2. LinkInv' /\ (Reconnected => Reconnected') /\ AskInv' /\ SentInv' /\ TransitInv'
  BY LinkStep, AskStep, SentStep, TransitStep DEF FullInv, PInv
<1>3. ASSUME ~Reconnected'
      PROVE  OneLine'
  <2>1. ~Reconnected /\ OneLine
    BY <1>2, <1>3 DEF FullInv, PInv
  <2>2. LastIsLast' /\ WireInOrder'
    BY <2>1, LastStep, WireStep DEF FullInv, PInv, OneLine
  <2>3. QueueInOrder' /\ ChunksInOrder'
    BY <2>1, QueueStep, ChunksStep DEF FullInv, PInv, OneLine
  <2>4. SilenceInv'
    BY <2>1, SilenceStep DEF FullInv, PInv
  <2> QED
    BY <2>2, <2>3, <2>4 DEF OneLine
<1> QED
  BY <1>1, <1>2, <1>3 DEF FullInv, PInv

(* The inductive invariant: a message on its way was sent by a client that *)
(* had been asked; unless the client has reconnected, it neither overtakes *)
(* another of its call nor follows the last; and an entry is retired only  *)
(* when nothing more can come for it.                                      *)
THEOREM FullInductive == Spec => []FullInv
<1> QED
  BY FullInit, FullStep, PTL DEF Spec

(* readPump does not send into a closed ResponseChan unless the server is  *)
(* being stopped, its cleaner is stuck or its client has reconnected.      *)
THEOREM NoForwardPanic == Spec => []ForwardNeverPanics
<1>1. FullInv => ForwardNeverPanics
  BY DEF FullInv, PInv, OneLine, SilenceInv, ForwardNeverPanics
<1> QED
  BY <1>1, FullInductive, PTL

-----------------------------------------------------------------------------
(* No message is handed over twice, whether or not the client reconnects   *)

NoTwice(s) == \A i, j \in DOMAIN s : s[i] = s[j] => i = j

MessagePlaces == {"wire", "readPump", "respChan", "caller"}

(* Message m is at the place p, of connection c if the place is one's; the *)
(* caller has no more of it than its number.                               *)
At(p, c, m) ==
  \/ p = "wire" /\ c \in Conns /\ \E i \in DOMAIN wire[c] : wire[c][i] = m
  \/ p = "readPump" /\ c \in Conns /\ fwd[c] = m
  \/ p = "respChan" /\ c = NoConn /\ \E i \in DOMAIN respChan[m.id] : respChan[m.id][i] = m
  \/ p = "caller" /\ c = NoConn /\ \E i \in DOMAIN chunks[m.id] : chunks[m.id][i] = m.n

(* The messages of a call have different numbers, ...                      *)
OnceSent == \A r \in Requests : \A m, o \in sent[r] : m.n = o.n => m = o

(* ... each is at one place at most, ...                                   *)
OncePlaced ==
  \A r \in Requests : \A m \in sent[r] :
    \A p, q \in MessagePlaces, c, d \in Conns \cup {NoConn} :
      At(p, c, m) /\ At(q, d, m) => p = q /\ c = d

(* ... and there once.                                                     *)
OnceQueued ==
  /\ \A c \in Conns : NoTwice(wire[c])
  /\ \A r \in Requests : NoTwice(respChan[r]) /\ NoTwice(chunks[r])

OnceInv == OnceSent /\ OncePlaced /\ OnceQueued

LEMMA QueueTail ==
  ASSUME NEW S, NEW s \in Seq(S), s # <<>>, NoTwice(s)
  PROVE  /\ NoTwice(Tail(s))
         /\ \A i \in DOMAIN Tail(s) : /\ Tail(s)[i] # Head(s)
                                      /\ \E j \in DOMAIN s : s[j] = Tail(s)[i]
<1>1. /\ 1 \in DOMAIN s /\ Head(s) = s[1] /\ DOMAIN Tail(s) \subseteq Nat
      /\ \A i \in DOMAIN Tail(s) : /\ i + 1 \in DOMAIN s /\ 1 < i + 1
                                   /\ Tail(s)[i] = s[i + 1]
  BY TailAt
<1>2. ASSUME NEW i \in DOMAIN Tail(s), NEW j \in DOMAIN Tail(s), Tail(s)[i] = Tail(s)[j]
      PROVE  i = j
  <2>1. i + 1 = j + 1
    BY <1>1, <1>2 DEF NoTwice
  <2> QED
    BY <1>1, <2>1
<1>3. ASSUME NEW i \in DOMAIN Tail(s)
      PROVE  Tail(s)[i] # Head(s)
  <2>1. i + 1 # 1
    BY <1>1
  <2> QED
    BY <1>1, <2>1 DEF NoTwice
<1> QED
  BY <1>1, <1>2, <1>3 DEF NoTwice

LEMMA QueueAppend ==
  ASSUME NEW S, NEW s \in Seq(S), NEW e \in S, NoTwice(s), \A i \in DOMAIN s : s[i] # e
  PROVE  NoTwice(Append(s, e))
<1>1. /\ DOMAIN Append(s, e) \subseteq Nat
      /\ \A i \in DOMAIN Append(s, e) :
           \/ i \in DOMAIN s /\ Append(s, e)[i] = s[i]
           \/ Append(s, e)[i] = e /\ \A j \in DOMAIN Append(s, e) : j <= i
  BY AppendAt
<1>2. ASSUME NEW i \in DOMAIN Append(s, e), NEW j \in DOMAIN Append(s, e),
             Append(s, e)[i] = Append(s, e)[j]
      PROVE  i = j
  <2>1. CASE i \in DOMAIN s /\ Append(s, e)[i] = s[i]
    BY <1>1, <1>2, <2>1 DEF NoTwice
  <2>2. CASE j \in DOMAIN s /\ Append(s, e)[j] = s[j]
    BY <1>1, <1>2, <2>2 DEF NoTwice
  <2>3. CASE i \notin DOMAIN s /\ j \notin DOMAIN s
    <3>1. j <= i /\ i <= j /\ i \in Nat /\ j \in Nat
      BY <1>1, <2>3
    <3> QED
      BY <3>1
  <2> QED
    BY <1>1, <2>1, <2>2, <2>3
<1> QED
  BY <1>2 DEF NoTwice

(* A message that leaves its place for another, or for none, is at one     *)
(* place afterwards.                                                       *)
LEMMA MoveOnce ==
  ASSUME OncePlaced, UNCHANGED sent,
         NEW r \in Requests, NEW m \in sent[r],
         NEW p \in MessagePlaces, NEW c \in Conns \cup {NoConn}, At(p, c, m), ~At(p, c, m)',
         NEW q, NEW d,
         \A a \in Requests : \A o \in sent[a] :
           \A k \in MessagePlaces, e \in Conns \cup {NoConn} :
             At(k, e, o)' => At(k, e, o) \/ (o = m /\ k = q /\ e = d)
  PROVE  OncePlaced'
<1>1. ASSUME NEW k \in MessagePlaces, NEW e \in Conns \cup {NoConn}, At(k, e, m)'
      PROVE  k = q /\ e = d
  <2>1. SUFFICES ASSUME At(k, e, m)
                 PROVE  FALSE
    BY <1>1
  <2>2. k = p /\ e = c
    BY <2>1 DEF OncePlaced
  <2> QED
    BY <1>1, <2>2
<1>2. ASSUME NEW a \in Requests, NEW o \in sent[a], o # m,
             NEW k \in MessagePlaces, NEW e \in Conns \cup {NoConn}, At(k, e, o)'
      PROVE  At(k, e, o)
  BY <1>2
<1>3. ASSUME NEW a \in Requests, NEW o \in sent[a],
             NEW k \in MessagePlaces, NEW e \in Conns \cup {NoConn}, At(k, e, o)',
             NEW l \in MessagePlaces, NEW f \in Conns \cup {NoConn}, At(l, f, o)'
      PROVE  k = l /\ e = f
  <2>1. CASE o = m
    BY <1>1, <1>3, <2>1
  <2>2. CASE o # m
    <3>1. At(k, e, o) /\ At(l, f, o)
      BY <1>2, <1>3, <2>2
    <3> QED
      BY <3>1 DEF OncePlaced
  <2> QED
    BY <2>1, <2>2
<1> QED
  BY <1>3 DEF OncePlaced

(* A message on its way has an entry in sent, under the call it is for.    *)
LEMMA SentMessage ==
  ASSUME TypeOK, SentInv, NEW r \in Requests, NEW m \in sent[r]
  PROVE  m \in Messages /\ m # NoMsg /\ m.id = r /\ m.n \in Nat
<1>1. m \in Messages
  BY DEF TypeOK
<1> QED
  BY <1>1, NoMsgAssumption DEF SentInv, Messages

LEMMA ReadOnce ==
  ASSUME IInv, SentInv, TransitInv, OnceInv, NEW c \in Conns, Read(c)
  PROVE  OnceInv'
<1>0. TypeOK
  BY DEF IInv
<1>1. /\ wire[c] \in Seq(Messages) /\ wire[c] # <<>> /\ NoTwice(wire[c])
      /\ wire' = [wire EXCEPT ![c] = Tail(wire[c])] /\ wire'[c] = Tail(wire[c])
  BY <1>0 DEF Read, TypeOK, OnceInv, OnceQueued
<1>2. PICK m \in Messages : m = Head(wire[c]) /\ 1 \in DOMAIN wire[c] /\ m = wire[c][1]
  BY <1>1, TailAt
<1>3. m \in sent[m.id] /\ m.id \in Requests /\ At("wire", c, m)
  BY <1>2 DEF TransitInv, Messages, At
<1>4. /\ NoTwice(Tail(wire[c]))
      /\ \A i \in DOMAIN Tail(wire[c]) : /\ Tail(wire[c])[i] # m
                                         /\ \E j \in DOMAIN wire[c] : wire[c][j] = Tail(wire[c])[i]
  BY <1>1, <1>2, QueueTail
<1>5. ~At("wire", c, m)'
  BY <1>1, <1>4 DEF At
<1>6. ASSUME NEW a \in Requests, NEW o \in sent[a],
             NEW k \in MessagePlaces, NEW e \in Conns \cup {NoConn}, At(k, e, o)'
      PROVE  At(k, e, o) \/ (o = m /\ k = "readPump" /\ e = c)
  <2>1. CASE k = "wire"
    <3>1. e \in Conns /\ \E i \in DOMAIN wire'[e] : wire'[e][i] = o
      BY <1>6, <2>1 DEF At
    <3>2. \E i \in DOMAIN wire[e] : wire[e][i] = o
      <4>1. CASE e = c
        BY <1>1, <1>4, <3>1, <4>1
      <4>2. CASE e # c
        BY <1>0, <1>1, <3>1, <4>2 DEF TypeOK
      <4> QED
        BY <4>1, <4>2
    <3> QED
      BY <2>1, <3>1, <3>2 DEF At
  <2>2. CASE k = "readPump"
    <3>1. e \in Conns /\ fwd'[e] = o
      BY <1>6, <2>2 DEF At
    <3>2. fwd[e] = o \/ (e = c /\ o = m)
      BY <1>0, <1>2, <3>1 DEF Read, TypeOK
    <3> QED
      BY <2>2, <3>1, <3>2 DEF At
  <2>3. CASE k \in {"respChan", "caller"}
    BY <1>6, <2>3 DEF At, Read
  <2> QED
    BY <2>1, <2>2, <2>3 DEF MessagePlaces
<1>7. OncePlaced'
  <2>1. UNCHANGED sent /\ OncePlaced
    BY DEF Read, OnceInv
  <2>2. PICK r \in Requests : m \in sent[r]
    BY <1>3
  <2> QED
    BY <1>3, <1>5, <1>6, <2>1, <2>2, MoveOnce DEF MessagePlaces
<1>8. OnceQueued'
  BY <1>0, <1>1, <1>4 DEF OnceInv, OnceQueued, Read, TypeOK
<1>9. OnceSent'
  BY DEF OnceInv, OnceSent, Read
<1> QED
  BY <1>7, <1>8, <1>9 DEF OnceInv

LEMMA ForwardOnce ==
  ASSUME IInv, SentInv, TransitInv, OnceInv, NEW c \in Conns, Forward(c)
  PROVE  OnceInv'
<1>0. TypeOK
  BY DEF IInv
<1>1. PICK m \in Messages : m = fwd[c] /\ m # NoMsg /\ m \in sent[m.id] /\ m.id \in Requests
  BY <1>0 DEF Forward, TypeOK, TransitInv, Messages
<1>2. At("readPump", c, m) /\ ~At("readPump", c, m)'
  BY <1>0, <1>1 DEF At, Forward, TypeOK
<1>3. \A i \in DOMAIN respChan[m.id] : respChan[m.id][i] # m
  <2>1. ~At("respChan", NoConn, m)
    BY <1>1, <1>2 DEF OnceInv, OncePlaced, MessagePlaces
  <2> QED
    BY <2>1 DEF At
<1>4. \A a \in Requests : \/ respChan'[a] = respChan[a]
                          \/ a = m.id /\ respChan'[a] = Append(respChan[a], m)
  BY <1>0, <1>1 DEF Forward, TypeOK
<1>5. \A a \in Requests : respChan[a] \in Seq(Messages) /\ NoTwice(respChan[a])
  BY <1>0 DEF TypeOK, OnceInv, OnceQueued
<1>6. ASSUME NEW a \in Requests, NEW o \in sent[a],
             NEW k \in MessagePlaces, NEW e \in Conns \cup {NoConn}, At(k, e, o)'
      PROVE  At(k, e, o) \/ (o = m /\ k = "respChan" /\ e = NoConn)
  <2>1. CASE k = "respChan"
    <3>1. o.id = a
      BY <1>0, SentMessage
    <3>2. PICK i \in DOMAIN respChan'[a] : respChan'[a][i] = o
      BY <1>6, <2>1, <3>1 DEF At
    <3>3. (i \in DOMAIN respChan[a] /\ respChan[a][i] = o) \/ o = m
      <4>1. CASE respChan'[a] = respChan[a]
        BY <3>2, <4>1
      <4>2. CASE respChan'[a] = Append(respChan[a], m)
        <5>1. respChan[a] \in Seq(Messages) /\ i \in DOMAIN Append(respChan[a], m)
          BY <1>5, <3>2, <4>2
        <5>2. (i \in DOMAIN respChan[a] /\ respChan'[a][i] = respChan[a][i]) \/ respChan'[a][i] = m
          BY <4>2, <5>1, AppendAt
        <5> QED
          BY <3>2, <5>2
      <4> QED
        BY <1>4, <4>1, <4>2
    <3> QED
      BY <1>6, <2>1, <3>1, <3>3 DEF At
  <2>2. CASE k = "readPump"
    <3>1. e \in Conns /\ fwd'[e] = o /\ o # NoMsg
      BY <1>0, <1>6, <2>2, SentMessage DEF At
    <3>2. fwd[e] = o
      BY <1>0, <3>1 DEF Forward, TypeOK
    <3> QED
      BY <2>2, <3>1, <3>2 DEF At
  <2>3. CASE k \in {"wire", "caller"}
    BY <1>6, <2>3 DEF At, Forward
  <2> QED
    BY <2>1, <2>2, <2>3 DEF MessagePlaces
<1>7. OncePlaced'
  <2>1. UNCHANGED sent /\ OncePlaced
    BY DEF Forward, OnceInv
  <2>2. PICK r \in Requests : m \in sent[r]
    BY <1>1
  <2> QED
    BY <1>2, <1>6, <2>1, <2>2, MoveOnce DEF MessagePlaces
<1>8. ASSUME NEW a \in Requests
      PROVE  NoTwice(respChan'[a])
  <2>1. CASE respChan'[a] = respChan[a]
    BY <1>5, <2>1
  <2>2. CASE a = m.id /\ respChan'[a] = Append(respChan[a], m)
    BY <1>3, <1>5, <2>2, QueueAppend
  <2> QED
    BY <1>4, <2>1, <2>2
<1>9. OnceQueued'
  BY <1>8 DEF OnceInv, OnceQueued, Forward
<1>10. OnceSent'
  BY DEF OnceInv, OnceSent, Forward
<1> QED
  BY <1>7, <1>9, <1>10 DEF OnceInv

LEMMA ReceiveOnce ==
  ASSUME IInv, SentInv, TransitInv, OnceInv, NEW r \in Requests, Receive(r)
  PROVE  OnceInv'
<1>0. TypeOK
  BY DEF IInv
<1>1. /\ respChan[r] \in Seq(Messages) /\ respChan[r] # <<>> /\ NoTwice(respChan[r])
      /\ respChan'[r] = Tail(respChan[r]) /\ chunks[r] \in Seq(Nat) /\ NoTwice(chunks[r])
      /\ \A a \in Requests : a # r => respChan'[a] = respChan[a] /\ chunks'[a] = chunks[a]
  BY <1>0 DEF Receive, TypeOK, OnceInv, OnceQueued
<1>2. PICK m \in Messages : m = Head(respChan[r]) /\ 1 \in DOMAIN respChan[r] /\ m = respChan[r][1]
  BY <1>1, TailAt
<1>3. m \in sent[r] /\ m.id = r /\ \E n \in Nat : n = m.n
  BY <1>0, <1>2, SentMessage DEF TransitInv
<1> PICK n \in Nat : n = m.n
  BY <1>3
<1>4. At("respChan", NoConn, m)
  BY <1>2, <1>3 DEF At
<1>5. /\ NoTwice(Tail(respChan[r]))
      /\ \A i \in DOMAIN Tail(respChan[r]) :
           /\ Tail(respChan[r])[i] # m
           /\ \E j \in DOMAIN respChan[r] : respChan[r][j] = Tail(respChan[r])[i]
  BY <1>1, <1>2, QueueTail
<1>6. ~At("respChan", NoConn, m)'
  BY <1>1, <1>3, <1>5 DEF At
<1>7. chunks'[r] = chunks[r] \/ chunks'[r] = Append(chunks[r], n)
  BY <1>0, <1>2 DEF Receive, TypeOK
<1>8. \A i \in DOMAIN chunks[r] : chunks[r][i] # n
  <2>1. ~At("caller", NoConn, m)
    BY <1>3, <1>4 DEF OnceInv, OncePlaced, MessagePlaces
  <2> QED
    BY <1>3, <2>1 DEF At
<1>9. ASSUME NEW a \in Requests, NEW o \in sent[a],
             NEW k \in MessagePlaces, NEW e \in Conns \cup {NoConn}, At(k, e, o)'
      PROVE  At(k, e, o) \/ (o = m /\ k = "caller" /\ e = NoConn)
  <2>0. o.id = a
    BY <1>0, SentMessage
  <2>1. CASE k = "respChan"
    <3>1. PICK i \in DOMAIN respChan'[a] : respChan'[a][i] = o
      BY <1>9, <2>0, <2>1 DEF At
    <3>2. \E j \in DOMAIN respChan[a] : respChan[a][j] = o
      BY <1>1, <1>5, <3>1
    <3> QED
      BY <1>9, <2>0, <2>1, <3>2 DEF At
  <2>2. CASE k = "caller"
    <3>1. PICK i \in DOMAIN chunks'[a] : chunks'[a][i] = o.n
      BY <1>9, <2>0, <2>2 DEF At
    <3>2. (i \in DOMAIN chunks[a] /\ chunks[a][i] = o.n) \/ (a = r /\ o.n = m.n)
      <4>1. CASE chunks'[a] = chunks[a]
        BY <3>1, <4>1
      <4>2. CASE a = r /\ chunks'[r] = Append(chunks[r], n)
        <5>1. i \in DOMAIN Append(chunks[r], n)
          BY <3>1, <4>2
        <5>2. (i \in DOMAIN chunks[r] /\ chunks'[r][i] = chunks[r][i]) \/ chunks'[r][i] = n
          BY <1>1, <4>2, <5>1, AppendAt
        <5> QED
          BY <1>3, <3>1, <4>2, <5>2
      <4> QED
        BY <1>1, <1>7, <4>1, <4>2
    <3>3. a = r /\ o.n = m.n => o = m
      BY <1>3 DEF OnceInv, OnceSent
    <3> QED
      BY <1>9, <2>0, <2>2, <3>2, <3>3 DEF At
  <2>3. CASE k \in {"wire", "readPump"}
    BY <1>9, <2>3 DEF At, Receive
  <2> QED
    BY <2>1, <2>2, <2>3 DEF MessagePlaces
<1>10. OncePlaced'
  <2>1. UNCHANGED sent /\ OncePlaced
    BY DEF Receive, OnceInv
  <2>2. "respChan" \in MessagePlaces /\ NoConn \in Conns \cup {NoConn} /\ m \in sent[r]
    BY <1>3 DEF MessagePlaces
  <2> QED
    BY <1>4, <1>6, <1>9, <2>1, <2>2, MoveOnce
<1>11. NoTwice(chunks'[r])
  BY <1>1, <1>7, <1>8, QueueAppend
<1>12. OnceQueued'
  <2>1. ASSUME NEW a \in Requests
        PROVE  NoTwice(respChan'[a]) /\ NoTwice(chunks'[a])
    BY <1>1, <1>5, <1>11 DEF OnceInv, OnceQueued
  <2> QED
    BY <2>1 DEF OnceInv, OnceQueued, Receive
<1>13. OnceSent'
  BY DEF OnceInv, OnceSent, Receive
<1> QED
  BY <1>10, <1>12, <1>13 DEF OnceInv

(* A message that leaves the client is new everywhere.                     *)
LEMMA LeaveOnce ==
  ASSUME IInv, SentInv, TransitInv, OnceInv,
         NEW r \in Requests, NEW m \in Messages, Leaves(r, m)
  PROVE  OnceInv'
<1>0. TypeOK
  BY DEF IInv
<1>1. m.id = r /\ m.n \in Nat /\ m # NoMsg
  BY NoMsgAssumption DEF Leaves, Messages
<1>2. ASSUME NEW o \in sent[r]
      PROVE  o.n # m.n
  <2>1. o.n \in Nat
    BY <1>0, SentMessage
  <2> QED
    BY <1>1, <2>1 DEF Leaves, MayLeave
<1>3. \A a \in Requests : sent'[a] = IF a = r THEN sent[a] \cup {m} ELSE sent[a]
  BY <1>0 DEF Leaves, TypeOK
<1>4. /\ \A d \in Conns : fwd[d] # m
      /\ \A d \in Conns : \A i \in DOMAIN wire[d] : wire[d][i] # m
      /\ \A i \in DOMAIN respChan[r] : respChan[r][i] # m
      /\ \A i \in DOMAIN chunks[r] : chunks[r][i] # m.n
  BY <1>1, <1>2 DEF TransitInv
<1>5. PICK c \in Conns \cup {NoConn} :
        \A d \in Conns : wire'[d] = IF d = c THEN Append(wire[d], m) ELSE wire[d]
  <2>1. CASE UNCHANGED wire
    BY <2>1, ConnsAssumption
  <2>2. ASSUME NEW e \in Conns, wire' = [wire EXCEPT ![e] = Append(@, m)]
        PROVE  \A d \in Conns : wire'[d] = IF d = e THEN Append(wire[d], m) ELSE wire[d]
    BY <1>0, <2>2 DEF TypeOK
  <2> QED
    BY <2>1, <2>2 DEF Leaves
<1>6. ASSUME NEW d \in Conns, NEW i \in DOMAIN wire'[d]
      PROVE  (d = c /\ wire'[d][i] = m) \/ \E j \in DOMAIN wire[d] : wire[d][j] = wire'[d][i]
  <2>1. wire[d] \in Seq(Messages)
    BY <1>0 DEF TypeOK
  <2>2. CASE d = c
    <3>1. wire'[d] = Append(wire[d], m) /\ i \in DOMAIN Append(wire[d], m)
      BY <1>5, <1>6, <2>2
    <3>2. (i \in DOMAIN wire[d] /\ wire'[d][i] = wire[d][i]) \/ wire'[d][i] = m
      BY <2>1, <3>1, AppendAt
    <3> QED
      BY <2>2, <3>2
  <2>3. CASE d # c
    BY <1>5, <1>6, <2>3
  <2> QED
    BY <2>2, <2>3
<1>7. ASSUME NEW k \in MessagePlaces, NEW e \in Conns \cup {NoConn}, At(k, e, m)'
      PROVE  k = "wire" /\ e = c
  <2>1. k \in {"readPump", "respChan", "caller"} => At(k, e, m)
    BY <1>7 DEF At, Leaves
  <2>2. k \notin {"readPump", "respChan", "caller"}
    BY <1>1, <1>4, <2>1 DEF At
  <2> QED
    BY <1>4, <1>6, <1>7, <2>2 DEF At, MessagePlaces
<1>8. ASSUME NEW a \in Requests, NEW o \in sent[a],
             NEW k \in MessagePlaces, NEW e \in Conns \cup {NoConn}, At(k, e, o)'
      PROVE  At(k, e, o)
  <2>1. o # m
    BY <1>0, <1>1, <1>2, SentMessage
  <2>2. CASE k = "wire"
    <3>1. PICK i \in DOMAIN wire'[e] : e \in Conns /\ wire'[e][i] = o
      BY <1>8, <2>2 DEF At
    <3>2. \E j \in DOMAIN wire[e] : wire[e][j] = o
      BY <1>6, <2>1, <3>1
    <3> QED
      BY <2>2, <3>1, <3>2 DEF At
  <2>3. CASE k # "wire"
    BY <1>8, <2>3 DEF At, Leaves
  <2> QED
    BY <2>2, <2>3
<1>9. OncePlaced'
  <2>1. ASSUME NEW a \in Requests, NEW o \in sent'[a],
               NEW k \in MessagePlaces, NEW e \in Conns \cup {NoConn}, At(k, e, o)',
               NEW l \in MessagePlaces, NEW f \in Conns \cup {NoConn}, At(l, f, o)'
        PROVE  k = l /\ e = f
    <3>1. CASE o = m
      BY <1>7, <2>1, <3>1
    <3>2. CASE o # m
      <4>1. o \in sent[a]
        BY <1>3, <2>1, <3>2
      <4>2. At(k, e, o) /\ At(l, f, o)
        BY <1>8, <2>1, <4>1
      <4> QED
        BY <4>1, <4>2 DEF OnceInv, OncePlaced
    <3> QED
      BY <3>1, <3>2
  <2> QED
    BY <2>1 DEF OncePlaced
<1>10. ASSUME NEW d \in Conns
       PROVE  NoTwice(wire'[d])
  <2>1. wire[d] \in Seq(Messages) /\ NoTwice(wire[d])
    BY <1>0 DEF TypeOK, OnceInv, OnceQueued
  <2> QED
    BY <1>4, <1>5, <2>1, QueueAppend
<1>11. OnceQueued'
  BY <1>10 DEF OnceInv, OnceQueued, Leaves
<1>12. OnceSent'
  BY <1>2, <1>3 DEF OnceInv, OnceSent
<1> QED
  BY <1>9, <1>11, <1>12 DEF OnceInv

LEMMA OnceStep ==
  ASSUME IInv, SentInv, TransitInv, OnceInv, [Next]_vars
  PROVE  OnceInv'
<1>1. CASE UNCHANGED messageVars
  BY <1>1 DEF messageVars, OnceInv, OnceSent, OncePlaced, OnceQueued, At
<1>2. CASE Loses
  <2>1. ASSUME NEW r \in Requests, NEW m \in sent[r],
               NEW p \in MessagePlaces, NEW c \in Conns \cup {NoConn}, At(p, c, m)'
        PROVE  At(p, c, m)
    BY <1>2, <2>1 DEF Loses, At
  <2>2. OncePlaced'
    <3>1. UNCHANGED sent
      BY <1>2 DEF Loses
    <3> QED
      BY <2>1, <3>1 DEF OnceInv, OncePlaced
  <2>3. \A c \in Conns : NoTwice(wire[c]) => NoTwice(wire'[c])
    BY <1>2 DEF Loses, NoTwice
  <2> QED
    BY <1>2, <2>2, <2>3 DEF Loses, OnceInv, OnceSent, OnceQueued
<1> QED
  BY <1>1, <1>2, ReadOnce, ForwardOnce, ReceiveOnce, LeaveOnce, Ways

-----------------------------------------------------------------------------
(* How a call was answered says what the client has sent                   *)

Answered(r) == outcome[r] \in {"ended", "relayed", "failed"}

OutcomeInv ==
  \A r \in Requests :
    /\ outcome[r] = "ended" => \E m \in sent[r] : m.kind = "end"
    /\ outcome[r] = "relayed" => r \notin Streams /\ \E m \in sent[r] : m.kind = "response"

(* ... and that there is no more to come.                                  *)
EndedInv ==
  \A r \in Requests : Answered(r) => Passed(r) /\ \E m \in sent[r] : m.kind # "chunk"

LEMMA OutcomeEffect ==
  ASSUME TypeOK, TableInv, [Next]_vars, NEW r \in Requests, outcome'[r] # outcome[r]
  PROVE  ~Answered(r)' \/ ReceiveAnswer(r) \/ ReceiveStream(r)
<1> USE DEF TypeOK, Answered, GoTo, Return, handlerVars
<1>1. ASSUME NEW q \in Requests,
             \/ Admit(q) \/ Refuse(q) \/ PickClient(q) \/ Reject(q) \/ RegisterRequest(q)
             \/ SendRequest(q) \/ SendBusy(q) \/ SendPanics(q) \/ GiveUp(q)
             \/ UnregisterRequest(q) \/ ReleaseSlot(q) \/ Expire(q) \/ RemoteReply(q)
      PROVE  ~Answered(r)'
  BY <1>1 DEF Admit, Refuse, PickClient, Reject, RegisterRequest, SendRequest, SendBusy,
     SendPanics, GiveUp, UnregisterRequest, ReleaseSlot, Expire, RemoteReply
<1>2. ASSUME NEW q \in Requests, ReceiveAnswer(q) \/ ReceiveStream(q)
      PROVE  q = r
  BY <1>2 DEF ReceiveAnswer, ReceiveStream, AnswerError
<1>3. ASSUME \/ \E c \in Conns : \/ Connect(c) \/ Disconnect(c) \/ ReadMessage(c)
                                 \/ ForwardMessage(c) \/ WriteRequest(c)
             \/ CleanupExpiredRequests \/ WedgeCleaner \/ Stop \/ UNCHANGED vars
      PROVE  UNCHANGED outcome
  BY <1>3 DEF Connect, Disconnect, ReadMessage, ForwardMessage, WriteRequest,
     CleanupExpiredRequests, WedgeCleaner, Stop, StopCancel, StopCloseClients, StopBlocks,
     StopClearRequests, StopShutdown, StopExit, vars
<1> QED
  BY <1>1, <1>2, <1>3 DEF Next, Serve, Handler, Finished

(* What a handler takes out of ResponseChan was sent, and fits the branch. *)
LEMMA TakesAnswer ==
  ASSUME TypeOK, SentInv, TransitInv, NEW r \in Requests, outcome'[r] # outcome[r],
         ReceiveAnswer(r) \/ ReceiveStream(r)
  PROVE  /\ respChan[r] # <<>> /\ Head(respChan[r]) \in sent[r]
         /\ Head(respChan[r]).kind # "chunk"
         /\ outcome'[r] = "ended" => Head(respChan[r]).kind = "end"
         /\ outcome'[r] = "relayed" => r \notin Streams /\ Head(respChan[r]).kind = "response"
<1>1. respChan[r] # <<>> /\ Head(respChan[r]) \in sent[r]
  <2>1. respChan[r] # <<>>
    BY DEF ReceiveAnswer, ReceiveStream
  <2>2. 1 \in DOMAIN respChan[r] /\ Head(respChan[r]) = respChan[r][1]
    BY <2>1, TailAt DEF TypeOK
  <2> QED
    BY <2>1, <2>2 DEF TransitInv
<1>2. CASE ReceiveAnswer(r)
  <2>1. r \notin Streams /\ Head(respChan[r]).kind \in {"response", "error"}
    BY <1>1, <1>2 DEF ReceiveAnswer, SentInv, Kind
  <2>2. Head(respChan[r]).kind = "error" => outcome'[r] = "failed"
    BY <1>2 DEF ReceiveAnswer, AnswerError, Return, TypeOK
  <2>3. outcome'[r] # "ended"
    BY <1>2 DEF ReceiveAnswer, AnswerError, Return, TypeOK
  <2> QED
    BY <1>1, <2>1, <2>2, <2>3
<1>3. CASE ReceiveStream(r)
  BY <1>1, <1>3 DEF ReceiveStream, AnswerError, Return, TypeOK
<1> QED
  BY <1>2, <1>3

LEMMA OutcomeStep ==
  ASSUME IInv, SentInv, TransitInv, OutcomeInv, [Next]_vars
  PROVE  OutcomeInv'
<1>0. TypeOK /\ TableInv
  BY DEF IInv
<1>1. \A r \in Requests : sent[r] \subseteq sent'[r]
  BY SentStep
<1>2. ASSUME NEW r \in Requests, outcome'[r] # outcome[r], Answered(r)'
      PROVE  /\ outcome'[r] = "ended" => \E m \in sent[r] : m.kind = "end"
             /\ outcome'[r] = "relayed" =>
                  r \notin Streams /\ \E m \in sent[r] : m.kind = "response"
  <2>1. ReceiveAnswer(r) \/ ReceiveStream(r)
    BY <1>0, <1>2, OutcomeEffect
  <2> QED
    BY <1>0, <1>2, <2>1, TakesAnswer
<1>3. ASSUME NEW r \in Requests
      PROVE  /\ outcome'[r] = "ended" => \E m \in sent[r] : m.kind = "end"
             /\ outcome'[r] = "relayed" =>
                  r \notin Streams /\ \E m \in sent[r] : m.kind = "response"
  BY <1>2 DEF OutcomeInv, Answered
<1> QED
  BY <1>1, <1>3 DEF OutcomeInv

LEMMA EndedStep ==
  ASSUME IInv, AskInv, SentInv, TransitInv, OneLine, EndedInv, ~Reconnected, [Next]_vars
  PROVE  EndedInv'
<1>0. TypeOK /\ TableInv
  BY DEF IInv
<1>1. \A r \in Requests : sent[r] \subseteq sent'[r]
  BY SentStep
<1>2. ASSUME NEW r \in Requests, Answered(r)', outcome'[r] # outcome[r]
      PROVE  Passed(r)' /\ \E m \in sent[r] : m.kind # "chunk"
  <2>1. ReceiveAnswer(r) \/ ReceiveStream(r)
    BY <1>0, <1>2, OutcomeEffect
  <2>2. /\ respChan[r] # <<>> /\ Head(respChan[r]) \in sent[r]
        /\ Head(respChan[r]).kind # "chunk"
    BY <1>0, <1>2, <2>1, TakesAnswer
  <2>3. Passed(r)
    BY <1>0, <2>2, LastIsSilent DEF OneLine, Silent
  <2>4. UNCHANGED <<wire, fwd>>
    BY <2>1 DEF ReceiveAnswer, ReceiveStream, linkVars
  <2> QED
    BY <2>2, <2>3, <2>4 DEF Passed
<1>3. ASSUME NEW r \in Requests, Answered(r)
      PROVE  Passed(r)' /\ \E m \in sent[r] : m.kind # "chunk"
  <2>1. Silent(r) /\ \E m \in sent[r] : m.kind # "chunk"
    BY <1>3 DEF EndedInv, Silent
  <2>2. CASE SendRequest(r)
    <3>1. UNCHANGED <<wire, fwd>>
      BY <2>2 DEF SendRequest
    <3> QED
      BY <2>1, <3>1 DEF Silent, Passed
  <2>3. CASE ~SendRequest(r)
    BY <2>1, <2>3, SilentStep DEF OneLine, Silent
  <2> QED
    BY <2>1, <2>2, <2>3
<1>4. ASSUME NEW r \in Requests, Answered(r)'
      PROVE  Passed(r)' /\ \E m \in sent[r] : m.kind # "chunk"
  BY <1>2, <1>3, <1>4 DEF Answered
<1> QED
  BY <1>1, <1>4 DEF EndedInv

AnswerInv == OnceInv /\ OutcomeInv /\ (~Reconnected => EndedInv)

(* What a caller has been handed was sent in answer to its call, no piece  *)
(* twice, over a reconnect too; the branch by which a call was answered    *)
(* tells which message the client has sent last, and unless it has         *)
(* reconnected there is none behind it.                                    *)
THEOREM Answers == Spec => [](FullInv /\ AnswerInv)
<1>1. Init => FullInv /\ AnswerInv
  <2> SUFFICES ASSUME Init
               PROVE  FullInv /\ AnswerInv
    OBVIOUS
  <2>1. DOMAIN (<<>>) = {} /\ NoTwice(<<>>)
    BY DEF NoTwice
  <2>2. OnceInv
    BY <2>1 DEF Init, OnceInv, OnceSent, OncePlaced, OnceQueued
  <2>3. OutcomeInv /\ EndedInv
    BY DEF Init, OutcomeInv, EndedInv, Answered
  <2> QED
    BY <2>2, <2>3, FullInit DEF AnswerInv
<1>2. FullInv /\ AnswerInv /\ [Next]_vars => (FullInv /\ AnswerInv)'
  <2> SUFFICES ASSUME FullInv, AnswerInv, [Next]_vars
               PROVE  FullInv' /\ AnswerInv'
    OBVIOUS
  <2>1. FullInv'
    BY FullStep
  <2>2. OnceInv' /\ OutcomeInv'
    BY OnceStep, OutcomeStep DEF FullInv, PInv, AnswerInv
  <2>3. Reconnected => Reconnected'
    BY LinkStep DEF FullInv, PInv
  <2>4. ASSUME ~Reconnected'
        PROVE  EndedInv'
    BY <2>3, <2>4, EndedStep DEF FullInv, PInv, AnswerInv
  <2> QED
    BY <2>1, <2>2, <2>4 DEF AnswerInv
<1> QED
  BY <1>1, <1>2, PTL DEF Spec

-----------------------------------------------------------------------------
(* The refinement of ProxyCalls                                            *)

(* The phase of a call whose handler is at p.                              *)
PhaseOf(p) ==
  CASE p = "new" -> "new"
    [] p \in {"leaving", "releasing"} -> "answered"
    [] p = "done" -> "closed"
    [] OTHER -> "open"

LEMMA PhaseAt ==
  /\ phase = [r \in Requests |-> PhaseOf(pc[r])]
  /\ phase' = [r \in Requests |-> PhaseOf(pc'[r])]
  BY DEF phase, PhaseOf

(* A handler moves on, and its call from one phase to another ...          *)
LEMMA PhaseMoves ==
  ASSUME TypeOK, NEW r \in Requests, NEW to \in PCs, pc' = [pc EXCEPT ![r] = to],
         UNCHANGED chunks
  PROVE  Abstract!Move(r, PhaseOf(pc[r]), PhaseOf(to)) /\ UNCHANGED chunks
<1>1. \A q \in Requests : pc'[q] = IF q = r THEN to ELSE pc[q]
  BY DEF TypeOK
<1>2. phase' = [phase EXCEPT ![r] = PhaseOf(to)]
  BY <1>1, PhaseAt
<1>3. phase[r] = PhaseOf(pc[r])
  BY PhaseAt
<1> QED
  BY <1>2, <1>3 DEF Abstract!Move

(* ... or stays within one.                                                *)
LEMMA PhaseStays ==
  ASSUME \A r \in Requests : PhaseOf(pc'[r]) = PhaseOf(pc[r]), UNCHANGED chunks
  PROVE  UNCHANGED Abstract!vars
<1>1. phase' = phase
  BY PhaseAt
<1> QED
  BY <1>1 DEF Abstract!vars

(* The abstract slots are those the semaphore counts.                      *)
LEMMA SlotsHeld ==
  ASSUME TypeOK
  PROVE  Abstract!Slots = Holding
<1>1. \A r \in Requests : PhaseOf(pc[r]) \in {"open", "answered"} <=> pc[r] \notin {"new", "done"}
  BY DEF TypeOK, PCs, PhaseOf
<1> QED
  BY <1>1, PhaseAt DEF Abstract!Slots, Holding

(* ProxyCalls counts them with the same operator, under a name of its own. *)
LEMMA SameCount ==
  ASSUME NEW S
  PROVE  Abstract!Cardinality(S) = Cardinality(S)
  BY DEF Abstract!Cardinality, Cardinality

LEMMA AdmitRefines ==
  ASSUME FullInv, NEW r \in Requests, Admit(r) \/ Refuse(r)
  PROVE  Abstract!Admit(r) \/ Abstract!Refuse(r)
<1>0. TypeOK /\ SlotAccounting
  BY DEF FullInv, IInv
<1>1. CASE Admit(r)
  <2>1. pc[r] = "new" /\ pc' = [pc EXCEPT ![r] = "admitted"] /\ UNCHANGED chunks
    BY <1>1 DEF Admit, GoTo
  <2>2. Abstract!Move(r, "new", "open") /\ UNCHANGED chunks
    BY <1>0, <2>1, PhaseMoves DEF PCs, PhaseOf
  <2>3. Abstract!Cardinality(Abstract!Slots) < MaxConcurrentRequests
    BY <1>0, <1>1, SlotsHeld, SameCount DEF Admit, SlotAccounting
  <2> QED
    BY <2>2, <2>3 DEF Abstract!Admit
<1>2. CASE Refuse(r)
  <2>1. pc[r] = "new" /\ pc' = [pc EXCEPT ![r] = "done"] /\ UNCHANGED chunks
    BY <1>2 DEF Refuse, Return, GoTo
  <2>2. Abstract!Move(r, "new", "closed") /\ UNCHANGED chunks
    BY <1>0, <2>1, PhaseMoves DEF PCs, PhaseOf
  <2> QED
    BY <2>2 DEF Abstract!Refuse
<1> QED
  BY <1>1, <1>2

(* A handler that returns answers its call, by whatever branch.            *)
LEMMA AnswerRefines ==
  ASSUME TypeOK, NEW r \in Requests, UNCHANGED chunks,
         \E from \in {"admitted", "prepared", "sending", "waiting"},
            to \in {"leaving", "releasing"} :
           pc[r] = from /\ pc' = [pc EXCEPT ![r] = to]
  PROVE  Abstract!Answer(r)
<1>1. PhaseOf(pc[r]) = "open"
  BY DEF PhaseOf
<1>2. PICK to \in {"leaving", "releasing"} : pc' = [pc EXCEPT ![r] = to]
  OBVIOUS
<1>3. PhaseOf(to) = "answered" /\ to \in PCs
  BY DEF PhaseOf, PCs
<1>4. Abstract!Move(r, "open", "answered") /\ UNCHANGED chunks
  BY <1>1, <1>2, <1>3, PhaseMoves
<1> QED
  BY <1>4 DEF Abstract!Answer

(* A piece is written after all that were written before it.               *)
LEMMA ChunkRefines ==
  ASSUME FullInv, ~Reconnected, NEW r \in Requests, ReceiveStream(r), chunks' # chunks
  PROVE  Abstract!Deliver(r)
<1>0. TypeOK /\ SentInv /\ TransitInv /\ QueueInOrder /\ ChunksInOrder
  BY DEF FullInv, IInv, PInv, OneLine
<1>1. /\ r \in Streams /\ pc[r] = "waiting" /\ UNCHANGED pc /\ respChan[r] # <<>>
      /\ chunks' = [chunks EXCEPT ![r] = Append(@, Head(respChan[r]).n)]
  BY DEF ReceiveStream, AnswerError
<1>2. 1 \in DOMAIN respChan[r] /\ Head(respChan[r]) = respChan[r][1]
  BY <1>0, <1>1, TailAt DEF TypeOK
<1>3. Head(respChan[r]).n \in 1 .. (MaxChunks + 1)
  BY <1>0, <1>2 DEF SentInv, TransitInv
<1>4. \A i \in DOMAIN chunks[r] : chunks[r][i] < Head(respChan[r]).n
  BY <1>0, <1>2 DEF ChunksInOrder
<1>5. phase[r] = "open" /\ phase' = phase
  BY <1>1, PhaseAt DEF PhaseOf
<1> QED
  BY <1>1, <1>3, <1>4, <1>5 DEF Abstract!Deliver

LEMMA HandlerRefines ==
  ASSUME FullInv, ~Reconnected, NEW r \in Requests, Handler(r)
  PROVE  \/ Abstract!Answer(r) \/ Abstract!Deliver(r) \/ Abstract!Free(r)
         \/ UNCHANGED Abstract!vars
<1>0. TypeOK
  BY DEF FullInv, IInv
<1> USE DEF GoTo, Return
<1>1. CASE PickClient(r)
  <2>1. CASE pc' = [pc EXCEPT ![r] = "releasing"] /\ pc[r] = "admitted"
    BY <1>0, <1>1, <2>1, AnswerRefines DEF PickClient
  <2>2. CASE pc' = [pc EXCEPT ![r] = "prepared"] /\ pc[r] = "admitted"
    <3>1. \A q \in Requests : PhaseOf(pc'[q]) = PhaseOf(pc[q])
      BY <1>0, <2>2 DEF TypeOK, PhaseOf
    <3> QED
      BY <1>1, <3>1, PhaseStays DEF PickClient
  <2> QED
    BY <1>1, <2>1, <2>2 DEF PickClient
<1>2. CASE Reject(r)
  BY <1>0, <1>2, AnswerRefines DEF Reject
<1>3. CASE RegisterRequest(r) \/ SendRequest(r)
  <2>1. \A q \in Requests : PhaseOf(pc'[q]) = PhaseOf(pc[q])
    BY <1>0, <1>3 DEF RegisterRequest, SendRequest, TypeOK, PhaseOf
  <2> QED
    BY <1>3, <2>1, PhaseStays DEF RegisterRequest, SendRequest
<1>4. CASE SendBusy(r) \/ SendPanics(r)
  BY <1>0, <1>4, AnswerRefines DEF SendBusy, SendPanics
<1>5. CASE ReceiveAnswer(r)
  <2>1. pc[r] = "waiting" /\ pc' = [pc EXCEPT ![r] = "leaving"] /\ UNCHANGED chunks
    BY <1>5 DEF ReceiveAnswer, AnswerError
  <2> QED
    BY <1>0, <2>1, AnswerRefines
<1>6. CASE ReceiveStream(r)
  <2>1. CASE chunks' # chunks
    BY <1>6, <2>1, ChunkRefines
  <2>2. CASE chunks' = chunks /\ pc' # pc
    <3>1. pc[r] = "waiting" /\ pc' = [pc EXCEPT ![r] = "leaving"]
      BY <1>6, <2>2 DEF ReceiveStream, AnswerError
    <3> QED
      BY <1>0, <2>2, <3>1, AnswerRefines
  <2>3. CASE chunks' = chunks /\ pc' = pc
    BY <2>3, PhaseStays
  <2> QED
    BY <2>1, <2>2, <2>3
<1>7. CASE GiveUp(r)
  BY <1>0, <1>7, AnswerRefines DEF GiveUp
<1>8. CASE UnregisterRequest(r)
  <2>1. \A q \in Requests : PhaseOf(pc'[q]) = PhaseOf(pc[q])
    BY <1>0, <1>8 DEF UnregisterRequest, TypeOK, PhaseOf
  <2> QED
    BY <1>8, <2>1, PhaseStays DEF UnregisterRequest
<1>9. CASE ReleaseSlot(r)
  <2>1. pc[r] = "releasing" /\ pc' = [pc EXCEPT ![r] = "done"] /\ UNCHANGED chunks
    BY <1>9 DEF ReleaseSlot
  <2>2. Abstract!Move(r, "answered", "closed") /\ UNCHANGED chunks
    BY <1>0, <2>1, PhaseMoves DEF PCs, PhaseOf
  <2> QED
    BY <2>2 DEF Abstract!Free
<1> QED
  BY <1>1, <1>2, <1>3, <1>4, <1>5, <1>6, <1>7, <1>8, <1>9 DEF Handler

LEMMA StepRefines ==
  ASSUME FullInv, ~Reconnected, [Next]_vars
  PROVE  [Abstract!Next]_Abstract!vars
<1>1. ASSUME NEW r \in Requests, Admit(r) \/ Refuse(r) \/ Handler(r)
      PROVE  Abstract!Next \/ UNCHANGED Abstract!vars
  BY <1>1, AdmitRefines, HandlerRefines DEF Abstract!Next
<1>2. ASSUME NEW r \in Requests, RemoteReply(r) \/ Expire(r)
      PROVE  UNCHANGED <<pc, chunks>>
  BY <1>2 DEF RemoteReply, Expire, handlerVars
<1>3. ASSUME NEW c \in Conns, \/ Connect(c) \/ Disconnect(c) \/ ReadMessage(c)
                              \/ ForwardMessage(c) \/ WriteRequest(c)
      PROVE  UNCHANGED <<pc, chunks>>
  BY <1>3 DEF Connect, Disconnect, ReadMessage, ForwardMessage, WriteRequest, handlerVars
<1>4. CASE CleanupExpiredRequests \/ WedgeCleaner \/ Stop
  <2>1. UNCHANGED <<pc, chunks>>
    BY <1>4 DEF CleanupExpiredRequests, WedgeCleaner, Stop, StopCancel, StopCloseClients,
       StopBlocks, StopClearRequests, StopShutdown, StopExit, handlerVars
  <2> QED
    BY <2>1, PhaseStays
<1>5. CASE UNCHANGED vars
  <2>1. UNCHANGED <<pc, chunks>>
    BY <1>5 DEF vars, handlerVars
  <2> QED
    BY <2>1, PhaseStays
<1>6. ASSUME UNCHANGED <<pc, chunks>>
      PROVE  UNCHANGED Abstract!vars
  BY <1>6, PhaseStays
<1> QED
  BY <1>1, <1>2, <1>3, <1>4, <1>5, <1>6 DEF Next, Serve, Finished

(* As long as its client keeps the one connection, the server keeps the    *)
(* promises of ProxyCalls, also while it is stopped or its cleaner stuck.  *)
THEOREM Refinement == Spec /\ []~Reconnected => Contract
<1>1. Init => Abstract!Init
  BY PhaseAt DEF Init, PhaseOf, Abstract!Init
<1>2. FullInv /\ ~Reconnected /\ [Next]_vars => [Abstract!Next]_Abstract!vars
  BY StepRefines
<1> QED
  BY <1>1, <1>2, FullInductive, PTL DEF Spec, Contract, Abstract!Spec

-----------------------------------------------------------------------------
(* A server that is not being stopped                                      *)

LEMMA ServingStep ==
  ASSUME FullInv, ~Cancelled, ~wedged, [ServeNext]_vars
  PROVE  ~Cancelled' /\ ~wedged' /\ [Next]_vars
<1> USE DEF handlerVars, tableVars, linkVars, remoteVars, procVars
<1>1. [Next]_vars
  BY DEF ServeNext, Next
<1>2. ASSUME NEW r \in Requests, Admit(r) \/ Refuse(r) \/ Handler(r) \/ RemoteReply(r) \/ Expire(r)
      PROVE  UNCHANGED <<stopPc, wedged>>
  BY <1>2 DEF Admit, Refuse, Handler, PickClient, Reject, RegisterRequest, SendRequest,
     SendBusy, SendPanics, ReceiveAnswer, ReceiveStream, GiveUp, UnregisterRequest,
     ReleaseSlot, RemoteReply, Expire
<1>3. ASSUME NEW c \in Conns, \/ Connect(c) \/ Disconnect(c) \/ ReadMessage(c)
                              \/ ForwardMessage(c) \/ WriteRequest(c)
      PROVE  UNCHANGED <<stopPc, wedged>>
  BY <1>3 DEF Connect, Disconnect, ReadMessage, ForwardMessage, WriteRequest
<1>4. ASSUME CleanupExpiredRequests \/ UNCHANGED vars
      PROVE  UNCHANGED <<stopPc, wedged>>
  BY <1>4 DEF CleanupExpiredRequests, vars
<1> QED
  BY <1>1, <1>2, <1>3, <1>4 DEF ServeNext, Serve, Finished, Cancelled

LEMMA Serving == ServeSpec => Spec /\ [](FullInv /\ ~Cancelled /\ ~wedged)
<1>1. Init => FullInv /\ ~Cancelled /\ ~wedged
  BY FullInit DEF Init, Cancelled
<1>2. FullInv /\ ~Cancelled /\ ~wedged /\ [ServeNext]_vars
        => [Next]_vars /\ (FullInv /\ ~Cancelled /\ ~wedged)'
  BY ServingStep, FullStep
<1> QED
  BY <1>1, <1>2, PTL DEF ServeSpec, Spec

(* A server that is not being stopped, whose cleaner works and whose       *)
(* client keeps its connection, does not panic in any goroutine.           *)
THEOREM ServeNeverPanics == ServeSpec /\ []~Reconnected => [](panic = "none")
<1>1. FullInv /\ ~Cancelled /\ ~wedged /\ ~Reconnected => panic = "none"
  BY DEF FullInv, PInv, OneLine, SilenceInv, IInv, TypeOK, TableInv, CloseDiscipline
<1> QED
  BY <1>1, Serving, PTL

=============================================================================
