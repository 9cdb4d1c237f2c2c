------------------------- MODULE RequestTableProofs -------------------------
(***************************************************************************)
(* Proofs about RequestTable, for every set of calls and connections and   *)
(* every capacity, with Stop and a stuck cleaner included.                 *)
(*                                                                         *)
(*   TypeCorrect   Spec => []TypeOK                                        *)
(*   Ownership     Spec => []TableOwnership                                *)
(*   Closing       Spec => []CloseDiscipline                               *)
(*   Slots         Spec => []SlotAccounting                                *)
(***************************************************************************)
EXTENDS RequestTable, FiniteSetTheorems, TLAPS

-----------------------------------------------------------------------------
(* Slots                                                                   *)

(* A call that holds a slot is counted by the semaphore.                   *)
LEMMA HoldingCounted ==
  ASSUME SlotAccounting, NEW r \in Holding
  PROVE  sem \in Nat \ {0} /\ IsFiniteSet(Holding)
<1>1. IsFiniteSet(Holding)
  BY RequestsAssumption, FS_Subset DEF Holding
<1>2. Cardinality(Holding) \in Nat
  BY <1>1, FS_CardinalityType
<1>3. Cardinality(Holding) # 0
  BY <1>1, FS_EmptySet
<1> QED
  BY <1>1, <1>2, <1>3 DEF SlotAccounting

-----------------------------------------------------------------------------
(* Types                                                                   *)

(* The steps of a handler keep every variable in its type.                 *)
LEMMA HandlerType ==
  ASSUME TypeOK, SlotAccounting, NEW r \in Requests,
         Admit(r) \/ Refuse(r) \/ Handler(r)
  PROVE  TypeOK'
<1> USE CapacityAssumption DEF TypeOK, PCs, Outcomes, GoTo, Return, handlerVars,
        tableVars, linkVars, remoteVars, procVars
<1>1. CASE Admit(r)
  BY <1>1 DEF Admit
<1>2. CASE Refuse(r)
  BY <1>2 DEF Refuse
<1>3. CASE PickClient(r)
  <2>1. CASE conn' = conn
    BY <1>3, <2>1 DEF PickClient
  <2>2. CASE conn' # conn
    <3>1. conn' \in [Requests -> Conns \cup {NoConn}]
      BY <1>3 DEF PickClient
    <3> QED
      BY <1>3, <2>2, <3>1 DEF PickClient
  <2> QED
    BY <2>1, <2>2
<1>4. CASE Reject(r)
  BY <1>4 DEF Reject
<1>5. CASE RegisterRequest(r)
  BY <1>5 DEF RegisterRequest
<1>6. CASE SendRequest(r)
  <2>1. sendChan' \in [Conns -> Seq(Requests)]
    <3>1. CASE conn[r] \in Conns
      <4>1. Append(sendChan[conn[r]], r) \in Seq(Requests)
        BY <3>1
      <4> QED
        BY <4>1, <1>6 DEF SendRequest
    <3>2. CASE conn[r] \notin Conns
      BY <3>2, <1>6 DEF SendRequest
    <3> QED
      BY <3>1, <3>2
  <2> QED
    BY <1>6, <2>1 DEF SendRequest
<1>7. CASE SendBusy(r)
  BY <1>7 DEF SendBusy
<1>8. CASE SendPanics(r)
  BY <1>8 DEF SendPanics
<1>9. CASE ReceiveAnswer(r)
  <2>1. Tail(respChan[r]) \in Seq(Messages)
    BY <1>9 DEF ReceiveAnswer, AnswerError
  <2>2. respChan' \in [Requests -> Seq(Messages)]
    BY <1>9, <2>1 DEF ReceiveAnswer, AnswerError
  <2>3. pc' \in [Requests -> PCs] /\ outcome' \in [Requests -> Outcomes]
    <3>1. \E why \in Outcomes : Return(r, "waiting", "leaving", why)
      BY <1>9, ZenonT(30) DEF ReceiveAnswer, AnswerError
    <3> QED
      BY <3>1
  <2> QED
    BY <1>9, <2>2, <2>3 DEF ReceiveAnswer, AnswerError
<1>10. CASE ReceiveStream(r)
  <2>1. /\ Tail(respChan[r]) \in Seq(Messages)
        /\ Head(respChan[r]).n \in Nat
    <3>1. respChan[r] \in Seq(Messages) /\ respChan[r] # <<>>
      BY <1>10 DEF ReceiveStream, AnswerError
    <3>2. Tail(respChan[r]) \in Seq(Messages) /\ Head(respChan[r]) \in Messages
      BY <3>1
    <3> QED
      BY <3>2 DEF Messages
  <2>2. chunks' \in [Requests -> Seq(Nat)]
    <3>1. Append(chunks[r], Head(respChan[r]).n) \in Seq(Nat)
      BY <2>1
    <3> QED
      BY <1>10, <3>1 DEF ReceiveStream, AnswerError
  <2>3. /\ pc' \in [Requests -> PCs]
        /\ outcome' \in [Requests -> Outcomes]
        /\ respChan' \in [Requests -> Seq(Messages)]
    BY <1>10, <2>1 DEF ReceiveStream, AnswerError
  <2> QED
    BY <1>10, <2>2, <2>3 DEF ReceiveStream, AnswerError
<1>11. CASE GiveUp(r)
  BY <1>11 DEF GiveUp
<1>12. CASE UnregisterRequest(r)
  BY <1>12 DEF UnregisterRequest
<1>13. CASE ReleaseSlot(r)
  <2>1. sem \in Nat \ {0}
    BY <1>13, HoldingCounted DEF ReleaseSlot, Holding
  <2> QED
    BY <1>13, <2>1 DEF ReleaseSlot
<1> QED
  BY <1>1, <1>2, <1>3, <1>4, <1>5, <1>6, <1>7, <1>8, <1>9, <1>10, <1>11,
     <1>12, <1>13 DEF Handler

(* Of the answers on their way readPump keeps the first ones, or none.     *)
LEMMA ShutKeeps ==
  ASSUME TypeOK, NEW c \in Conns, Shut(c)
  PROVE  /\ link' \in [Conns -> {"absent", "up", "closed"}]
         /\ sendChan' \in [Conns -> Seq(Requests)]
         /\ wire' \in [Conns -> Seq(Messages)]
         /\ UNCHANGED fwd
         /\ \A d \in Conns : /\ DOMAIN wire'[d] \subseteq DOMAIN wire[d]
                             /\ \A i \in DOMAIN wire'[d] : wire'[d][i] = wire[d][i]
<1> USE DEF TypeOK
<1>1. PICK n \in 0 .. Len(wire[c]) : wire' = [wire EXCEPT ![c] = SubSeq(@, 1, n)]
  BY DEF Shut
<1>2. wire[c] \in Seq(Messages) /\ n \in Nat /\ n <= Len(wire[c])
  BY <1>1
<1>3. /\ SubSeq(wire[c], 1, n) \in Seq(Messages)
      /\ DOMAIN SubSeq(wire[c], 1, n) = 1 .. n
      /\ \A i \in 1 .. n : SubSeq(wire[c], 1, n)[i] = wire[c][i]
  BY <1>2
<1>4. wire'[c] = SubSeq(wire[c], 1, n) /\ \A d \in Conns : d # c => wire'[d] = wire[d]
  BY <1>1
<1>5. \A d \in Conns : /\ DOMAIN wire'[d] \subseteq DOMAIN wire[d]
                       /\ \A i \in DOMAIN wire'[d] : wire'[d][i] = wire[d][i]
  <2>1. 1 .. n \subseteq DOMAIN wire[c]
    BY <1>2
  <2> QED
    BY <1>3, <1>4, <2>1
<1>6. wire' \in [Conns -> Seq(Messages)]
  BY <1>1, <1>3
<1>7. /\ link' \in [Conns -> {"absent", "up", "closed"}]
      /\ sendChan' \in [Conns -> Seq(Requests)] /\ UNCHANGED fwd
  BY DEF Shut
<1> QED
  BY <1>5, <1>6, <1>7

(* So do the connections, the other end, the clock, the cleaner and Stop.  *)
LEMMA PumpType ==
  ASSUME TypeOK, NEW c \in Conns,
         \/ Connect(c) \/ Disconnect(c) \/ ReadMessage(c)
         \/ ForwardMessage(c) \/ WriteRequest(c)
  PROVE  TypeOK'
<1> USE DEF TypeOK, handlerVars, tableVars, linkVars, remoteVars, procVars
<1>1. CASE Connect(c)
  BY <1>1 DEF Connect
<1>2. CASE Disconnect(c)
  BY <1>2, ShutKeeps DEF Disconnect
<1>3. CASE ReadMessage(c)
  <2>1. Head(wire[c]) \in Messages /\ Tail(wire[c]) \in Seq(Messages)
    BY <1>3 DEF ReadMessage
  <2>2. fwd' \in [Conns -> Messages \cup {NoMsg}] /\ wire' \in [Conns -> Seq(Messages)]
    BY <1>3, <2>1 DEF ReadMessage
  <2> QED
    BY <1>3, <2>2 DEF ReadMessage
<1>4. CASE ForwardMessage(c)
  <2>1. fwd[c] \in Messages /\ fwd[c].id \in Requests
    BY <1>4 DEF ForwardMessage, Messages
  <2>2. Append(respChan[fwd[c].id], fwd[c]) \in Seq(Messages)
    BY <2>1
  <2>3. respChan' \in [Requests -> Seq(Messages)]
    BY <1>4, <2>1, <2>2 DEF ForwardMessage
  <2> QED
    BY <1>4, <2>3 DEF ForwardMessage
<1>5. CASE WriteRequest(c)
  <2>1. Tail(sendChan[c]) \in Seq(Requests) /\ Head(sendChan[c]) \in Requests
    BY <1>5 DEF WriteRequest
  <2> QED
    BY <1>5, <2>1 DEF WriteRequest
<1> QED
  BY <1>1, <1>2, <1>3, <1>4, <1>5

LEMMA RestType ==
  ASSUME TypeOK,
         \/ \E r \in Requests : RemoteReply(r) \/ Expire(r)
         \/ CleanupExpiredRequests \/ WedgeCleaner \/ Stop
  PROVE  TypeOK'
<1> USE DEF TypeOK, handlerVars, tableVars, linkVars, remoteVars, procVars
<1>1. ASSUME NEW r \in Requests, RemoteReply(r)
      PROVE  TypeOK'
  <2>1. PICK n \in 1 .. (MaxChunks + 1), k \in Kinds :
          LET m == [id |-> r, kind |-> k, n |-> n] IN
            /\ sent' = [sent EXCEPT ![r] = @ \cup {m}]
            /\ \/ \E c \in Conns : wire' = [wire EXCEPT ![c] = Append(@, m)]
               \/ UNCHANGED wire
    BY <1>1 DEF RemoteReply
  <2> DEFINE m == [id |-> r, kind |-> k, n |-> n]
  <2>2. m \in Messages
    BY CapacityAssumption DEF Messages
  <2>3. wire' \in [Conns -> Seq(Messages)]
    <3>1. CASE UNCHANGED wire
      BY <3>1
    <3>2. ASSUME NEW c \in Conns, wire' = [wire EXCEPT ![c] = Append(@, m)]
          PROVE  wire' \in [Conns -> Seq(Messages)]
      <4>1. Append(wire[c], m) \in Seq(Messages)
        BY <2>2
      <4> QED
        BY <3>2, <4>1
    <3> QED
      BY <2>1, <3>1, <3>2
  <2>4. sent' \in [Requests -> SUBSET Messages]
    BY <2>1, <2>2
  <2> QED
    BY <1>1, <2>3, <2>4 DEF RemoteReply
<1>2. ASSUME NEW r \in Requests, Expire(r)
      PROVE  TypeOK'
  BY <1>2 DEF Expire
<1>3. CASE CleanupExpiredRequests
  BY <1>3 DEF CleanupExpiredRequests, CancelRequests
<1>4. CASE WedgeCleaner
  BY <1>4, ShutKeeps DEF WedgeCleaner, Wedge
<1>5. CASE Stop
  <2>1. CASE StopCancel
    BY <2>1 DEF StopCancel, StopStep
  <2>2. CASE StopCloseClients
    BY <2>2 DEF StopCloseClients, StopStep
  <2>3. CASE StopClearRequests
    BY <2>3 DEF StopClearRequests, StopStep, CancelRequests
  <2>4. CASE StopShutdown
    BY <2>4 DEF StopShutdown, StopStep
  <2>5. CASE StopExit
    BY <2>5 DEF StopExit, StopStep
  <2>6. CASE StopBlocks
    BY <2>6, ShutKeeps DEF StopBlocks, Wedge
  <2> QED
    BY <1>5, <2>1, <2>2, <2>3, <2>4, <2>5, <2>6 DEF Stop
<1> QED
  BY <1>1, <1>2, <1>3, <1>4, <1>5

LEMMA TypeStep ==
  ASSUME TypeOK, SlotAccounting, [Next]_vars
  PROVE  TypeOK'
<1>1. CASE UNCHANGED vars
  BY <1>1 DEF TypeOK, vars, handlerVars, tableVars, linkVars, remoteVars, procVars
<1>2. CASE Serve
  BY <1>2, HandlerType, PumpType, RestType DEF Serve
<1>3. CASE Stop \/ WedgeCleaner
  BY <1>3, RestType
<1> QED
  BY <1>1, <1>2, <1>3 DEF Next, Finished

-----------------------------------------------------------------------------
(* Slots, continued                                                        *)

(* A step within the handler's body moves neither the count nor the set.   *)
LEMMA SlotBody ==
  ASSUME TypeOK, SlotAccounting, NEW r \in Requests,
         Refuse(r) \/ (Handler(r) /\ ~ReleaseSlot(r))
  PROVE  SlotAccounting'
<1>1. sem' = sem /\ Holding' = Holding
  <2> USE DEF TypeOK, Holding, GoTo, Return
  <2>1. CASE Refuse(r)
    BY <2>1 DEF Refuse
  <2>2. CASE PickClient(r)
    BY <2>2 DEF PickClient
  <2>3. CASE Reject(r)
    BY <2>3 DEF Reject
  <2>4. CASE RegisterRequest(r)
    BY <2>4 DEF RegisterRequest
  <2>5. CASE SendRequest(r) \/ SendBusy(r) \/ SendPanics(r)
    BY <2>5 DEF SendRequest, SendBusy, SendPanics
  <2>6. CASE ReceiveAnswer(r)
    BY <2>6 DEF ReceiveAnswer, AnswerError
  <2>7. CASE ReceiveStream(r)
    BY <2>7 DEF ReceiveStream, AnswerError
  <2>8. CASE GiveUp(r)
    BY <2>8 DEF GiveUp
  <2>9. CASE UnregisterRequest(r)
    BY <2>9 DEF UnregisterRequest
  <2> QED
    BY <2>1, <2>2, <2>3, <2>4, <2>5, <2>6, <2>7, <2>8, <2>9 DEF Handler
<1> QED
  BY <1>1 DEF SlotAccounting

LEMMA SlotStep ==
  ASSUME TypeOK, SlotAccounting, [Next]_vars
  PROVE  SlotAccounting'
<1> USE DEF TypeOK
<1>0. IsFiniteSet(Holding) /\ Cardinality(Holding) \in Nat
  BY RequestsAssumption, FS_Subset, FS_CardinalityType DEF Holding
<1>1. ASSUME NEW r \in Requests, Admit(r)
      PROVE  SlotAccounting'
  <2>1. Holding' = Holding \cup {r} /\ r \notin Holding
    BY <1>1 DEF Admit, GoTo, Holding
  <2>2. Cardinality(Holding') = Cardinality(Holding) + 1
    BY <1>0, <2>1, FS_AddElement
  <2> QED
    BY <1>0, <1>1, <2>2, CapacityAssumption DEF Admit, SlotAccounting
<1>2. ASSUME NEW r \in Requests, ReleaseSlot(r)
      PROVE  SlotAccounting'
  <2>1. Holding' = Holding \ {r} /\ r \in Holding
    BY <1>2 DEF ReleaseSlot, GoTo, Holding
  <2>2. Cardinality(Holding') = Cardinality(Holding) - 1
    BY <1>0, <2>1, FS_RemoveElement
  <2> QED
    BY <1>0, <1>2, <2>2, CapacityAssumption DEF ReleaseSlot, SlotAccounting
<1>3. ASSUME UNCHANGED <<pc, sem>>
      PROVE  SlotAccounting'
  BY <1>3 DEF SlotAccounting, Holding
<1>4. ASSUME NEW r \in Requests, RemoteReply(r) \/ Expire(r)
      PROVE  SlotAccounting'
  BY <1>3, <1>4 DEF RemoteReply, Expire, handlerVars
<1>5. ASSUME NEW c \in Conns,
             \/ Connect(c) \/ Disconnect(c) \/ ReadMessage(c)
             \/ ForwardMessage(c) \/ WriteRequest(c)
      PROVE  SlotAccounting'
  BY <1>3, <1>5 DEF Connect, Disconnect, ReadMessage, ForwardMessage, WriteRequest,
                    handlerVars
<1>6. CASE CleanupExpiredRequests \/ WedgeCleaner \/ Stop
  BY <1>3, <1>6 DEF CleanupExpiredRequests, WedgeCleaner, Stop, StopCancel,
                    StopCloseClients, StopBlocks, StopClearRequests, StopShutdown,
                    StopExit, handlerVars
<1>7. CASE UNCHANGED vars
  BY <1>3, <1>7 DEF vars, handlerVars
<1> QED
  BY <1>1, <1>2, <1>4, <1>5, <1>6, <1>7, SlotBody DEF Next, Serve, Finished, Handler

-----------------------------------------------------------------------------
(* The table and its channels                                              *)

(* What TableOwnership needs to survive RegisterRequest: only an entry     *)
(* that was once registered has had its DoneChan closed.                   *)
DoneNeedsEntry ==
  \A r \in Requests : doneClosed[r] => pc[r] \notin {"new", "admitted", "prepared"}

TableInv == TableOwnership /\ DoneNeedsEntry /\ CloseDiscipline

LEMMA HandlerTable ==
  ASSUME TypeOK, TableInv, NEW r \in Requests, Admit(r) \/ Refuse(r) \/ Handler(r)
  PROVE  TableInv'
<1> USE DEF TypeOK, TableInv, TableOwnership, DoneNeedsEntry, CloseDiscipline,
            GoTo, Return, tableVars, procVars
<1>1. CASE Admit(r)
  BY <1>1 DEF Admit
<1>2. CASE Refuse(r)
  BY <1>2 DEF Refuse
<1>3. CASE PickClient(r)
  BY <1>3 DEF PickClient
<1>4. CASE Reject(r)
  BY <1>4 DEF Reject
<1>5. CASE RegisterRequest(r)
  BY <1>5 DEF RegisterRequest
<1>6. CASE SendRequest(r) \/ SendBusy(r) \/ SendPanics(r)
  <2>1. pc[r] = "sending" /\ \E to \in {"waiting", "leaving"} : pc' = [pc EXCEPT ![r] = to]
    BY <1>6 DEF SendRequest, SendBusy, SendPanics, Sending
  <2>2. UNCHANGED <<tableVars, procVars>>
    BY <1>6 DEF SendRequest, SendBusy, SendPanics
  <2> QED
    BY <2>1, <2>2
<1>7. CASE ReceiveAnswer(r)
  <2>1. pc[r] = "waiting" /\ pc' = [pc EXCEPT ![r] = "leaving"]
    BY <1>7 DEF ReceiveAnswer, AnswerError
  <2>2. UNCHANGED <<table, respClosed, doneClosed, procVars>>
    BY <1>7 DEF ReceiveAnswer, AnswerError
  <2> QED
    BY <2>1, <2>2
<1>8. CASE ReceiveStream(r)
  BY <1>8 DEF ReceiveStream, AnswerError
<1>9. CASE GiveUp(r)
  BY <1>9 DEF GiveUp
<1>10. CASE UnregisterRequest(r)
  BY <1>10 DEF UnregisterRequest
<1>11. CASE ReleaseSlot(r)
  BY <1>11 DEF ReleaseSlot
<1> QED
  BY <1>1, <1>2, <1>3, <1>4, <1>5, <1>6, <1>7, <1>8, <1>9, <1>10, <1>11 DEF Handler

LEMMA TableStep ==
  ASSUME TypeOK, TableInv, [Next]_vars
  PROVE  TableInv'
<1> USE DEF TypeOK, TableInv, TableOwnership, DoneNeedsEntry, CloseDiscipline,
            handlerVars, tableVars, procVars
<1>1. ASSUME NEW r \in Requests, RemoteReply(r) \/ Expire(r)
      PROVE  TableInv'
  BY <1>1 DEF RemoteReply, Expire
<1>2. ASSUME NEW c \in Conns,
             \/ Connect(c) \/ Disconnect(c) \/ ReadMessage(c)
             \/ ForwardMessage(c) \/ WriteRequest(c)
      PROVE  TableInv'
  BY <1>2 DEF Connect, Disconnect, ReadMessage, ForwardMessage, WriteRequest
<1>3. CASE CleanupExpiredRequests
  BY <1>3 DEF CleanupExpiredRequests, CancelRequests
<1>4. CASE StopClearRequests
  BY <1>4 DEF StopClearRequests, CancelRequests
<1>5. CASE WedgeCleaner \/ StopCancel \/ StopCloseClients \/ StopBlocks
              \/ StopShutdown \/ StopExit
  BY <1>5 DEF WedgeCleaner, StopCancel, StopCloseClients, StopBlocks, StopShutdown, StopExit
<1>6. CASE UNCHANGED vars
  BY <1>6 DEF vars
<1> QED
  BY <1>1, <1>2, <1>3, <1>4, <1>5, <1>6, HandlerTable DEF Next, Serve, Stop, Finished

-----------------------------------------------------------------------------
(* Theorems                                                                *)

IInv == TypeOK /\ SlotAccounting /\ TableInv

LEMMA Initially ==
  ASSUME Init
  PROVE  IInv
<1>1. TypeOK
  <2>1. /\ chunks \in [Requests -> Seq(Nat)]
        /\ respChan \in [Requests -> Seq(Messages)]
        /\ sendChan \in [Conns -> Seq(Requests)]
        /\ wire \in [Conns -> Seq(Messages)]
    BY DEF Init
  <2>2. /\ fwd \in [Conns -> Messages \cup {NoMsg}]
        /\ pc \in [Requests -> PCs]
        /\ outcome \in [Requests -> Outcomes]
    BY DEF Init, PCs, Outcomes
  <2> QED
    BY <2>1, <2>2 DEF Init, TypeOK
<1>2. TableInv
  BY DEF Init, TableInv, TableOwnership, DoneNeedsEntry, CloseDiscipline
<1>3. SlotAccounting
  <2>1. Holding = {}
    BY DEF Init, Holding
  <2> QED
    BY <2>1, FS_EmptySet, CapacityAssumption DEF Init, SlotAccounting
<1> QED
  BY <1>1, <1>2, <1>3 DEF IInv

(* The inductive invariant: the types need the slot count (sem stays a     *)
(* natural number because a returning handler is counted in it), and the   *)
(* table needs the history of DoneChan.                                    *)
THEOREM Inductive == Spec => []IInv
<1>1. IInv /\ [Next]_vars => IInv'
  BY TypeStep, SlotStep, TableStep DEF IInv
<1> QED
  BY <1>1, Initially, PTL DEF Spec

(* Every variable keeps its type, for every number of calls and            *)
(* connections, whatever Stop and the cleaner do.                          *)
THEOREM TypeCorrect == Spec => []TypeOK
<1>1. IInv => TypeOK
  BY DEF IInv
<1> QED
  BY <1>1, Inductive, PTL

(* The semaphore never leaks a slot nor frees one twice.                   *)
THEOREM Slots == Spec => []SlotAccounting
<1>1. IInv => SlotAccounting
  BY DEF IInv
<1> QED
  BY <1>1, Inductive, PTL

(* An entry in the table has an owner that will remove it and open         *)
(* channels; a handler in its select never sees ResponseChan closed.       *)
THEOREM Ownership == Spec => []TableOwnership
<1>1. IInv => TableOwnership
  BY DEF IInv, TableInv
<1> QED
  BY <1>1, Inductive, PTL

(* No channel of a request is closed twice by cleaner, Stop and handlers.  *)
THEOREM Closing == Spec => []CloseDiscipline
<1>1. IInv => CloseDiscipline
  BY DEF IInv, TableInv
<1> QED
  BY <1>1, Inductive, PTL

=============================================================================
